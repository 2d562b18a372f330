--------------------------- MODULE RateLimit_proofs ----------------------------
(***************************************************************************)
(* Proofs about RateLimit, for any requests, capacities, periods, lags and *)
(* faults.                                                                 *)
(***************************************************************************)
EXTENDS RateLimit, FiniteSetTheorems, TLAPS

USE RateLimitAssumption DEF RateLimitAssumption

-------------------------------------------------------------------------------
(* The inductive invariant.                                                *)

(* What is left of a call's tiers when one of their scripts is to run.     *)
Routes ==
  [c \in Calls |->
     CASE c = "ai" -> {<<"general", "ai", "ai_daily">>, <<"ai", "ai_daily">>, <<"ai_daily">>}
       [] c = "resend" -> {<<"general">>}
       [] c \in {"login", "register"} -> {<<"general_ip">>}
       [] OTHER -> {}]

(* A request, by its own record x: where its scripts run, and that nothing *)
(* is said of its answer before there is one.                              *)
PlaceKnows(x) ==
  /\ x.pc = "script" => x.tiers \in Routes[x.call]
  /\ x.pc # "done" => x.end = "none" /\ x.by = "none" /\ x.ago = 0
  /\ x.pc \notin {"expire", "done"} => x.nth = 0
  /\ x.pc = "new" => x.call = "none"

(* What it knows to be over is over.                                       *)
PriorKnows(r) == \A s \in req[r].prior : req[s].nth > 0 /\ At(s, "done")

Overlapping(r) ==
  {s \in Requests \ {r} : req[s].nth > 0 /\ r \notin req[s].prior /\ s \notin req[r].prior}

(* Since an attempt was let through, only attempts that overlap with it    *)
(* have been counted.                                                      *)
ExcessKnows(r) ==
  ~req[r].open =>
    /\ req[r].pc \in {"verify", "incr"}
         => throttle.count < Threshold + Cardinality(Overlapping(r))
    /\ req[r].nth <= Threshold + Cardinality(Overlapping(r))

Admitted(k, interval) ==
  {r \in Requests : req[r].passed[k] # Forever /\ req[r].passed[k] <= interval}

(* What a bucket has let through in an interval, and what it holds and     *)
(* will have gained, is what it held and what it gained; once its key is   *)
(* gone, also without its first filling.                                   *)
WindowKnows(k) ==
  \A interval \in 0..MaxAge :
    Admitted(k, interval) # {} =>
      LET taken == Cardinality(Admitted(k, interval)) * Period[k]
          gained == (interval + slip[k]) * Capacity[k]
      IN  IF bucket[k].ttl = 0 THEN taken <= gained
          ELSE taken + bucket[k].tokens + bucket[k].age * Capacity[k]
                 <= Full(k) + gained + MaxLag * Capacity[k]

AgeKnows(k) ==
  bucket[k].ttl > 0 => /\ bucket[k].age + bucket[k].ttl >= 2 * Period[k]
                       /\ bucket[k].age + bucket[k].ttl <= 2 * Period[k] + MaxLag

(* The bucket that refused its last request has had, since, as much time   *)
(* as that request, and gains in the time it said what it lacks.           *)
RefusalKnows(k, r) ==
  req[r].by = k /\ bucket[k].last = r /\ bucket[k].ttl > 0 =>
    /\ req[r].ago <= bucket[k].age
    /\ k # "ai_daily" => bucket[k].tokens + req[r].retry * Capacity[k] >= Period[k]

BucketKnows(k) ==
  /\ AgeKnows(k)
  /\ k \in Remembered => WindowKnows(k)
  /\ \A r \in Requests : RefusalKnows(k, r)

ThrottleKnows == /\ throttle.count = 0 <=> throttle.ttl = 0
                 /\ CountersLapse

Functional == /\ bucket = [k \in Tiers |-> bucket[k]]
              /\ req = [r \in Requests |-> req[r]]

Inv1 == /\ TypeOK
        /\ Functional
        /\ \A k \in Tiers : BucketKnows(k)
        /\ \A r \in Requests : PlaceKnows(req[r]) /\ PriorKnows(r) /\ ExcessKnows(r)
        /\ ThrottleKnows

-------------------------------------------------------------------------------
(* Numbers.                                                                *)

LEMMA MinOfTwo ==
  ASSUME NEW a \in Int, NEW b \in Int
  PROVE  Min({a, b}) = IF a <= b THEN a ELSE b
<1>1. CASE a <= b
  <2>1. \A x : (x \in {a, b} /\ \A y \in {a, b} : x <= y) <=> x = a
    BY <1>1
  <2> QED
    BY <1>1, <2>1 DEF Min
<1>2. CASE ~(a <= b)
  <2>1. \A x : (x \in {a, b} /\ \A y \in {a, b} : x <= y) <=> x = b
    BY <1>2
  <2> QED
    BY <1>2, <2>1 DEF Min
<1> QED
  BY <1>1, <1>2

LEMMA Powers == ASSUME NEW n \in Nat PROVE 2 ^ n \in Nat
<1>1. IsFiniteSet(1..n)
  BY FS_Interval
<1>2. Cardinality(1..n) = n
  <2>1. 1 \in Int /\ n \in Int
    OBVIOUS
  <2>2. Cardinality(1..n) = IF 1 > n THEN 0 ELSE n - 1 + 1
    BY <2>1, FS_Interval, Zenon
  <2> QED
    BY <2>2
<1>3. IsFiniteSet(SUBSET (1..n)) /\ Cardinality(SUBSET (1..n)) = 2 ^ n
  BY <1>1, <1>2, FS_SUBSET
<1> QED
  BY <1>3, FS_CardinalityType

LEMMA Products == ASSUME NEW a \in Nat, NEW b \in Nat PROVE a * b \in Nat
  OBVIOUS

LEMMA Distributes ==
  ASSUME NEW a \in Int, NEW b \in Int, NEW c \in Int
  PROVE  (a + b) * c = a * c + b * c
  OBVIOUS

LEMMA ProductsGrow ==
  ASSUME NEW a \in Nat, NEW b \in Nat, NEW c \in Nat, a <= b
  PROVE  a * c <= b * c
<1>1. b * c = a * c + (b - a) * c
  BY Distributes
<1>2. (b - a) * c \in Nat
  BY Products
<1> QED
  BY <1>1, <1>2

(* What is taken and left, is what was taken, left and gained.             *)
LEMMA Balance ==
  ASSUME NEW taken \in Int, NEW left \in Int, NEW gain \in Int, NEW found \in Int,
         NEW after \in Int, NEW rest \in Int, NEW bound \in Int, NEW age \in Int,
         after <= taken + found, found <= left + gain, age = gain + rest,
         taken + left + age <= bound
  PROVE  after + rest <= bound
  OBVIOUS

(* math.ceil: the wait is long enough.                                     *)
LEMMA Ceiling ==
  ASSUME NEW x \in Nat, NEW c \in Nat \ {0}
  PROVE  /\ (x + c - 1) \div c \in Nat
         /\ ((x + c - 1) \div c) * c >= x
<1> DEFINE y == x + c - 1
           q == y \div c
<1>1. y \in Nat /\ c \in Int /\ c > 0
  OBVIOUS
<1>2. q \in Int
  BY <1>1
<1>3. y < c * q + c
  BY <1>1
<1> HIDE DEF q
<1>4. q * c >= x
  BY <1>2, <1>3
<1>5. q >= 0
  <2>1. CASE q < 0
    <3>1. (-q) * c = 0 - q * c /\ -q \in Nat \ {0}
      BY <1>2, <2>1
    <3>2. 1 * c <= (-q) * c
      BY <3>1, ProductsGrow
    <3> QED
      BY <1>2, <1>3, <3>1, <3>2
  <2> QED
    BY <1>2, <2>1
<1> QED
  BY <1>2, <1>4, <1>5 DEF q

LEMMA Buckets ==
  ASSUME NEW k \in Tiers
  PROVE  /\ Capacity[k] \in Nat \ {0} /\ Period[k] \in Nat \ {0}
         /\ Full(k) \in Nat /\ Full(k) >= Period[k] /\ MaxLag <= Period[k]
<1>1. Capacity[k] \in Nat \ {0} /\ Period[k] \in Nat \ {0} /\ MaxLag <= Period[k]
  OBVIOUS
<1>2. Full(k) \in Nat
  BY <1>1, Products DEF Full
<1>3. 1 * Period[k] <= Full(k)
  BY <1>1, ProductsGrow DEF Full
<1> QED
  BY <1>1, <1>2, <1>3

-------------------------------------------------------------------------------
(* One request.                                                            *)

LEMMA Counting ==
  ASSUME NEW S, NEW T, IsFiniteSet(T), S \subseteq T
  PROVE  /\ Cardinality(S) \in Nat /\ Cardinality(T) \in Nat
         /\ Cardinality(S) <= Cardinality(T)
<1>1. IsFiniteSet(S) /\ Cardinality(S) <= Cardinality(T)
  BY FS_Subset
<1> QED
  BY <1>1, FS_CardinalityType

LEMMA Overlaps == \A r \in Requests : IsFiniteSet(Overlapping(r)) /\ IsFiniteSet(Overlapping(r)')
<1> SUFFICES ASSUME NEW r \in Requests
             PROVE  IsFiniteSet(Overlapping(r)) /\ IsFiniteSet(Overlapping(r)')
  OBVIOUS
<1>1. Overlapping(r) \in SUBSET Requests /\ Overlapping(r)' \in SUBSET Requests
  BY DEF Overlapping
<1> QED
  BY <1>1, FS_Subset

(* An attempt may be let through below the threshold, and is counted once, *)
(* as one more.                                                            *)
Attempts(r, x) ==
  /\ ~x.open =>
       /\ ~req[r].open
       /\ x.pc \in {"verify", "incr"}
            => req[r].pc \in {"verify", "incr"} \/ throttle.count < Threshold
       /\ x.nth = req[r].nth \/ (At(r, "incr") /\ x.nth = throttle.count + 1)
  /\ \/ throttle'.count <= throttle.count /\ x.nth = req[r].nth
     \/ /\ throttle'.count = throttle.count + 1 /\ At(r, "incr")
        /\ x.nth > 0 /\ x.pc \notin {"verify", "incr"}

(* A request that begins learns what is over; nobody forgets.              *)
Learns(r, x) ==
  \/ x.prior = req[r].prior
  \/ /\ req[r].nth = 0 /\ x.nth = 0 /\ x.pc = "script"
     /\ \A s \in x.prior : s \in Requests \ {r} /\ req[s].nth > 0 /\ At(s, "done")

LEMMA RequestStep ==
  ASSUME Inv1, NEW r \in Requests, NEW x \in Request, PlaceKnows(x), ~At(r, "done"),
         req' = [req EXCEPT ![r] = x], throttle' \in Throttle, Attempts(r, x), Learns(r, x)
  PROVE  /\ req' = [s \in Requests |-> req'[s]]
         /\ \A s \in Requests : /\ req'[s] \in Request
                                /\ PlaceKnows(req'[s]) /\ PriorKnows(s)' /\ ExcessKnows(s)'
<1>1. req'[r] = x /\ \A s \in Requests \ {r} : req'[s] = req[s]
  BY DEF Inv1, Functional
<1>2. req' = [s \in Requests |-> req'[s]]
  BY DEF Inv1, Functional
<1>3. \A s \in Requests : req'[s] \in Request /\ PlaceKnows(req'[s])
  BY <1>1 DEF Inv1, TypeOK
<1>4. throttle.count \in Nat /\ throttle'.count \in Nat
  BY DEF Inv1, TypeOK, Throttle
<1>5. \A s \in Requests : req[s].nth \in Nat /\ req[s].prior \in SUBSET Requests
  BY DEF Inv1, TypeOK, Request
<1>6. x.nth \in Nat /\ x.prior \in SUBSET Requests /\ x.open \in BOOLEAN
  BY DEF Request
<1>7. req[r].nth = 0 \/ At(r, "expire")
  BY DEF Inv1, PlaceKnows, At
<1>8. ASSUME NEW s \in Requests PROVE PriorKnows(s)'
  <2> SUFFICES ASSUME NEW u \in req'[s].prior PROVE req'[u].nth > 0 /\ At(u, "done")'
    BY DEF PriorKnows
  <2>1. u \in Requests
    BY <1>1, <1>5, <1>6
  <2>2. req[u].nth > 0 /\ At(u, "done")
    BY <1>1 DEF Learns, Inv1, PriorKnows
  <2>3. u # r
    BY <2>2
  <2> QED
    BY <1>1, <2>1, <2>2, <2>3 DEF At
<1>9. ASSUME NEW s \in Requests, s # r \/ x.prior = req[r].prior
      PROVE  Overlapping(s) \subseteq Overlapping(s)'
  <2> SUFFICES ASSUME NEW u \in Overlapping(s) PROVE u \in Overlapping(s)'
    OBVIOUS
  <2>1. u \in Requests \ {s} /\ req[u].nth > 0 /\ s \notin req[u].prior /\ u \notin req[s].prior
    BY DEF Overlapping
  <2>2. req'[u].nth > 0 /\ s \notin req'[u].prior
    BY <1>1, <1>4, <1>6, <1>7, <2>1 DEF Learns, Attempts, At
  <2>3. u \notin req'[s].prior
    BY <1>1, <1>9, <2>1
  <2> QED
    BY <2>1, <2>2, <2>3 DEF Overlapping
<1>10. ASSUME NEW s \in Requests, s # r \/ x.prior = req[r].prior
       PROVE  /\ Cardinality(Overlapping(s)) \in Nat /\ Cardinality(Overlapping(s)') \in Nat
              /\ Cardinality(Overlapping(s)) <= Cardinality(Overlapping(s)')
  BY <1>9, <1>10, Overlaps, Counting
<1>11. ASSUME NEW s \in Requests \ {r} PROVE ExcessKnows(s)'
  <2> SUFFICES ASSUME ~req[s].open
               PROVE  /\ req[s].pc \in {"verify", "incr"}
                           => throttle'.count < Threshold + Cardinality(Overlapping(s)')
                      /\ req[s].nth <= Threshold + Cardinality(Overlapping(s)')
    BY <1>1 DEF ExcessKnows
  <2>1. /\ req[s].pc \in {"verify", "incr"}
             => throttle.count < Threshold + Cardinality(Overlapping(s))
        /\ req[s].nth <= Threshold + Cardinality(Overlapping(s))
    BY DEF Inv1, ExcessKnows
  <2>2. CASE throttle'.count <= throttle.count
    BY <1>4, <1>5, <1>10, <2>1, <2>2
  <2>3. CASE /\ throttle'.count = throttle.count + 1 /\ At(r, "incr") /\ x.nth > 0
             /\ req[s].pc \in {"verify", "incr"}
    <3>1. x.prior = req[r].prior
      BY <1>7, <2>3 DEF Learns, At
    <3>2. s \notin req[r].prior /\ r \notin req[s].prior
      BY <2>3 DEF Inv1, PriorKnows, At
    <3>3. r \in Overlapping(s)'
      BY <1>1, <2>3, <3>1, <3>2 DEF Overlapping
    <3>4. r \notin Overlapping(s)
      BY <1>6, <1>7, <2>3 DEF Overlapping, At
    <3>5. Overlapping(s) \cup {r} \subseteq Overlapping(s)'
      BY <1>9, <3>3
    <3>6. /\ IsFiniteSet(Overlapping(s) \cup {r})
          /\ Cardinality(Overlapping(s) \cup {r}) = Cardinality(Overlapping(s)) + 1
      BY <3>4, Overlaps, FS_AddElement
    <3>7. Cardinality(Overlapping(s)) + 1 <= Cardinality(Overlapping(s)')
      BY <3>5, <3>6, Overlaps, Counting
    <3> QED
      BY <1>4, <1>5, <1>10, <2>1, <2>3, <3>7
  <2>4. CASE throttle'.count = throttle.count + 1 /\ req[s].pc \notin {"verify", "incr"}
    BY <1>4, <1>5, <1>10, <2>1, <2>4
  <2> QED
    BY <2>2, <2>3, <2>4 DEF Attempts
<1>12. ExcessKnows(r)'
  <2> SUFFICES ASSUME ~x.open
               PROVE  /\ x.pc \in {"verify", "incr"}
                           => throttle'.count < Threshold + Cardinality(Overlapping(r)')
                      /\ x.nth <= Threshold + Cardinality(Overlapping(r)')
    BY <1>1 DEF ExcessKnows
  <2>1. Cardinality(Overlapping(r)') \in Nat
    BY Overlaps, Counting
  <2>2. CASE x.prior # req[r].prior
    BY <2>1, <2>2 DEF Learns
  <2>3. CASE x.prior = req[r].prior
    <3>1. /\ req[r].pc \in {"verify", "incr"}
               => throttle.count < Threshold + Cardinality(Overlapping(r))
          /\ req[r].nth <= Threshold + Cardinality(Overlapping(r))
      BY DEF Inv1, ExcessKnows, Attempts
    <3>2. x.pc \in {"verify", "incr"} => throttle'.count <= throttle.count
      BY DEF Attempts
    <3> QED
      BY <1>4, <1>5, <1>6, <1>10, <2>1, <2>3, <3>1, <3>2 DEF Attempts, At
  <2> QED
    BY <2>2, <2>3
<1> QED
  BY <1>2, <1>3, <1>8, <1>11, <1>12

(* The buckets know nothing of a step that leaves them and what has passed *)
(* them alone.                                                             *)
LEMMA BucketsStay ==
  ASSUME Inv1, NEW r \in Requests, NEW x, req' = [req EXCEPT ![r] = x],
         UNCHANGED <<bucket, slip>>, x.passed = req[r].passed, x.by \notin Tiers
  PROVE  \A k \in Tiers : BucketKnows(k)'
<1>1. req'[r] = x /\ \A s \in Requests \ {r} : req'[s] = req[s]
  BY DEF Inv1, Functional
<1> SUFFICES ASSUME NEW k \in Tiers PROVE BucketKnows(k)'
  OBVIOUS
<1>2. BucketKnows(k)
  BY DEF Inv1
<1>3. AgeKnows(k)'
  BY <1>2 DEF BucketKnows, AgeKnows
<1>4. ASSUME k \in Remembered PROVE WindowKnows(k)'
  <2>1. ASSUME NEW interval \in 0..MaxAge PROVE Admitted(k, interval)' = Admitted(k, interval)
    BY <1>1 DEF Admitted
  <2> QED
    BY <1>2, <1>4, <2>1 DEF BucketKnows, WindowKnows
<1>5. ASSUME NEW s \in Requests PROVE RefusalKnows(k, s)'
  <2>1. CASE s = r
    BY <1>1, <2>1 DEF RefusalKnows
  <2>2. CASE s # r
    BY <1>1, <1>2, <2>2 DEF BucketKnows, RefusalKnows
  <2> QED
    BY <2>1, <2>2
<1> QED
  BY <1>3, <1>4, <1>5 DEF BucketKnows

LEMMA QuietStep ==
  ASSUME Inv1, NEW r \in Requests, NEW x \in Request, PlaceKnows(x), ~At(r, "done"),
         req' = [req EXCEPT ![r] = x], Attempts(r, x), Learns(r, x),
         UNCHANGED <<bucket, slip>>, x.passed = req[r].passed, x.by \notin Tiers,
         throttle' \in Throttle, ThrottleKnows', cooldown' \in 0..Cooldown,
         faultsLeft' \in 0..FaultBudget
  PROVE  Inv1'
<1>1. /\ req' = [s \in Requests |-> req'[s]]
      /\ \A s \in Requests : /\ req'[s] \in Request
                             /\ PlaceKnows(req'[s]) /\ PriorKnows(s)' /\ ExcessKnows(s)'
  BY RequestStep
<1>2. \A k \in Tiers : BucketKnows(k)'
  BY BucketsStay
<1>3. TypeOK' /\ Functional'
  BY <1>1 DEF Inv1, TypeOK, Functional, Bucket
<1> QED
  BY <1>1, <1>2, <1>3 DEF Inv1

(* The counter is left alone by a request that has no EXPIRE to send.      *)
LEMMA ThrottleStays ==
  ASSUME Inv1, NEW r \in Requests, NEW x, req' = [req EXCEPT ![r] = x],
         UNCHANGED throttle, ~At(r, "done"), ~At(r, "expire") \/ x.end = "unexpired"
  PROVE  throttle' \in Throttle /\ ThrottleKnows'
<1>1. req'[r] = x /\ \A s \in Requests \ {r} : req'[s] = req[s]
  BY DEF Inv1, Functional
<1>2. throttle' \in Throttle /\ (throttle'.count = 0 <=> throttle'.ttl = 0)
  BY DEF Inv1, TypeOK, ThrottleKnows
<1>3. CountersLapse'
  <2> SUFFICES ASSUME throttle.ttl = Forever
               PROVE  \E s \in Requests : req'[s].pc = "expire" \/ req'[s].end = "unexpired"
    BY DEF CountersLapse, At
  <2>1. PICK s \in Requests : At(s, "expire") \/ req[s].end = "unexpired"
    BY DEF Inv1, ThrottleKnows, CountersLapse
  <2>2. CASE s = r
    BY <1>1, <2>1, <2>2 DEF Inv1, PlaceKnows, At
  <2>3. CASE s # r
    BY <1>1, <2>1, <2>3 DEF At
  <2> QED
    BY <2>2, <2>3
<1> QED
  BY <1>2, <1>3 DEF ThrottleKnows

-------------------------------------------------------------------------------
(* Records.                                                                *)

LEMMA Places ==
  ASSUME Inv1, NEW r \in Requests
  PROVE  /\ req[r] \in Request /\ PlaceKnows(req[r])
         /\ ~At(r, "done") => req[r].by \notin Tiers /\ req[r].end = "none"
<1>1. Tiers \cap {"none"} = {}
  BY DEF Tiers
<1> QED
  BY <1>1 DEF Inv1, TypeOK, PlaceKnows, At

(* A request moves to pc, with an open check or not.                       *)
Moved(r, pc, open) == [req[r] EXCEPT !.pc = pc, !.open = open]

LEMMA Moves ==
  ASSUME Inv1, NEW r \in Requests, NEW pc, NEW open \in BOOLEAN, NEW x, x = Moved(r, pc, open),
         pc \in {"verify", "incr", "reset"}, req[r].pc \in {"check", "verify"}
  PROVE  /\ x \in Request /\ PlaceKnows(x) /\ Learns(r, x)
         /\ x.pc = pc /\ x.open = open /\ x.nth = req[r].nth
         /\ x.passed = req[r].passed /\ x.by = req[r].by /\ x.end = req[r].end
<1>1. req[r] \in Request /\ PlaceKnows(req[r])
  BY Places
<1>2. /\ x.pc = pc /\ x.open = open /\ x.nth = req[r].nth /\ x.prior = req[r].prior
      /\ x.passed = req[r].passed /\ x.by = req[r].by /\ x.end = req[r].end /\ x.ago = req[r].ago
      /\ x.call = req[r].call
  BY <1>1 DEF Request, Moved
<1>3. x \in Request
  BY <1>1 DEF Request, Moved
<1>4. PlaceKnows(x)
  BY <1>1, <1>2 DEF PlaceKnows
<1>5. Learns(r, x)
  BY <1>2 DEF Learns
<1> QED
  BY <1>2, <1>3, <1>4, <1>5

(* A request is answered.                                                  *)
Answer(r, x, end, by) ==
  /\ x \in Request /\ x.pc = "done" /\ x.end = end /\ x.by = by
  /\ x.open = req[r].open /\ x.passed = req[r].passed /\ x.ago = req[r].ago
  /\ x.prior = req[r].prior

LEMMA DoneAnswers ==
  ASSUME Inv1, NEW r \in Requests, NEW end, NEW by,
         end \in {"ok", "refused", "unexpired"}, by \in Tiers \cup {"none", "throttle", "cooldown"}
  PROVE  /\ Answer(r, Done(r, end, by), end, by) /\ Done(r, end, by).nth = req[r].nth
         /\ \A retry \in Nat : LET x == [Done(r, end, by) EXCEPT !.retry = retry]
                               IN  Answer(r, x, end, by) /\ x.nth = req[r].nth /\ x.retry = retry
         /\ \A nth \in Nat : LET x == [Done(r, end, by) EXCEPT !.nth = nth]
                             IN  Answer(r, x, end, by) /\ x.nth = nth
<1>1. req[r] \in Request
  BY Places
<1>2. <<>> \in Seq(Tiers) /\ 0 \in 0..MaxLag
  OBVIOUS
<1>3. Answer(r, Done(r, end, by), end, by) /\ Done(r, end, by).nth = req[r].nth
  BY <1>1, <1>2 DEF Answer, Done, Request
<1>4. ASSUME NEW retry \in Nat, NEW x, x = [Done(r, end, by) EXCEPT !.retry = retry]
      PROVE  Answer(r, x, end, by) /\ x.nth = req[r].nth /\ x.retry = retry
  BY <1>1, <1>2, <1>4 DEF Answer, Done, Request
<1>5. ASSUME NEW nth \in Nat, NEW x, x = [Done(r, end, by) EXCEPT !.nth = nth]
      PROVE  Answer(r, x, end, by) /\ x.nth = nth
  BY <1>1, <1>2, <1>5 DEF Answer, Done, Request
<1> QED
  BY <1>3, <1>4, <1>5

LEMMA AnswerKnows ==
  ASSUME NEW r \in Requests, NEW x, NEW end, NEW by, Answer(r, x, end, by)
  PROVE  PlaceKnows(x) /\ Learns(r, x)
  BY DEF Answer, PlaceKnows, Learns

-------------------------------------------------------------------------------
(* The steps that leave the buckets alone.                                 *)

LEMMA Uncounted ==
  ASSUME Inv1, NEW r \in Requests, NEW x, UNCHANGED throttle, x.nth = req[r].nth,
         ~x.open => /\ ~req[r].open
                    /\ x.pc \in {"verify", "incr"}
                         => req[r].pc \in {"verify", "incr"} \/ throttle.count < Threshold
  PROVE  Attempts(r, x)
<1>1. throttle'.count <= throttle.count
  BY DEF Inv1, TypeOK, Throttle
<1> QED
  BY <1>1 DEF Attempts

LEMMA RoutesOf ==
  ASSUME NEW call \in Calls \ {"none"}
  PROVE  TiersOf(call) \in Seq(Tiers) /\ TiersOf(call) \in Routes[call]
<1>1. CASE call = "ai"
  BY <1>1 DEF TiersOf, Tiers, Routes, Calls
<1>2. CASE call = "resend"
  BY <1>2 DEF TiersOf, Tiers, Routes, Calls
<1>3. CASE call = "login"
  BY <1>3 DEF TiersOf, Tiers, Routes, Calls
<1>4. CASE call = "register"
  BY <1>4 DEF TiersOf, Tiers, Routes, Calls
<1> QED
  BY <1>1, <1>2, <1>3, <1>4 DEF Calls

LEMMA CallInv1 ==
  ASSUME Inv1, NEW r \in Requests, NEW call \in Calls \ {"none"}, Call(r, call)
  PROVE  Inv1'
<1> DEFINE over == {s \in Requests : req[s].nth > 0 /\ At(s, "done")}
           x == [req[r] EXCEPT !.pc = "script", !.call = call, !.tiers = TiersOf(call),
                               !.prior = over]
<1>1. req[r] \in Request /\ PlaceKnows(req[r]) /\ req[r].pc = "new"
  BY Places DEF Call, At
<1>2. /\ x.pc = "script" /\ x.call = call /\ x.tiers = TiersOf(call) /\ x.prior = over
      /\ x.nth = req[r].nth /\ x.open = req[r].open /\ x.passed = req[r].passed
      /\ x.end = req[r].end /\ x.by = req[r].by /\ x.ago = req[r].ago
  BY <1>1 DEF Request
<1>3. TiersOf(call) \in Seq(Tiers) /\ TiersOf(call) \in Routes[call]
  BY RoutesOf
<1>4. x \in Request
  BY <1>1, <1>3 DEF Request
<1>5. req' = [req EXCEPT ![r] = x]
  BY DEF Call
<1> HIDE DEF x
<1>6. PlaceKnows(x) /\ x.nth = 0
  BY <1>1, <1>2, <1>3 DEF PlaceKnows
<1>7. Learns(r, x)
  BY <1>1, <1>2, <1>6 DEF Learns, At
<1>8. Attempts(r, x)
  BY <1>1, <1>2, Uncounted DEF Call
<1>9. throttle' \in Throttle /\ ThrottleKnows'
  BY <1>1, <1>5, ThrottleStays DEF Call, At
<1>10. ~At(r, "done") /\ x.by \notin Tiers
  BY <1>1, <1>2, Places DEF At
<1>11. /\ UNCHANGED <<bucket, slip>> /\ cooldown' \in 0..Cooldown
       /\ faultsLeft' \in 0..FaultBudget
  BY DEF Call, Inv1, TypeOK
<1> QED
  BY <1>2, <1>4, <1>5, <1>6, <1>7, <1>8, <1>9, <1>10, <1>11, QuietStep

(* The throttle's check, which a failing command skips, and the sign-in.   *)
GoesOn(r, next, open) ==
  \/ /\ At(r, "check") /\ next \in {"verify", "incr"}
     /\ open \/ (throttle.count < Threshold /\ open = req[r].open)
  \/ At(r, "verify") /\ next \in {"incr", "reset"} /\ open = req[r].open

LEMMA CheckInv1 ==
  ASSUME Inv1, NEW r \in Requests, NEW next, NEW open \in BOOLEAN, NEW x,
         x = Moved(r, next, open), req' = [req EXCEPT ![r] = x],
         GoesOn(r, next, open),
         UNCHANGED <<bucket, throttle, cooldown, slip>>, faultsLeft' \in 0..FaultBudget
  PROVE  Inv1'
<1>1. /\ x \in Request /\ PlaceKnows(x) /\ Learns(r, x)
      /\ x.pc = next /\ x.open = open /\ x.nth = req[r].nth
      /\ x.passed = req[r].passed /\ x.by = req[r].by /\ x.end = req[r].end
  <2>1. next \in {"verify", "incr", "reset"} /\ req[r].pc \in {"check", "verify"}
    BY DEF At, GoesOn
  <2> QED
    BY <2>1, Moves
<1>2. Attempts(r, x)
  BY <1>1, Uncounted DEF At, GoesOn
<1>3. ~At(r, "done") /\ ~At(r, "expire")
  BY DEF At, GoesOn
<1>4. throttle' \in Throttle /\ ThrottleKnows'
  BY <1>3, ThrottleStays
<1>5. x.by \notin Tiers
  BY <1>1, <1>3, Places
<1>6. cooldown' \in 0..Cooldown
  BY DEF Inv1, TypeOK
<1> HIDE DEF Attempts
<1> QED
  BY <1>1, <1>2, <1>3, <1>4, <1>5, <1>6, QuietStep

(* An answer that neither counts nor expires anything.                     *)
LEMMA AnswerInv1 ==
  ASSUME Inv1, NEW r \in Requests, NEW x, NEW end, NEW by,
         Answer(r, x, end, by), x.nth = req[r].nth, req' = [req EXCEPT ![r] = x],
         by \in {"none", "throttle", "cooldown"},
         ~At(r, "done"), ~At(r, "expire") \/ end = "unexpired",
         UNCHANGED <<bucket, throttle, slip>>, cooldown' \in 0..Cooldown,
         faultsLeft' \in 0..FaultBudget
  PROVE  Inv1'
<1>1. PlaceKnows(x) /\ Learns(r, x)
  BY AnswerKnows
<1>2. Attempts(r, x)
  BY Uncounted DEF Answer
<1>3. throttle' \in Throttle /\ ThrottleKnows'
  BY ThrottleStays DEF Answer
<1>4. x.by \notin Tiers
  BY DEF Tiers, Answer
<1>5. x \in Request /\ x.passed = req[r].passed
  BY DEF Answer
<1> QED
  BY <1>1, <1>2, <1>3, <1>4, <1>5, QuietStep

LEMMA SwayInv1 ==
  ASSUME Inv1, NEW r \in Requests, Check(r) \/ Verify(r) \/ CheckResendCooldown(r)
  PROVE  Inv1'
<1>1. req[r].open \in BOOLEAN
  BY Places DEF Request
<1>2. faultsLeft' \in 0..FaultBudget /\ UNCHANGED <<bucket, throttle, slip>>
  BY DEF Inv1, TypeOK, Check, Verify, CheckResendCooldown
<1>3. CASE Check(r) /\ throttle.count >= Threshold
  <2> DEFINE retry == Min({2 ^ (throttle.count - Threshold + 1), Window})
             x == [Done(r, "refused", "throttle") EXCEPT !.retry = retry]
  <2>1. retry \in Nat
    <3>1. throttle.count - Threshold + 1 \in Nat
      BY <1>3 DEF Inv1, TypeOK, Throttle
    <3>2. 2 ^ (throttle.count - Threshold + 1) \in Nat
      BY <3>1, Powers
    <3> HIDE DEF retry
    <3> QED
      BY <3>2, MinOfTwo DEF retry
  <2> HIDE DEF retry
  <2>2. Answer(r, x, "refused", "throttle") /\ x.nth = req[r].nth
    BY <2>1, DoneAnswers
  <2>3. req' = [req EXCEPT ![r] = x]
    BY <1>3 DEF Check, retry
  <2>4. ~At(r, "done") /\ ~At(r, "expire") /\ cooldown' \in 0..Cooldown
    BY <1>3 DEF Check, At, Inv1, TypeOK
  <2> HIDE DEF x
  <2> QED
    BY <1>2, <2>2, <2>3, <2>4, AnswerInv1
<1>4. CASE Check(r) /\ throttle.count < Threshold
  <2> DEFINE next == IF req[r].call = "login" THEN "verify" ELSE "incr"
             x == Moved(r, next, req[r].open)
  <2>1. x = [req[r] EXCEPT !.pc = next]
    BY Places DEF Request, Moved
  <2>2. ~(throttle.count >= Threshold)
    BY <1>4 DEF Inv1, TypeOK, Throttle
  <2>3. req' = [req EXCEPT ![r] = x]
    BY <1>4, <2>1, <2>2 DEF Check
  <2>4. At(r, "check") /\ next \in {"verify", "incr"} /\ UNCHANGED cooldown
    BY <1>4 DEF Check
  <2> HIDE DEF next
  <2> QED
    BY <1>1, <1>2, <1>4, <2>3, <2>4, CheckInv1 DEF GoesOn
<1>5. CASE Verify(r)
  <2>1. PICK next \in {"incr", "reset"} : req' = [req EXCEPT ![r].pc = next]
    BY <1>5 DEF Verify
  <2> DEFINE x == Moved(r, next, req[r].open)
  <2>2. x = [req[r] EXCEPT !.pc = next]
    BY Places DEF Request, Moved
  <2>3. req' = [req EXCEPT ![r] = x]
    BY <2>1, <2>2
  <2>4. At(r, "verify") /\ UNCHANGED cooldown
    BY <1>5 DEF Verify
  <2> QED
    BY <1>1, <1>2, <2>3, <2>4, CheckInv1 DEF GoesOn
<1>6. CASE CheckResendCooldown(r)
  <2>1. cooldown' \in 0..Cooldown /\ ~At(r, "done") /\ ~At(r, "expire")
    BY <1>6 DEF CheckResendCooldown, At, Inv1, TypeOK
  <2>2. CASE cooldown = 0
    <3> DEFINE x == Done(r, "ok", "none")
    <3>1. req' = [req EXCEPT ![r] = x]
      BY <1>6, <2>2 DEF CheckResendCooldown
    <3>2. Answer(r, x, "ok", "none") /\ x.nth = req[r].nth
      BY DoneAnswers
    <3> HIDE DEF x
    <3> QED
      BY <1>2, <2>1, <3>1, <3>2, AnswerInv1
  <2>3. CASE cooldown # 0
    <3> DEFINE x == [Done(r, "refused", "cooldown") EXCEPT !.retry = Cooldown]
    <3>1. req' = [req EXCEPT ![r] = x]
      BY <1>6, <2>3 DEF CheckResendCooldown
    <3>2. Answer(r, x, "refused", "cooldown") /\ x.nth = req[r].nth
      BY DoneAnswers
    <3> HIDE DEF x
    <3> QED
      BY <1>2, <2>1, <3>1, <3>2, AnswerInv1
  <2> QED
    BY <2>2, <2>3
<1> QED
  <2>1. throttle.count \in Nat
    BY DEF Inv1, TypeOK, Throttle
  <2> QED
    BY <1>3, <1>4, <1>5, <1>6, <2>1

(* The attempts are counted, or forgotten.                                 *)
LEMMA CountInv1 ==
  ASSUME Inv1, NEW r \in Requests, Incr(r) \/ Expire(r) \/ Reset(r)
  PROVE  Inv1'
<1>1. throttle.count \in Nat /\ throttle.ttl \in 0..Window \cup {Forever}
  BY DEF Inv1, TypeOK, Throttle
<1>2. throttle.count = 0 <=> throttle.ttl = 0
  BY DEF Inv1, ThrottleKnows
<1>3. /\ faultsLeft' \in 0..FaultBudget /\ cooldown' \in 0..Cooldown
      /\ UNCHANGED <<bucket, slip>> /\ ~At(r, "done") /\ "none" \notin Tiers
  BY DEF Inv1, TypeOK, Incr, Expire, Reset, At, Tiers
<1>4. CASE Incr(r) /\ throttle.count = 0
  <2> DEFINE x == [req[r] EXCEPT !.pc = "expire", !.nth = 1]
  <2>1. req' = [req EXCEPT ![r] = x] /\ throttle' = [count |-> 1, ttl |-> Forever] /\ At(r, "incr")
    BY <1>4 DEF Incr
  <2>2. req[r] \in Request /\ PlaceKnows(req[r])
    BY Places
  <2>3. /\ x \in Request /\ x.pc = "expire" /\ x.nth = 1 /\ x.prior = req[r].prior
        /\ x.open = req[r].open /\ x.passed = req[r].passed
        /\ x.end = req[r].end /\ x.by = req[r].by /\ x.ago = req[r].ago
    BY <2>2 DEF Request
  <2> HIDE DEF x
  <2>4. PlaceKnows(x) /\ Learns(r, x)
    BY <2>1, <2>2, <2>3 DEF PlaceKnows, Learns, At
  <2>5. Attempts(r, x)
    BY <1>4, <2>1, <2>3 DEF Attempts
  <2>6. throttle' \in Throttle /\ ThrottleKnows'
    <3>1. req'[r].pc = "expire"
      BY <2>1, <2>3 DEF Inv1, Functional
    <3> QED
      BY <2>1, <3>1 DEF Throttle, ThrottleKnows, CountersLapse, At
  <2>7. x.by \notin Tiers
    BY <1>3, <2>3, Places
  <2> QED
    BY <1>3, <2>1, <2>3, <2>4, <2>5, <2>6, <2>7, QuietStep
<1>5. CASE Incr(r) /\ throttle.count # 0
  <2> DEFINE x == [Done(r, "ok", "none") EXCEPT !.nth = throttle.count + 1]
  <2>1. /\ req' = [req EXCEPT ![r] = x] /\ At(r, "incr")
        /\ throttle' = [count |-> throttle.count + 1, ttl |-> throttle.ttl]
    <3>1. throttle.count + 1 # 1
      BY <1>1, <1>5
    <3> QED
      BY <1>5, <3>1 DEF Incr
  <2>2. Answer(r, x, "ok", "none") /\ x.nth = throttle.count + 1
    BY <1>1, DoneAnswers
  <2> HIDE DEF x
  <2>3. PlaceKnows(x) /\ Learns(r, x)
    BY <2>2, AnswerKnows
  <2>4. Attempts(r, x)
    BY <1>1, <2>1, <2>2 DEF Attempts, Answer
  <2>5. throttle' \in Throttle /\ (throttle'.count = 0 <=> throttle'.ttl = 0)
    BY <1>1, <1>2, <1>5, <2>1 DEF Throttle
  <2>6. CountersLapse'
    <3> SUFFICES ASSUME throttle.ttl = Forever
                 PROVE  \E s \in Requests : req'[s].pc = "expire" \/ req'[s].end = "unexpired"
      BY <2>1 DEF CountersLapse, At
    <3>1. PICK s \in Requests : At(s, "expire") \/ req[s].end = "unexpired"
      BY DEF Inv1, ThrottleKnows, CountersLapse
    <3>2. s # r
      BY <2>1, <3>1, Places DEF At
    <3> QED
      BY <2>1, <3>1, <3>2 DEF Inv1, Functional, At
  <2> QED
    BY <1>3, <2>1, <2>2, <2>3, <2>4, <2>5, <2>6, QuietStep DEF Answer, ThrottleKnows
<1>6. CASE Expire(r) \/ Reset(r)
  <2> DEFINE x == Done(r, "ok", "none")
  <2>1. req' = [req EXCEPT ![r] = x]
    BY <1>6 DEF Expire, Reset
  <2>2. Answer(r, x, "ok", "none") /\ x.nth = req[r].nth
    BY DoneAnswers
  <2> HIDE DEF x
  <2>3. PlaceKnows(x) /\ Learns(r, x)
    BY <2>2, AnswerKnows
  <2>4. \/ throttle' = [count |-> throttle.count, ttl |-> Window] /\ throttle.count > 0
        \/ throttle' = [count |-> 0, ttl |-> 0]
    <3>1. CASE Reset(r)
      BY <3>1 DEF Reset
    <3>2. CASE Expire(r) /\ throttle.count > 0
      BY <3>2 DEF Expire, Inv1, TypeOK, Throttle
    <3>3. CASE Expire(r) /\ ~(throttle.count > 0)
      <4>1. throttle.count = 0 /\ throttle.ttl = 0
        BY <1>1, <1>2, <3>3
      <4>2. throttle' = throttle
        BY <3>3 DEF Expire, Inv1, TypeOK, Throttle
      <4> QED
        BY <4>1, <4>2 DEF Inv1, TypeOK, Throttle
    <3> QED
      BY <1>6, <3>1, <3>2, <3>3
  <2>5. Attempts(r, x)
    BY <1>1, <2>2, <2>4 DEF Attempts, Answer
  <2>6. throttle' \in Throttle /\ ThrottleKnows'
    BY <1>1, <2>4 DEF ThrottleKnows, CountersLapse, Throttle
  <2> QED
    BY <1>3, <2>1, <2>2, <2>3, <2>5, <2>6, QuietStep DEF Answer
<1> QED
  BY <1>4, <1>5, <1>6

(* What is left of a route.                                                *)
LEMMA RouteGoesOn ==
  ASSUME NEW call \in Calls, NEW tiers \in Routes[call]
  PROVE  /\ Head(tiers) \in Tiers /\ Tail(tiers) \in Seq(Tiers)
         /\ Tail(tiers) # <<>> => Tail(tiers) \in Routes[call]
<1>1. call \in {"ai", "resend", "login", "register"}
  BY DEF Routes, Calls
<1>2. CASE call = "ai"
  <2>1. Routes[call] = {<<"general", "ai", "ai_daily">>, <<"ai", "ai_daily">>, <<"ai_daily">>}
    BY <1>2 DEF Routes, Calls
  <2>2. CASE tiers = <<"general", "ai", "ai_daily">>
    <3>1. Head(tiers) = "general" /\ Tail(tiers) = <<"ai", "ai_daily">>
      BY <2>2
    <3>2. <<"ai", "ai_daily">> \in Seq(Tiers)
      BY DEF Tiers
    <3>3. Head(tiers) \in Tiers /\ Tail(tiers) \in Routes[call]
      BY <2>1, <3>1 DEF Tiers
    <3> QED
      BY <3>1, <3>2, <3>3
  <2>3. CASE tiers = <<"ai", "ai_daily">>
    <3>1. Head(tiers) = "ai" /\ Tail(tiers) = <<"ai_daily">>
      BY <2>3
    <3>2. <<"ai_daily">> \in Seq(Tiers)
      BY DEF Tiers
    <3>3. Head(tiers) \in Tiers /\ Tail(tiers) \in Routes[call]
      BY <2>1, <3>1 DEF Tiers
    <3> QED
      BY <3>1, <3>2, <3>3
  <2>4. CASE tiers = <<"ai_daily">>
    BY <2>4 DEF Tiers
  <2> QED
    BY <2>1, <2>2, <2>3, <2>4
<1>3. CASE call = "resend"
  <2>1. tiers = <<"general">>
    BY <1>3 DEF Routes, Calls
  <2> QED
    BY <2>1 DEF Tiers
<1>4. CASE call \in {"login", "register"}
  <2>1. tiers = <<"general_ip">>
    BY <1>4 DEF Routes, Calls
  <2> QED
    BY <2>1 DEF Tiers
<1> QED
  BY <1>1, <1>2, <1>3, <1>4

LEMMA PassedGoesOn ==
  ASSUME Inv1, NEW r \in Requests, At(r, "script")
  PROVE  LET x == Passed(r)
         IN  /\ x \in Request /\ PlaceKnows(x) /\ x.prior = req[r].prior
             /\ x.pc \notin {"verify", "incr"} /\ x.by = "none" /\ x.end # "refused"
             /\ x.nth = req[r].nth /\ x.open = req[r].open
             /\ x.passed = req[r].passed
<1>1. /\ req[r] \in Request /\ PlaceKnows(req[r])
      /\ req[r].end = "none" /\ req[r].by = "none" /\ req[r].ago = 0 /\ req[r].nth = 0
  BY Places DEF At, PlaceKnows
<1> DEFINE rest == Tail(req[r].tiers)
<1>2. rest \in Seq(Tiers) /\ (rest # <<>> => rest \in Routes[req[r].call])
  <2>1. req[r].call \in Calls /\ req[r].tiers \in Routes[req[r].call]
    BY <1>1 DEF Request, PlaceKnows, At
  <2> QED
    BY <2>1, RouteGoesOn
<1> HIDE DEF rest
<1>3. 0 \in 0..MaxLag /\ <<>> \in Seq(Tiers)
  OBVIOUS
<1>4. CASE rest # <<>>
  <2> DEFINE x == [req[r] EXCEPT !.pc = "script", !.tiers = rest, !.lag = 0]
  <2>1. Passed(r) = x
    BY <1>4 DEF Passed, rest
  <2>2. /\ x \in Request /\ x.pc = "script" /\ x.tiers = rest /\ x.call = req[r].call
        /\ x.prior = req[r].prior /\ x.nth = req[r].nth /\ x.open = req[r].open
        /\ x.passed = req[r].passed /\ x.end = req[r].end /\ x.by = req[r].by
        /\ x.ago = req[r].ago
    BY <1>1, <1>2, <1>3 DEF Request
  <2> HIDE DEF x
  <2>3. PlaceKnows(x)
    BY <1>1, <1>2, <1>4, <2>2 DEF PlaceKnows
  <2> QED
    BY <1>1, <2>1, <2>2, <2>3
<1>5. CASE rest = <<>> /\ req[r].call \in DOMAIN Handler
  <2> DEFINE x == [req[r] EXCEPT !.pc = Handler[req[r].call], !.tiers = <<>>, !.lag = 0]
  <2>1. Passed(r) = x
    BY <1>5 DEF Passed, rest
  <2>2. Handler[req[r].call] \in {"check", "cooldown"}
    BY <1>5 DEF Handler
  <2>3. /\ x \in Request /\ x.pc = Handler[req[r].call]
        /\ x.prior = req[r].prior /\ x.nth = req[r].nth /\ x.open = req[r].open
        /\ x.passed = req[r].passed /\ x.end = req[r].end /\ x.by = req[r].by
        /\ x.ago = req[r].ago
    BY <1>1, <1>3, <2>2 DEF Request
  <2> HIDE DEF x
  <2>4. PlaceKnows(x)
    BY <1>1, <2>2, <2>3 DEF PlaceKnows
  <2> QED
    BY <1>1, <2>1, <2>2, <2>3, <2>4
<1>6. CASE rest = <<>> /\ req[r].call \notin DOMAIN Handler
  <2> DEFINE x == Done(r, "ok", "none")
  <2>1. Passed(r) = x
    BY <1>6 DEF Passed, rest
  <2>2. Answer(r, x, "ok", "none") /\ x.nth = req[r].nth
    BY DoneAnswers
  <2> HIDE DEF x
  <2>3. PlaceKnows(x)
    BY <2>2, AnswerKnows
  <2> QED
    BY <2>1, <2>2, <2>3 DEF Answer
<1> QED
  BY <1>4, <1>5, <1>6

LEMMA CommandFailsInv1 ==
  ASSUME Inv1, NEW r \in Requests, CommandFails(r)
  PROVE  Inv1'
<1>1. /\ UNCHANGED <<bucket, throttle, cooldown, slip>> /\ cooldown' \in 0..Cooldown
      /\ faultsLeft' \in 0..FaultBudget
  BY DEF CommandFails, Inv1, TypeOK
<1>2. CASE At(r, "script") /\ req' = [req EXCEPT ![r] = Passed(r)]
  <2> DEFINE x == Passed(r)
  <2>1. /\ x \in Request /\ PlaceKnows(x) /\ x.prior = req[r].prior
        /\ x.pc \notin {"verify", "incr"} /\ x.by = "none"
        /\ x.nth = req[r].nth /\ x.open = req[r].open /\ x.passed = req[r].passed
    BY <1>2, PassedGoesOn
  <2>2. ~At(r, "done") /\ ~At(r, "expire")
    BY <1>2 DEF At
  <2> HIDE DEF x
  <2>3. Attempts(r, x)
    BY <1>1, <2>1, Uncounted
  <2>4. req' = [req EXCEPT ![r] = x]
    BY <1>2 DEF x
  <2>5. throttle' \in Throttle /\ ThrottleKnows'
    BY <1>1, <2>2, <2>4, ThrottleStays
  <2>6. x.by \notin Tiers /\ Learns(r, x)
    BY <2>1 DEF Tiers, Learns
  <2> QED
    BY <1>1, <2>1, <2>2, <2>3, <2>4, <2>5, <2>6, QuietStep
<1>3. CASE /\ At(r, "check")
           /\ req' = [req EXCEPT ![r].pc = IF req[r].call = "login" THEN "verify" ELSE "incr",
                                 ![r].open = TRUE]
  <2> DEFINE next == IF req[r].call = "login" THEN "verify" ELSE "incr"
             x == Moved(r, next, TRUE)
  <2>1. req' = [req EXCEPT ![r] = x]
    BY <1>3 DEF Moved, Inv1, Functional
  <2>2. next \in {"verify", "incr"}
    OBVIOUS
  <2> HIDE DEF next
  <2>3. GoesOn(r, next, TRUE)
    BY <1>3, <2>2 DEF GoesOn
  <2> QED
    BY <1>1, <2>1, <2>3, CheckInv1
<1>4. ASSUME NEW end \in {"ok", "unexpired"}, req' = [req EXCEPT ![r] = Done(r, end, "none")],
             ~At(r, "done"), ~At(r, "expire") \/ end = "unexpired"
      PROVE  Inv1'
  <2> DEFINE x == Done(r, end, "none")
  <2>1. Answer(r, x, end, "none") /\ x.nth = req[r].nth
    BY DoneAnswers
  <2> HIDE DEF x
  <2>2. req' = [req EXCEPT ![r] = x]
    BY <1>4 DEF x
  <2> QED
    BY <1>1, <1>4, <2>1, <2>2, AnswerInv1
<1>5. CASE At(r, "expire") /\ req' = [req EXCEPT ![r] = Done(r, "unexpired", "none")]
  BY <1>4, <1>5 DEF At
<1>6. CASE /\ \E pc \in {"incr", "reset", "cooldown"} : At(r, pc)
           /\ req' = [req EXCEPT ![r] = Done(r, "ok", "none")]
  BY <1>4, <1>6 DEF At
<1> QED
  BY <1>2, <1>3, <1>5, <1>6 DEF CommandFails

-------------------------------------------------------------------------------
(* The buckets.                                                            *)

Behind(k, lag) == IF bucket[k].age > lag THEN bucket[k].age - lag ELSE 0

LEMMA Refills ==
  ASSUME Inv1, NEW k \in Tiers, NEW lag \in 0..MaxLag
  PROVE  /\ Behind(k, lag) \in Nat
         /\ Refilled(k, lag) \in 0..Full(k)
         /\ bucket[k].ttl = 0 => Refilled(k, lag) = Full(k)
         /\ bucket[k].ttl > 0
              => LET sum == bucket[k].tokens + Behind(k, lag) * Capacity[k]
                 IN  Refilled(k, lag) = IF Full(k) <= sum THEN Full(k) ELSE sum
<1>1. bucket[k].tokens \in 0..Full(k) /\ bucket[k].age \in Nat /\ bucket[k].ttl \in Nat
  BY Buckets, Products DEF Inv1, TypeOK, Bucket
<1>2. Full(k) \in Nat /\ Capacity[k] \in Nat
  BY Buckets
<1>3. Behind(k, lag) \in Nat
  BY <1>1 DEF Behind
<1> DEFINE gain == Behind(k, lag) * Capacity[k]
           sum == bucket[k].tokens + gain
<1>4. gain \in Nat /\ Capacity[k] * Behind(k, lag) = gain
  BY <1>2, <1>3, Products
<1>5. Refilled(k, lag) = IF bucket[k].ttl = 0 THEN Full(k)
                         ELSE Min({Full(k), bucket[k].tokens + Capacity[k] * Behind(k, lag)})
  BY DEF Refilled, Behind
<1> HIDE DEF gain
<1>6. sum \in Nat /\ Min({Full(k), sum}) = IF Full(k) <= sum THEN Full(k) ELSE sum
  BY <1>1, <1>2, <1>4, MinOfTwo
<1>7. Refilled(k, lag) = IF bucket[k].ttl = 0 THEN Full(k)
                         ELSE IF Full(k) <= sum THEN Full(k) ELSE sum
  BY <1>4, <1>5, <1>6
<1> QED
  BY <1>1, <1>2, <1>3, <1>6, <1>7 DEF gain

(* Those admitted, before and after one more.                              *)
LEMMA AdmittedOnce ==
  ASSUME NEW k \in Remembered, NEW interval \in 0..MaxAge
  PROVE  /\ IsFiniteSet(Admitted(k, interval)) /\ Cardinality(Admitted(k, interval)) \in Nat
         /\ Admitted(k, interval) = {} => Cardinality(Admitted(k, interval)) = 0
         /\ \A r \in Requests :
              /\ Cardinality(Admitted(k, interval) \cup {r}) \in Nat
              /\ Cardinality(Admitted(k, interval) \cup {r})
                   <= Cardinality(Admitted(k, interval)) + 1
<1>1. Admitted(k, interval) \in SUBSET Requests
  BY DEF Admitted
<1>2. IsFiniteSet(Admitted(k, interval)) /\ Cardinality(Admitted(k, interval)) \in Nat
  BY <1>1, FS_Subset, FS_CardinalityType
<1>3. Cardinality({}) = 0
  BY FS_EmptySet
<1>4. ASSUME NEW r \in Requests
      PROVE  /\ Cardinality(Admitted(k, interval) \cup {r}) \in Nat
             /\ Cardinality(Admitted(k, interval) \cup {r})
                  <= Cardinality(Admitted(k, interval)) + 1
  <2>1. Cardinality(Admitted(k, interval) \cup {r})
          = IF r \in Admitted(k, interval) THEN Cardinality(Admitted(k, interval))
            ELSE Cardinality(Admitted(k, interval)) + 1
    BY <1>2, FS_AddElement
  <2> QED
    BY <1>2, <2>1
<1> QED
  BY <1>2, <1>3, <1>4

(* What a script that finds tokens leaves in a bucket k, after it let its  *)
(* request pass, or not, in what an interval has seen.                     *)
LEMMA ScriptWindow ==
  ASSUME Inv1, NEW k \in Remembered, NEW interval \in 0..MaxAge, NEW lag \in 0..MaxLag,
         NEW n \in Nat, NEW left \in Nat, NEW set \in Nat, NEW one \in {0, 1},
         n <= Cardinality(Admitted(k, interval)) + one,
         left + one * Period[k] = Refilled(k, lag),
         one = 1 \/ Admitted(k, interval) # {},
         set = IF bucket[k].ttl > 0 /\ lag > bucket[k].age
               THEN slip[k] + lag - bucket[k].age ELSE slip[k]
  PROVE  n * Period[k] + left + lag * Capacity[k]
           <= Full(k) + (interval + set) * Capacity[k] + MaxLag * Capacity[k]
<1> DEFINE a == Cardinality(Admitted(k, interval))
           c == Capacity[k]
           p == Period[k]
           b == bucket[k]
<1>1. k \in Tiers
  BY DEF Remembered
<1>2. c \in Nat /\ p \in Nat /\ Full(k) \in Nat
  BY <1>1, Buckets
<1>3. a \in Nat /\ (Admitted(k, interval) = {} => a = 0)
  BY AdmittedOnce
<1>4. /\ b.tokens \in Nat /\ b.age \in Nat /\ b.ttl \in Nat /\ slip[k] \in Nat
  BY <1>1, <1>2, Buckets, Products DEF Inv1, TypeOK, Bucket
<1>5. /\ Behind(k, lag) \in Nat /\ Refilled(k, lag) \in 0..Full(k)
      /\ b.ttl > 0 => Refilled(k, lag) <= b.tokens + Behind(k, lag) * c
  <2>1. Behind(k, lag) * c \in Nat
    BY <1>1, <1>2, Refills, Products
  <2> QED
    BY <1>1, <1>2, <1>4, <2>1, Refills
<1>6. n * p + left <= a * p + Refilled(k, lag)
  <2>1. n * p <= (a + one) * p
    BY <1>2, <1>3, ProductsGrow
  <2>2. (a + one) * p = a * p + one * p
    BY <1>2, <1>3, Distributes
  <2>3. n * p \in Nat /\ a * p \in Nat /\ one * p \in Nat
    BY <1>2, <1>3, Products
  <2> QED
    BY <1>2, <1>5, <2>1, <2>2, <2>3
<1>7. lag * c <= MaxLag * c /\ lag * c \in Nat /\ MaxLag * c \in Nat
  BY <1>2, ProductsGrow, Products
<1>8. (interval + set) * c \in Nat
  BY <1>2, Products
<1>9. n * p \in Nat /\ a * p \in Nat
  BY <1>2, <1>3, Products
<1>10. CASE Admitted(k, interval) = {}
  <2>1. a * p = 0
    BY <1>2, <1>3, <1>10
  <2> HIDE DEF a, b, c, p
  <2> QED
    BY <1>2, <1>5, <1>6, <1>7, <1>8, <1>9, <2>1 DEF c, p
<1>11. CASE Admitted(k, interval) # {} /\ b.ttl = 0
  <2>1. a * p <= (interval + set) * c
    BY <1>1, <1>11 DEF Inv1, BucketKnows, WindowKnows
  <2> HIDE DEF a, b
  <2> QED
    BY <1>2, <1>5, <1>6, <1>7, <1>8, <1>9, <2>1
<1>12. CASE Admitted(k, interval) # {} /\ b.ttl > 0
  <2>1. a * p + b.tokens + b.age * c <= Full(k) + (interval + slip[k]) * c + MaxLag * c
    BY <1>1, <1>4, <1>12 DEF Inv1, BucketKnows, WindowKnows
  <2>2. CASE b.age > lag
    <3>1. b.age * c = (b.age - lag) * c + lag * c
      <4>1. b.age - lag \in Int /\ lag \in Int /\ (b.age - lag) + lag = b.age
        BY <1>4
      <4>2. ((b.age - lag) + lag) * c = (b.age - lag) * c + lag * c
        BY <1>2, <4>1, Distributes
      <4> QED
        BY <4>1, <4>2
    <3>2. Behind(k, lag) = b.age - lag /\ set = slip[k]
      BY <1>4, <2>2 DEF Behind
    <3>3. (b.age - lag) * c \in Nat
      BY <1>2, <1>4, <2>2, Products
    <3>4. Refilled(k, lag) <= b.tokens + (b.age - lag) * c
      BY <1>5, <1>12, <3>2
    <3>5. a * p + b.tokens + b.age * c <= Full(k) + (interval + set) * c + MaxLag * c
      BY <2>1, <3>2
    <3>6. /\ a * p \in Int /\ b.tokens \in Int /\ n * p + left \in Int /\ lag * c \in Int
          /\ (b.age - lag) * c \in Int /\ Refilled(k, lag) \in Int
          /\ Full(k) + (interval + set) * c + MaxLag * c \in Int
      BY <1>2, <1>4, <1>5, <1>7, <1>8, <1>9, <3>3
    <3> HIDE DEF a
    <3> QED
      BY <1>6, <3>1, <3>4, <3>5, <3>6, Balance
  <2>3. CASE ~(b.age > lag)
    <3>1. Behind(k, lag) = 0 /\ Behind(k, lag) * c = 0
      BY <1>2, <2>3 DEF Behind
    <3>2. set = slip[k] + (lag - b.age) /\ lag - b.age \in Nat
      BY <1>4, <1>12, <2>3
    <3>3. (interval + set) * c = (interval + slip[k]) * c + (lag - b.age) * c
      BY <1>2, <1>4, <3>2, Distributes
    <3>4. lag * c = b.age * c + (lag - b.age) * c
      BY <1>2, <1>4, <3>2, Distributes
    <3>5. b.age * c \in Nat /\ (lag - b.age) * c \in Nat /\ (interval + slip[k]) * c \in Nat
      BY <1>2, <1>4, <3>2, Products
    <3> QED
      BY <1>2, <1>4, <1>5, <1>6, <1>7, <1>8, <1>9, <1>12, <2>1, <3>1, <3>3, <3>4, <3>5
  <2> QED
    BY <2>2, <2>3
<1> QED
  BY <1>4, <1>10, <1>11, <1>12

(* The request after its script, which found that many tokens.             *)
Served(r, x, k, tokens) ==
  /\ x \in Request /\ PlaceKnows(x) /\ x.prior = req[r].prior /\ x.pc \notin {"verify", "incr"}
  /\ x.nth = req[r].nth /\ x.open = req[r].open
  /\ \A j \in Remembered :
       x.passed[j] = IF tokens >= Period[k] /\ j = k THEN 0 ELSE req[r].passed[j]
  /\ IF tokens >= Period[k] THEN x.by = "none"
     ELSE /\ x.by = k /\ x.ago = 0
          /\ k # "ai_daily" => tokens + x.retry * Capacity[k] >= Period[k]

LEMMA ScriptServes ==
  ASSUME Inv1, NEW r \in Requests, RunScript(r), NEW k, k = Head(req[r].tiers),
         NEW tokens, tokens = Refilled(k, req[r].lag)
  PROVE  /\ k \in Tiers /\ req[r].lag \in 0..MaxLag /\ tokens \in 0..Full(k)
         /\ \E x : req' = [req EXCEPT ![r] = x] /\ Served(r, x, k, tokens)
<1>1. At(r, "script") /\ req[r] \in Request /\ req[r].ago = 0
  BY Places DEF RunScript, PlaceKnows, At
<1>2. k \in Tiers
  BY <1>1, Places, RouteGoesOn DEF PlaceKnows, At, Request
<1>3. req[r].lag \in 0..MaxLag
  BY <1>1 DEF Request
<1>4. tokens \in 0..Full(k)
  BY <1>2, <1>3, Refills
<1>5. Capacity[k] \in Nat \ {0} /\ Period[k] \in Nat \ {0} /\ Full(k) \in Nat
  BY <1>2, Buckets
<1>6. CASE tokens >= Period[k]
  <2> DEFINE y == Passed(r)
             x == [y EXCEPT !.passed = IF k \in Remembered THEN [@ EXCEPT ![k] = 0] ELSE @]
  <2>1. req' = [req EXCEPT ![r] = x]
    BY <1>6 DEF RunScript
  <2>2. /\ y \in Request /\ PlaceKnows(y) /\ y.prior = req[r].prior
        /\ y.pc \notin {"verify", "incr"} /\ y.by = "none"
        /\ y.nth = req[r].nth /\ y.open = req[r].open /\ y.passed = req[r].passed
    BY <1>1, PassedGoesOn
  <2> HIDE DEF y
  <2> DEFINE passed == IF k \in Remembered THEN [y.passed EXCEPT ![k] = 0] ELSE y.passed
  <2>3. /\ passed \in [Remembered -> 0..MaxAge \cup {Forever}]
        /\ \A j \in Remembered : passed[j] = IF j = k THEN 0 ELSE req[r].passed[j]
    <3>1. y.passed \in [Remembered -> 0..MaxAge \cup {Forever}] /\ 0 \in 0..MaxAge
      BY <2>2 DEF Request
    <3> QED
      BY <2>2, <3>1
  <2>4. x = [y EXCEPT !.passed = passed]
    OBVIOUS
  <2> HIDE DEF passed
  <2>5. /\ x \in Request /\ x.passed = passed /\ x.prior = y.prior /\ x.pc = y.pc /\ x.by = y.by
        /\ x.nth = y.nth /\ x.open = y.open /\ x.tiers = y.tiers /\ x.call = y.call
        /\ x.end = y.end /\ x.ago = y.ago
    BY <2>2, <2>3, <2>4 DEF Request
  <2> HIDE DEF x
  <2>6. PlaceKnows(x)
    BY <2>2, <2>5 DEF PlaceKnows
  <2>7. Served(r, x, k, tokens)
    BY <1>6, <2>2, <2>3, <2>5, <2>6 DEF Served
  <2> QED
    BY <1>2, <1>3, <1>4, <2>1, <2>7
<1>7. CASE ~(tokens >= Period[k])
  <2> DEFINE retry == IF k = "ai_daily" THEN 0 ELSE RetryAfter(k, tokens)
             x == [Done(r, "refused", k) EXCEPT !.retry = retry]
  <2>1. req' = [req EXCEPT ![r] = x]
    BY <1>7 DEF RunScript
  <2>2. retry \in Nat /\ (k # "ai_daily" => retry * Capacity[k] >= Period[k] - tokens)
    <3>1. Period[k] - tokens \in Nat
      BY <1>4, <1>5, <1>7
    <3> QED
      BY <1>5, <3>1, Ceiling DEF RetryAfter
  <2> HIDE DEF retry
  <2>3. Answer(r, x, "refused", k) /\ x.nth = req[r].nth /\ x.retry = retry
    BY <1>2, <2>2, DoneAnswers
  <2> HIDE DEF x
  <2>4. x \in Request /\ PlaceKnows(x) /\ x.prior = req[r].prior /\ x.pc \notin {"verify", "incr"}
    BY <2>3, AnswerKnows DEF Answer
  <2>5. x.retry * Capacity[k] \in Nat
    BY <1>5, <2>2, <2>3, Products
  <2>6. Served(r, x, k, tokens)
    BY <1>1, <1>4, <1>5, <1>7, <2>2, <2>3, <2>4, <2>5 DEF Served, Answer
  <2> QED
    BY <1>2, <1>3, <1>4, <2>1, <2>6
<1> QED
  BY <1>6, <1>7

LEMMA ScriptInv1 ==
  ASSUME Inv1, NEW r \in Requests, RunScript(r)
  PROVE  Inv1'
<1>1. PICK k : k = Head(req[r].tiers)
  OBVIOUS
<1>2. PICK lag : lag = req[r].lag
  OBVIOUS
<1>3. PICK tokens : tokens = Refilled(k, lag)
  OBVIOUS
<1> DEFINE one == IF tokens >= Period[k] THEN 1 ELSE 0
           left == IF tokens >= Period[k] THEN tokens - Period[k] ELSE tokens
<1>4. k \in Tiers /\ lag \in 0..MaxLag /\ tokens \in 0..Full(k)
  BY <1>1, <1>2, <1>3, ScriptServes
<1>5. PICK x : req' = [req EXCEPT ![r] = x] /\ Served(r, x, k, tokens)
  BY <1>1, <1>2, <1>3, ScriptServes
<1>6. At(r, "script") /\ UNCHANGED <<throttle, cooldown, faultsLeft>>
  BY DEF RunScript
<1>7. Capacity[k] \in Nat \ {0} /\ Period[k] \in Nat \ {0} /\ Full(k) \in Nat
  BY <1>4, Buckets
<1>8. /\ bucket'[k] = [tokens |-> left, age |-> lag, ttl |-> 2 * Period[k], last |-> r]
      /\ \A j \in Tiers \ {k} : bucket'[j] = bucket[j]
      /\ bucket' = [j \in Tiers |-> bucket'[j]]
  BY <1>1, <1>2, <1>3, <1>4 DEF RunScript, Inv1, Functional
<1>9. left \in 0..Full(k) /\ one \in {0, 1} /\ left + one * Period[k] = tokens
  BY <1>4, <1>7
<1>10. /\ slip' \in [Remembered -> Nat]
      /\ \A j \in Remembered :
           slip'[j] = IF j = k /\ bucket[k].ttl > 0 /\ lag > bucket[k].age
                      THEN slip[k] + lag - bucket[k].age ELSE slip[j]
  <2>1. slip \in [Remembered -> Nat] /\ bucket[k].age \in Nat /\ bucket[k].ttl \in Nat
    BY <1>4, <1>7 DEF Inv1, TypeOK, Bucket
  <2>2. CASE bucket[k].ttl > 0 /\ k \in Remembered /\ lag > bucket[k].age
    <3>1. slip' = [slip EXCEPT ![k] = slip[k] + lag - bucket[k].age]
      BY <1>1, <1>2, <2>2 DEF RunScript
    <3>2. slip[k] + lag - bucket[k].age \in Nat
      BY <1>4, <2>1, <2>2
    <3> QED
      BY <2>1, <2>2, <3>1, <3>2
  <2>3. CASE ~(bucket[k].ttl > 0 /\ k \in Remembered /\ lag > bucket[k].age)
    <3>1. slip' = slip
      BY <1>1, <1>2, <2>3 DEF RunScript
    <3> QED
      BY <2>1, <2>3, <3>1
  <2> QED
    BY <2>2, <2>3
<1>11. /\ req' = [s \in Requests |-> req'[s]]
      /\ \A s \in Requests : /\ req'[s] \in Request
                             /\ PlaceKnows(req'[s]) /\ PriorKnows(s)' /\ ExcessKnows(s)'
  <2>1. x \in Request /\ PlaceKnows(x) /\ Learns(r, x) /\ ~At(r, "done")
    BY <1>5, <1>6 DEF Served, Learns, At
  <2>2. Attempts(r, x)
    BY <1>5, <1>6, Uncounted DEF Served
  <2>3. throttle' \in Throttle
    BY <1>6 DEF Inv1, TypeOK
  <2> QED
    BY <1>5, <2>1, <2>2, <2>3, RequestStep
<1>12. ThrottleKnows'
  BY <1>5, <1>6, ThrottleStays DEF At
<1>13. TypeOK'
  <2>1. bucket'[k] \in Bucket(k)
    BY <1>4, <1>7, <1>8, <1>9 DEF Bucket
  <2>2. \A j \in Tiers : bucket'[j] \in Bucket(j)
    BY <1>8, <2>1 DEF Inv1, TypeOK
  <2> QED
    BY <1>6, <1>10, <1>11, <2>2 DEF Inv1, TypeOK, Bucket
<1>14. req'[r] = x /\ \A s \in Requests \ {r} : req'[s] = req[s]
  BY <1>5 DEF Inv1, Functional
<1> HIDE DEF left, one
<1>15. ASSUME NEW j \in Tiers \ {k} PROVE BucketKnows(j)'
  <2>1. BucketKnows(j) /\ bucket'[j] = bucket[j]
    BY <1>8 DEF Inv1
  <2>2. ASSUME j \in Remembered PROVE WindowKnows(j)'
    <3>1. \A s \in Requests : req'[s].passed[j] = req[s].passed[j]
      BY <1>5, <1>14, <2>2 DEF Served
    <3>2. \A interval \in 0..MaxAge : Admitted(j, interval)' = Admitted(j, interval)
      BY <3>1 DEF Admitted
    <3>3. slip'[j] = slip[j]
      BY <1>10, <2>2
    <3> QED
      BY <2>1, <2>2, <3>2, <3>3 DEF BucketKnows, WindowKnows
  <2>3. ASSUME NEW s \in Requests PROVE RefusalKnows(j, s)'
    <3>1. CASE s = r
      BY <1>5, <1>14, <3>1 DEF Served, RefusalKnows, Tiers
    <3>2. CASE s # r
      BY <1>14, <2>1, <3>2 DEF BucketKnows, RefusalKnows
    <3> QED
      BY <3>1, <3>2
  <2> QED
    BY <2>1, <2>2, <2>3 DEF BucketKnows, AgeKnows
<1>16. AgeKnows(k)'
  BY <1>4, <1>7, <1>8 DEF AgeKnows
<1>17. ASSUME NEW s \in Requests PROVE RefusalKnows(k, s)'
  <2>1. CASE s = r
    BY <1>4, <1>5, <1>7, <1>8, <1>14, <2>1 DEF Served, RefusalKnows, Tiers, left
  <2>2. CASE s # r
    BY <1>8, <2>2 DEF RefusalKnows
  <2> QED
    BY <2>1, <2>2
<1>18. ASSUME k \in Remembered PROVE WindowKnows(k)'
  <2> SUFFICES ASSUME NEW interval \in 0..MaxAge, Admitted(k, interval)' # {}
               PROVE  Cardinality(Admitted(k, interval)') * Period[k] + left + lag * Capacity[k]
                        <= Full(k) + (interval + slip'[k]) * Capacity[k] + MaxLag * Capacity[k]
    BY <1>7, <1>8 DEF WindowKnows
  <2> DEFINE n == Cardinality(Admitted(k, interval)')
  <2>1. /\ n \in Nat /\ n <= Cardinality(Admitted(k, interval)) + one
        /\ one = 1 \/ Admitted(k, interval) # {}
    <3>1. CASE tokens >= Period[k]
      <4>1. Admitted(k, interval)' = Admitted(k, interval) \cup {r}
        BY <1>4, <1>5, <1>14, <1>18, <3>1 DEF Admitted, Served
      <4> QED
        BY <1>18, <3>1, <4>1, AdmittedOnce DEF one
    <3>2. CASE ~(tokens >= Period[k])
      <4>1. Admitted(k, interval)' = Admitted(k, interval)
        BY <1>5, <1>14, <1>18, <3>2 DEF Admitted, Served
      <4> QED
        BY <1>18, <3>2, <4>1, AdmittedOnce DEF one
    <3> QED
      BY <3>1, <3>2
  <2>2. slip'[k] = IF bucket[k].ttl > 0 /\ lag > bucket[k].age
                   THEN slip[k] + lag - bucket[k].age ELSE slip[k]
    BY <1>10, <1>18
  <2>3. slip'[k] \in Nat /\ left \in Nat /\ tokens = Refilled(k, lag)
    BY <1>3, <1>7, <1>9, <1>10, <1>18
  <2> HIDE DEF n
  <2> QED
    BY <1>4, <1>9, <1>18, <2>1, <2>2, <2>3, ScriptWindow DEF n
<1>19. \A j \in Tiers : BucketKnows(j)'
  BY <1>15, <1>16, <1>17, <1>18 DEF BucketKnows
<1> QED
  BY <1>8, <1>11, <1>12, <1>13, <1>19 DEF Inv1, Functional

-------------------------------------------------------------------------------
(* Time.                                                                   *)

LEMMA TickOfRequest ==
  ASSUME Inv1, Tick, NEW r \in Requests
  PROVE  /\ req'[r] \in Request
         /\ req'[r].pc = req[r].pc /\ req'[r].call = req[r].call /\ req'[r].tiers = req[r].tiers
         /\ req'[r].end = req[r].end /\ req'[r].by = req[r].by /\ req'[r].retry = req[r].retry
         /\ req'[r].nth = req[r].nth /\ req'[r].open = req[r].open
         /\ req'[r].prior = req[r].prior
         /\ req[r].end # "refused" => req'[r].ago = req[r].ago
         /\ req'[r].ago <= req[r].ago + 1
         /\ \A k \in Remembered :
              req'[r].passed[k] = IF req[r].passed[k] \in {Forever, MaxAge} THEN Forever
                                  ELSE req[r].passed[k] + 1
<1>1. req[r] \in Request
  BY Places
<1> DEFINE lag == IF At(r, "script") THEN req[r].lag + 1 ELSE req[r].lag
           ago == IF req[r].end = "refused" THEN Older(req[r].ago) ELSE req[r].ago
           passed == [k \in Remembered |-> IF req[r].passed[k] \in {Forever, MaxAge} THEN Forever
                                           ELSE req[r].passed[k] + 1]
           x == [req[r] EXCEPT !.lag = lag, !.ago = ago, !.passed = passed]
<1>2. req'[r] = x
  BY DEF Tick
<1>3. lag \in 0..MaxLag
  <2>1. At(r, "script") => req[r].lag < MaxLag
    BY DEF Tick
  <2>2. req[r].lag \in 0..MaxLag
    BY <1>1 DEF Request
  <2> QED
    BY <2>1, <2>2
<1>4. ago \in 0..MaxAge /\ ago <= req[r].ago + 1 /\ (req[r].end # "refused" => ago = req[r].ago)
  <2>1. req[r].ago \in 0..MaxAge
    BY <1>1 DEF Request
  <2>2. Older(req[r].ago) = IF req[r].ago + 1 <= MaxAge THEN req[r].ago + 1 ELSE MaxAge
    BY <2>1, MinOfTwo DEF Older
  <2> QED
    BY <2>1, <2>2
<1>5. passed \in [Remembered -> 0..MaxAge \cup {Forever}]
  <2>1. \A k \in Remembered : req[r].passed[k] \in 0..MaxAge \cup {Forever}
    BY <1>1 DEF Request
  <2> QED
    BY <2>1
<1>6. \A k \in Remembered :
        passed[k] = IF req[r].passed[k] \in {Forever, MaxAge} THEN Forever
                    ELSE req[r].passed[k] + 1
  OBVIOUS
<1> HIDE DEF lag, ago, passed
<1>7. x \in Request
  BY <1>1, <1>3, <1>4, <1>5 DEF Request
<1>8. /\ x.pc = req[r].pc /\ x.call = req[r].call /\ x.tiers = req[r].tiers
      /\ x.end = req[r].end /\ x.by = req[r].by /\ x.retry = req[r].retry
      /\ x.nth = req[r].nth /\ x.open = req[r].open /\ x.prior = req[r].prior
      /\ x.ago = ago /\ x.passed = passed
  BY <1>1 DEF Request
<1> HIDE DEF x
<1> QED
  BY <1>2, <1>4, <1>6, <1>7, <1>8

LEMMA TickOfBucket ==
  ASSUME Inv1, Tick, NEW k \in Tiers
  PROVE  /\ bucket'[k] \in Bucket(k) /\ BucketKnows(k)'
<1> DEFINE b == bucket[k]
           c == Capacity[k]
<1>1. c \in Nat \ {0} /\ Period[k] \in Nat \ {0} /\ Full(k) = c * Period[k] /\ MaxLag <= Period[k]
  BY Buckets DEF Full
<1>2. b \in Bucket(k) /\ BucketKnows(k)
  BY DEF Inv1, TypeOK
<1>3. /\ b.tokens \in 0..Full(k) /\ b.age \in 0..2 * Period[k] + MaxLag
      /\ b.ttl \in 0..2 * Period[k] /\ b.last \in Requests \cup {Forever} /\ Full(k) \in Nat
  BY <1>2, Buckets DEF Bucket
<1>4. \/ b.ttl <= 1 /\ bucket'[k] = NoBucket
      \/ /\ b.ttl > 1 /\ bucket'[k] \in Bucket(k)
         /\ bucket'[k].tokens = b.tokens /\ bucket'[k].age = b.age + 1
         /\ bucket'[k].ttl = b.ttl - 1 /\ bucket'[k].last = b.last
  <2>1. CASE b.ttl <= 1
    BY <2>1 DEF Tick
  <2>2. CASE b.ttl > 1
    <3> DEFINE x == [b EXCEPT !.age = b.age + 1, !.ttl = b.ttl - 1]
    <3>1. bucket'[k] = x
      <4>1. ~(b.ttl <= 1)
        BY <1>3, <2>2
      <4> QED
        BY <4>1 DEF Tick
    <3>2. b.age + 1 \in 0..2 * Period[k] + MaxLag /\ b.ttl - 1 \in 0..2 * Period[k]
      BY <1>1, <1>2, <1>3, <2>2 DEF BucketKnows, AgeKnows
    <3>3. /\ x.tokens = b.tokens /\ x.age = b.age + 1 /\ x.ttl = b.ttl - 1 /\ x.last = b.last
          /\ x \in Bucket(k)
      BY <1>2, <3>2 DEF Bucket
    <3> QED
      BY <2>2, <3>1, <3>3
  <2> QED
    BY <1>3, <2>1, <2>2
<1>5. slip' = slip
  BY DEF Tick
<1>6. bucket'[k] \in Bucket(k)
  BY <1>1, <1>2, <1>3, <1>4 DEF Bucket, NoBucket, BucketKnows, AgeKnows
<1>7. AgeKnows(k)'
  BY <1>1, <1>2, <1>3, <1>4 DEF NoBucket, BucketKnows, AgeKnows
<1>8. ASSUME NEW r \in Requests PROVE RefusalKnows(k, r)'
  <2> SUFFICES ASSUME req[r].by = k, b.ttl > 1, b.last = r
               PROVE  /\ req'[r].ago <= b.age + 1
                      /\ k # "ai_daily" => b.tokens + req[r].retry * Capacity[k] >= Period[k]
    BY <1>3, <1>4, TickOfRequest DEF NoBucket, RefusalKnows
  <2>1. /\ req[r].ago <= b.age
        /\ k # "ai_daily" => b.tokens + req[r].retry * Capacity[k] >= Period[k]
    BY <1>2, <1>3 DEF BucketKnows, RefusalKnows
  <2>2. req'[r].ago <= req[r].ago + 1 /\ req[r].ago \in Nat /\ req'[r].ago \in Nat
    BY SMTT(30), TickOfRequest, Places DEF Request
  <2> QED
    BY <1>3, <2>1, <2>2
<1>9. ASSUME k \in Remembered PROVE WindowKnows(k)'
  <2> SUFFICES ASSUME NEW interval \in 0..MaxAge, Admitted(k, interval)' # {}
               PROVE  LET taken == Cardinality(Admitted(k, interval)') * Period[k]
                          gained == (interval + slip[k]) * c
                      IN  IF bucket'[k].ttl = 0 THEN taken <= gained
                          ELSE taken + bucket'[k].tokens + bucket'[k].age * c
                                 <= Full(k) + gained + MaxLag * c
    BY <1>5 DEF WindowKnows
  <2>1. interval > 0 /\ Admitted(k, interval)' = Admitted(k, interval - 1)
    <3>1. ASSUME NEW r \in Requests
          PROVE  r \in Admitted(k, interval)'
                   <=> interval > 0 /\ r \in Admitted(k, interval - 1)
      <4>1. req[r].passed[k] \in 0..MaxAge \cup {Forever}
        BY <1>9, Places DEF Request
      <4>2. req'[r].passed[k] = IF req[r].passed[k] \in {Forever, MaxAge} THEN Forever
                                ELSE req[r].passed[k] + 1
        BY <1>9, TickOfRequest
      <4> QED
        BY <4>1, <4>2 DEF Admitted
    <3> QED
      BY <3>1 DEF Admitted
  <2> DEFINE before == interval - 1
             taken == Cardinality(Admitted(k, before)) * Period[k]
             gained == (interval + slip[k]) * c
  <2>2. before \in 0..MaxAge /\ slip[k] \in Nat
    BY <1>9, <2>1 DEF Inv1, TypeOK
  <2>3. taken \in Nat /\ gained \in Nat /\ MaxLag * c \in Nat /\ b.age * c \in Nat
    BY <1>1, <1>3, <1>9, <2>2, AdmittedOnce, Products
  <2>4. gained = (before + slip[k]) * c + c
    <3>1. interval + slip[k] = (before + slip[k]) + 1 /\ before + slip[k] \in Int
      BY <2>2
    <3>2. ((before + slip[k]) + 1) * c = (before + slip[k]) * c + 1 * c
      BY <1>1, <3>1, Distributes
    <3> QED
      BY <1>1, <3>1, <3>2
  <2>5. (before + slip[k]) * c \in Nat
    BY <1>1, <2>2, Products
  <2>6. (b.age + 1) * c = b.age * c + c
    BY <1>1, <1>3, Distributes
  <2>7. Admitted(k, before) # {}
    BY <2>1
  <2> HIDE DEF before
  <2>8. IF b.ttl = 0 THEN taken <= (before + slip[k]) * c
        ELSE taken + b.tokens + b.age * c <= Full(k) + (before + slip[k]) * c + MaxLag * c
    BY <1>2, <1>9, <2>2, <2>7 DEF BucketKnows, WindowKnows
  <2> HIDE DEF taken, gained
  <2>9. CASE b.ttl > 1
    <3>1. taken + b.tokens + b.age * c <= Full(k) + (before + slip[k]) * c + MaxLag * c
      BY <2>8, <2>9
    <3>2. taken + b.tokens + (b.age + 1) * c <= Full(k) + gained + MaxLag * c
      BY <1>1, <1>3, <2>3, <2>4, <2>5, <2>6, <3>1
    <3> QED
      BY <1>3, <1>4, <2>1, <2>9, <3>2 DEF taken, gained, before
  <2>10. CASE b.ttl = 1
    <3>1. taken + b.tokens + b.age * c <= Full(k) + (before + slip[k]) * c + MaxLag * c
      BY <2>8, <2>10
    <3>2. b.age + 1 >= 2 * Period[k]
      BY <1>2, <1>3, <2>10 DEF BucketKnows, AgeKnows
    <3>3. Full(k) + MaxLag * c <= b.age * c + c
      <4>1. (2 * Period[k]) * c <= (b.age + 1) * c
        BY <1>1, <1>3, <3>2, ProductsGrow
      <4>2. (2 * Period[k]) * c = Period[k] * c + Period[k] * c
        BY <1>1
      <4>3. MaxLag * c <= Period[k] * c
        BY <1>1, ProductsGrow
      <4>4. Full(k) = Period[k] * c /\ Period[k] * c \in Nat
        BY <1>1, Products
      <4> QED
        BY <1>1, <1>3, <2>3, <2>6, <4>1, <4>2, <4>3, <4>4
    <3>4. taken <= gained
      BY <1>1, <1>3, <2>3, <2>4, <2>5, <3>1, <3>3
    <3> QED
      BY <1>4, <2>1, <2>10, <3>4 DEF NoBucket, taken, gained, before
  <2>11. CASE b.ttl = 0
    <3>1. taken <= gained
      BY <1>1, <2>3, <2>4, <2>5, <2>8, <2>11
    <3> QED
      BY <1>4, <2>1, <2>11, <3>1 DEF NoBucket, taken, gained, before
  <2> QED
    BY <1>3, <2>9, <2>10, <2>11
<1> QED
  BY <1>6, <1>7, <1>8, <1>9 DEF BucketKnows

LEMMA TickInv1 == Inv1 /\ Tick => Inv1'
<1> SUFFICES ASSUME Inv1, Tick PROVE Inv1'
  OBVIOUS
<1>1. \A r \in Requests : /\ req'[r] \in Request /\ req'[r].pc = req[r].pc
                          /\ req'[r].call = req[r].call /\ req'[r].tiers = req[r].tiers
                          /\ req'[r].end = req[r].end /\ req'[r].by = req[r].by
                          /\ req'[r].nth = req[r].nth /\ req'[r].open = req[r].open
                          /\ req'[r].prior = req[r].prior
                          /\ req[r].end # "refused" => req'[r].ago = req[r].ago
  BY TickOfRequest
<1>2. \A k \in Tiers : bucket'[k] \in Bucket(k) /\ BucketKnows(k)'
  BY TickOfBucket
<1>3. Functional'
  <2>1. bucket' = [k \in Tiers |-> bucket'[k]] /\ req' = [r \in Requests |-> req'[r]]
    BY DEF Tick
  <2> QED
    BY <2>1 DEF Functional
<1>4. throttle \in Throttle /\ ThrottleKnows
  BY DEF Inv1, TypeOK
<1>5. \/ throttle.ttl = 1 /\ throttle' = [count |-> 0, ttl |-> 0]
      \/ throttle.ttl \in {0, Forever} /\ throttle' = throttle
      \/ /\ throttle.ttl \in 2..Window
         /\ throttle' = [count |-> throttle.count, ttl |-> throttle.ttl - 1]
  <2>1. throttle' = IF throttle.ttl = 1 THEN [count |-> 0, ttl |-> 0]
                    ELSE [throttle EXCEPT !.ttl = IF throttle.ttl = Forever THEN throttle.ttl
                                                  ELSE Less(throttle.ttl)]
    BY DEF Tick
  <2>2. throttle.ttl \in 0..Window \cup {Forever}
    BY <1>4 DEF Throttle
  <2> QED
    BY <1>4, <2>1, <2>2 DEF Throttle, Less
<1>6. throttle' \in Throttle /\ throttle'.count <= throttle.count
  BY <1>4, <1>5 DEF Throttle
<1>7. ThrottleKnows'
  BY <1>1, <1>4, <1>5 DEF ThrottleKnows, CountersLapse, At, Throttle
<1>8. cooldown' \in 0..Cooldown /\ slip' = slip /\ faultsLeft' = faultsLeft
  <2>1. cooldown' = IF cooldown = 0 THEN 0 ELSE cooldown - 1
    BY DEF Tick, Less
  <2>2. cooldown \in 0..Cooldown /\ slip' = slip /\ faultsLeft' = faultsLeft
    BY DEF Tick, Inv1, TypeOK
  <2> QED
    BY <2>1, <2>2
<1>9. TypeOK'
  BY <1>1, <1>2, <1>6, <1>8 DEF Inv1, TypeOK, Bucket
<1>10. ASSUME NEW r \in Requests PROVE PlaceKnows(req'[r]) /\ PriorKnows(r)'
  <2>1. PlaceKnows(req[r]) /\ PriorKnows(r) /\ req[r].prior \in SUBSET Requests
    BY Places DEF Inv1, Request
  <2>2. PlaceKnows(req'[r])
    BY <1>1, <2>1 DEF PlaceKnows
  <2>3. PriorKnows(r)'
    BY <1>1, <2>1 DEF PriorKnows, At
  <2> QED
    BY <2>2, <2>3
<1>11. ASSUME NEW r \in Requests PROVE ExcessKnows(r)'
  <2>1. Overlapping(r)' = Overlapping(r)
    BY <1>1 DEF Overlapping
  <2>2. Cardinality(Overlapping(r)) \in Nat
    BY Overlaps, Counting
  <2>3. ExcessKnows(r) /\ throttle.count \in Nat /\ throttle'.count \in Nat
    BY <1>4, <1>6 DEF Inv1, Throttle
  <2> QED
    BY <1>1, <1>6, <2>1, <2>2, <2>3 DEF ExcessKnows
<1> QED
  BY <1>2, <1>3, <1>7, <1>9, <1>10, <1>11 DEF Inv1

-------------------------------------------------------------------------------
(* The theorems.                                                           *)

LEMMA Inv1Init == Init => Inv1
<1> SUFFICES ASSUME Init PROVE Inv1
  OBVIOUS
<1> USE DEF Init
<1>1. NewRequest \in Request /\ PlaceKnows(NewRequest)
  <2>1. /\ <<>> \in Seq(Tiers)
        /\ [k \in Remembered |-> Forever] \in [Remembered -> 0..MaxAge \cup {Forever}]
    OBVIOUS
  <2>2. 0 \in 0..MaxLag /\ 0 \in 0..MaxAge
    OBVIOUS
  <2> QED
    BY <2>1, <2>2 DEF NewRequest, Request, Calls, PlaceKnows
<1>2. \A k \in Tiers : bucket[k] \in Bucket(k) /\ Period[k] \in Nat /\ Full(k) \in Nat
  BY Buckets DEF Bucket, NoBucket
<1>3. TypeOK
  BY <1>1, <1>2 DEF TypeOK, Throttle
<1>4. ASSUME NEW k \in Tiers PROVE BucketKnows(k)
  <2>1. \A interval \in 0..MaxAge : k \in Remembered => Admitted(k, interval) = {}
    BY DEF Admitted, NewRequest
  <2> QED
    BY <2>1 DEF BucketKnows, AgeKnows, WindowKnows, RefusalKnows, NoBucket
<1>5. ASSUME NEW r \in Requests PROVE PriorKnows(r) /\ ExcessKnows(r)
  <2>1. Cardinality(Overlapping(r)) \in Nat
    BY Overlaps, Counting
  <2> QED
    BY <2>1 DEF PriorKnows, ExcessKnows, NewRequest
<1>6. ThrottleKnows
  BY DEF ThrottleKnows, CountersLapse
<1> QED
  BY <1>1, <1>3, <1>4, <1>5, <1>6 DEF Inv1, Functional

LEMMA Inv1Step == Inv1 /\ [Next]_vars => Inv1'
<1> SUFFICES ASSUME Inv1, [Next]_vars PROVE Inv1'
  OBVIOUS
<1>1. CASE UNCHANGED vars
  BY ZenonT(60), <1>1 DEF vars, Inv1, TypeOK, Functional, BucketKnows, AgeKnows, WindowKnows, RefusalKnows,
     Admitted, PriorKnows, ExcessKnows, Overlapping, At, ThrottleKnows, CountersLapse, Bucket
<1>2. ASSUME NEW r \in Requests, Step(r) PROVE Inv1'
  BY <1>2, ScriptInv1, SwayInv1, CountInv1 DEF Step
<1>3. CASE Next
  BY <1>2, <1>3, CallInv1, CommandFailsInv1, TickInv1 DEF Next
<1> QED
  BY <1>1, <1>3

LEMMA Inv1Invariant == Spec => []Inv1
  BY Inv1Init, Inv1Step, PTL DEF Spec

(* Every reachable state of the limits is well typed, for any requests,    *)
(* tiers, clock lags and failing commands.                                 *)
THEOREM LimitsTypeCorrect == Spec => []TypeOK
<1>1. Inv1 => TypeOK
  BY DEF Inv1
<1> QED
  BY <1>1, Inv1Invariant, PTL

(* A tier lets through, in any interval, what its bucket holds and gains,  *)
(* and what clocks that lag add, however the requests' clocks and scripts  *)
(* interleave (TokenBucket's script in rate_limit.py).                     *)
THEOREM AdmissionsAreBoundedCorrect == Spec => []AdmissionsAreBounded
<1>1. Inv1 => AdmissionsAreBounded
  <2> SUFFICES ASSUME Inv1, NEW k \in Remembered, NEW interval \in 0..MaxAge
               PROVE  Cardinality(Admitted(k, interval)) * Period[k]
                        <= Full(k) + (interval + MaxLag + slip[k]) * Capacity[k]
    BY DEF AdmissionsAreBounded, Admitted
  <2> DEFINE taken == Cardinality(Admitted(k, interval)) * Period[k]
             gained == (interval + slip[k]) * Capacity[k]
             late == MaxLag * Capacity[k]
  <2>1. k \in Tiers /\ slip[k] \in Nat
    BY DEF Inv1, TypeOK, Remembered
  <2>2. Capacity[k] \in Nat /\ Period[k] \in Nat /\ Full(k) \in Nat
    BY <2>1, Buckets
  <2>3. (interval + MaxLag + slip[k]) * Capacity[k] = gained + late
    <3>1. interval + MaxLag + slip[k] = (interval + slip[k]) + MaxLag
      BY <2>1
    <3> QED
      BY <2>1, <2>2, <3>1, Distributes
  <2>4. taken \in Nat /\ gained \in Nat /\ late \in Nat
    BY <2>1, <2>2, AdmittedOnce, Products
  <2>5. CASE Admitted(k, interval) = {}
    <3>1. taken = 0
      <4>1. Cardinality(Admitted(k, interval)) = 0
        BY <2>5, AdmittedOnce
      <4> QED
        BY <2>2, <4>1
    <3> HIDE DEF taken, gained, late
    <3> QED
      BY <2>2, <2>3, <2>4, <3>1 DEF taken
  <2>6. CASE Admitted(k, interval) # {}
    <3>1. IF bucket[k].ttl = 0 THEN taken <= gained
          ELSE taken + bucket[k].tokens + bucket[k].age * Capacity[k] <= Full(k) + gained + late
      BY <2>1, <2>6 DEF Inv1, BucketKnows, WindowKnows
    <3>2. bucket[k].tokens \in Nat /\ bucket[k].age * Capacity[k] \in Nat
      BY <2>1, <2>2, Products DEF Inv1, TypeOK, Bucket
    <3> HIDE DEF gained, late
    <3> QED
      BY <2>2, <2>3, <2>4, <3>1, <3>2
  <2> QED
    BY <2>5, <2>6
<1> QED
  BY <1>1, Inv1Invariant, PTL

(* A refusal's Retry-After is long enough, when nobody else has used the   *)
(* bucket since (math.ceil in TokenBucket's script).                       *)
THEOREM RetryAfterIsEnoughCorrect == Spec => []RetryAfterIsEnough
<1>1. Inv1 => RetryAfterIsEnough
  <2> SUFFICES ASSUME Inv1, NEW k \in Tiers \ {"ai_daily"}, NEW r \in Requests,
                      req[r].by = k, req[r].ago >= req[r].retry, bucket[k].last = r
               PROVE  Refilled(k, 0) >= Period[k]
    BY DEF RetryAfterIsEnough
  <2> DEFINE b == bucket[k]
  <2>1. /\ Capacity[k] \in Nat /\ Period[k] \in Nat /\ Full(k) \in Nat /\ Full(k) >= Period[k]
    BY Buckets
  <2>2. /\ b.tokens \in Nat /\ b.age \in Nat /\ b.ttl \in Nat
        /\ req[r].ago \in Nat /\ req[r].retry \in Nat
    <3>1. b.tokens \in Nat /\ b.age \in Nat /\ b.ttl \in Nat
      BY <2>1 DEF Inv1, TypeOK, Bucket
    <3>2. req[r].ago \in Nat /\ req[r].retry \in Nat
      BY Places DEF Request
    <3> QED
      BY <3>1, <3>2
  <2>3. 0 \in 0..MaxLag
    OBVIOUS
  <2>4. CASE b.ttl = 0
    BY <2>1, <2>3, <2>4, Refills
  <2>5. CASE b.ttl > 0
    <3>1. req[r].ago <= b.age /\ b.tokens + req[r].retry * Capacity[k] >= Period[k]
      BY <2>5 DEF Inv1, BucketKnows, RefusalKnows
    <3>2. req[r].retry * Capacity[k] <= b.age * Capacity[k]
      BY <2>1, <2>2, <3>1, ProductsGrow
    <3>3. Behind(k, 0) = b.age
      BY <2>2 DEF Behind
    <3>4. req[r].retry * Capacity[k] \in Nat /\ b.age * Capacity[k] \in Nat
      BY <2>1, <2>2, Products
    <3>5. Refilled(k, 0) = IF Full(k) <= b.tokens + b.age * Capacity[k] THEN Full(k)
                           ELSE b.tokens + b.age * Capacity[k]
      BY <2>3, <2>5, <3>3, Refills
    <3> QED
      BY <2>1, <2>2, <3>1, <3>2, <3>4, <3>5
  <2> QED
    BY <2>2, <2>4, <2>5
<1> QED
  BY <1>1, Inv1Invariant, PTL

(* Whoever is counted above the threshold overlapped with as many others:  *)
(* AuthThrottle.check and record_failure are not one step, but attempts in *)
(* turn stop at the threshold.                                             *)
THEOREM ExcessOverlapsCorrect == Spec => []ExcessOverlaps
<1>1. Inv1 => ExcessOverlaps
  <2> SUFFICES ASSUME Inv1, NEW r \in Requests, req[r].nth > Threshold, ~req[r].open
               PROVE  Cardinality(Overlapping(r)) >= req[r].nth - Threshold
    BY DEF ExcessOverlaps, Overlapping
  <2>1. Cardinality(Overlapping(r)) \in Nat /\ req[r].nth \in Nat
    BY Overlaps, Counting, Places DEF Request
  <2> QED
    BY <2>1 DEF Inv1, ExcessKnows
<1> QED
  BY <1>1, Inv1Invariant, PTL

(* The counter of attempts has a time to live, unless the EXPIRE after the *)
(* first attempt is still to come or has failed (record_failure).          *)
THEOREM CountersLapseCorrect == Spec => []CountersLapse
<1>1. Inv1 => CountersLapse
  BY DEF Inv1, ThrottleKnows
<1> QED
  BY <1>1, Inv1Invariant, PTL
===============================================================================
