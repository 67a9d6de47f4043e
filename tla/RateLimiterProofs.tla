------------------------- MODULE RateLimiterProofs --------------------------
(***************************************************************************)
(* The limit of the token buckets, and the honesty of Retry-After, for any *)
(* rates, burst, replicas, callers, faults and time.                       *)
(***************************************************************************)
EXTENDS RateLimiter, TLAPS

\* Arithmetic the buckets need.
LEMMA DivBound ==
  ASSUME NEW a \in Nat, NEW m \in Nat \ {0}
  PROVE  a \div m \in Nat /\ (a \div m) * m <= a /\ a < (a \div m) * m + m
  OBVIOUS

LEMMA MulMonotone ==
  ASSUME NEW a \in Nat, NEW b \in Nat, NEW r \in Nat, a <= b
  PROVE  a * r \in Nat /\ b * r \in Nat /\ a * r <= b * r
  OBVIOUS

LEMMA MulSucc ==
  ASSUME NEW a \in Nat, NEW r \in Nat
  PROVE  a * r \in Nat /\ (a + 1) * r = a * r + r
  OBVIOUS

LEMMA CeilCovers ==
  ASSUME NEW a \in Nat, NEW m \in Nat \ {0}
  PROVE  CeilDiv(a, m) \in Nat /\ CeilDiv(a, m) * m >= a
<1>1. a + m - 1 \in Nat
  OBVIOUS
<1> QED BY <1>1, DivBound DEF CeilDiv

-----------------------------------------------------------------------------
\* Rates and capacities.
LEMMA RateType ==
  ASSUME NEW c \in Callers
  PROVE  Rpm(c) \in Nat /\ Capacity(c) \in Nat /\ Capacity(c) >= Token
<1>1. Rpm(c) \in Nat
  BY RateAssumption DEF Rpm
<1>2. Rpm(c) * BurstSeconds \in Nat
  BY <1>1, RateAssumption
<1> QED BY <1>1, <1>2 DEF Capacity, MaxOf, Token

\* A key lives until its bucket would be full.
LEMMA TtlFills ==
  ASSUME NEW c \in Callers, Rpm(c) # 0
  PROVE  Ttl(c) \in Nat /\ Ttl(c) * Rpm(c) >= Capacity(c)
<1>1. Rpm(c) \in Nat \ {0} /\ Capacity(c) \in Nat
  BY RateType
<1> DEFINE fill == CeilDiv(Capacity(c), Rpm(c))
<1>2. fill \in Nat /\ fill * Rpm(c) >= Capacity(c)
  BY <1>1, CeilCovers
<1> HIDE DEF fill
<1>3. Ttl(c) \in Nat /\ Ttl(c) >= fill
  BY <1>2, RateAssumption DEF Ttl, MaxOf, fill
<1>4. fill * Rpm(c) <= Ttl(c) * Rpm(c) /\ Ttl(c) * Rpm(c) \in Nat /\ fill * Rpm(c) \in Nat
  BY <1>1, <1>2, <1>3, MulMonotone
<1> QED BY <1>1, <1>2, <1>3, <1>4

\* What a bucket holds at a time, had it been looked at then.
Full(b, c, t) == MinOf(Capacity(c), b.tokens + (t - b.last) * Rpm(c))

Buckets(c) == [tokens: 0 .. Capacity(c), last: Nat, live: BOOLEAN]
Record == [tokens: Nat, last: Nat, live: BOOLEAN]

LEMMA FullType ==
  ASSUME NEW c \in Callers, NEW b \in Buckets(c), NEW t \in Nat, b.last <= t
  PROVE  /\ (t - b.last) * Rpm(c) \in Nat
         /\ Full(b, c, t) \in 0 .. Capacity(c)
         /\ b.last = t => Full(b, c, t) = b.tokens
<1>1. t - b.last \in Nat /\ Rpm(c) \in Nat /\ Capacity(c) \in Nat /\ b.tokens \in 0 .. Capacity(c)
  BY RateType DEF Buckets
<1>2. (t - b.last) * Rpm(c) \in Nat /\ 0 * Rpm(c) = 0
  BY <1>1
<1>3. PICK refill \in Nat : refill = (t - b.last) * Rpm(c)
  BY <1>2
<1>4. Full(b, c, t) \in 0 .. Capacity(c)
  BY <1>1, <1>3 DEF Full, MinOf
<1>5. b.last = t => refill = 0
  BY <1>2, <1>3 DEF Buckets
<1>6. b.last = t => Full(b, c, t) = b.tokens
  BY <1>1, <1>3, <1>5 DEF Full, MinOf
<1> QED BY <1>2, <1>4, <1>6

LEMMA RefilledIs ==
  ASSUME NEW c \in Callers, NEW b \in Buckets(c), now \in Nat, b.last <= now
  PROVE  /\ Refilled(b, c).tokens = IF b.live THEN Full(b, c, now) ELSE Capacity(c)
         /\ Refilled(b, c) \in Buckets(c)
         /\ Refilled(b, c).last = now
         /\ Refilled(b, c).live
<1>1. /\ Full(b, c, now) \in 0 .. Capacity(c)
      /\ b.last = now => Full(b, c, now) = b.tokens
  BY FullType
<1>2. Capacity(c) \in 0 .. Capacity(c)
  BY RateType
<1>3. b.last \in Nat /\ b.live \in BOOLEAN /\ b.tokens \in 0 .. Capacity(c)
  BY DEF Buckets
<1>4. CASE ~b.live
  BY <1>2, <1>4 DEF Refilled, Buckets
<1>5. CASE b.live /\ now > b.last
  BY <1>1, <1>5 DEF Refilled, Buckets, Full
<1>6. CASE b.live /\ b.last = now
  BY <1>1, <1>6 DEF Refilled
<1> QED BY <1>3, <1>4, <1>5, <1>6

LEMMA SpentIs ==
  ASSUME NEW c \in Callers, NEW b \in Buckets(c), now \in Nat, b.last <= now
  PROVE  /\ Spent(b, c) \in Buckets(c) /\ Spent(b, c).last = now /\ Spent(b, c).live
         /\ Spent(b, c).tokens = Refilled(b, c).tokens - (IF Admits(b, c) THEN Token ELSE 0)
         /\ Full(Spent(b, c), c, now) = Spent(b, c).tokens
<1>1. PICK full \in Buckets(c) : full = Refilled(b, c) /\ full.last = now /\ full.live
  BY RefilledIs
<1>2. Spent(b, c) = IF full.tokens >= Token THEN [full EXCEPT !.tokens = full.tokens - Token] ELSE full
  BY <1>1 DEF Spent
<1>3. full.tokens \in 0 .. Capacity(c) /\ Capacity(c) \in Nat
  BY RateType DEF Buckets
<1>4. Spent(b, c) \in Buckets(c) /\ Spent(b, c).last = now /\ Spent(b, c).live
  BY <1>1, <1>2, <1>3 DEF Buckets, Token
<1>5. Spent(b, c).tokens = full.tokens - (IF full.tokens >= Token THEN Token ELSE 0)
  BY <1>1, <1>2, <1>3 DEF Buckets, Token
<1>6. Full(Spent(b, c), c, now) = Spent(b, c).tokens
  BY <1>4, FullType
<1> QED BY <1>1, <1>4, <1>5, <1>6 DEF Admits
-----------------------------------------------------------------------------
\* The bucket of a caller at a place; whether it counts as one of its lives; and
\* what it could pay now.  A key that expired would have been full.
Bucket(c, at) == IF at = Redis THEN shared[c] ELSE local[at][c]
Counted(c, at) == IF at = Redis THEN ~FreshShared(c) ELSE local[at][c].live
Level(c, at) ==
    IF ~Counted(c, at) THEN 0
    ELSE IF Bucket(c, at).live THEN Full(Bucket(c, at), c, now) ELSE Capacity(c)

Allowance(c) == Capacity(c) + (now - window[c].from) * Rpm(c)

BucketsType ==
    /\ now \in Nat
    /\ expired \subseteq Callers
    /\ \A c \in Callers, at \in Places :
          /\ Bucket(c, at) \in Buckets(c)
          /\ Bucket(c, at).last <= now
          /\ Bucket(c, at).live => Rpm(c) # 0
    /\ \A c \in expired : ~shared[c].live
    /\ shared \in [Callers -> Record]
    /\ local \in [Replicas -> [Callers -> Record]]

HistoryType ==
    /\ window \in [Watched -> [from: Nat, granted: [Places -> Nat], lives: [Places -> Nat]]]
    /\ \A c \in Watched : window[c].from <= now
    /\ promise \in [Watched -> [due: Nat, at: Places \union {"none"}]]

\* What was admitted at a place and what could be admitted there now are paid by
\* the lives of its bucket.
PaidAt(c, at) ==
    /\ Counted(c, at) => window[c].lives[at] >= 1
    /\ window[c].granted[at] * Token + Level(c, at) <= window[c].lives[at] * Allowance(c)

\* The bucket that made a promise keeps it, or is gone.
PromiseKept(c) ==
    LET p == promise[c]
        b == Bucket(c, p.at)
    IN  p.at # "none" /\ b.live => b.last <= p.due /\ b.tokens + (p.due - b.last) * Rpm(c) >= Token

RateInv ==
    /\ BucketsType
    /\ HistoryType
    /\ \A c \in Watched : PromiseKept(c) /\ \A at \in Places : PaidAt(c, at)

\* The arithmetic of one check: the bucket holds r, spends a token when it
\* has one, and pays for the request if that is where it was admitted.
LEMMA Pays ==
  ASSUME NEW g \in Nat, NEW l \in Nat, NEW v \in Nat, NEW e \in Nat, NEW cap \in Nat, cap <= e,
         g * Token + v <= l * e
  PROVE  /\ l * e \in Nat
         /\ \A w \in Nat : w <= v => g * Token + w <= l * e
         /\ v >= Token => (g + 1) * Token + (v - Token) <= l * e
         /\ v = 0 => g * Token + cap <= (l + 1) * e
         /\ v = 0 /\ cap >= Token => (g + 1) * Token + (cap - Token) <= (l + 1) * e
<1>1. l * e \in Nat /\ (l + 1) * e = l * e + e
  BY MulSucc
<1> QED BY <1>1 DEF Token

\* What a caller was told to wait brings the tokens it lacks, at any rate.
LEMMA WaitBrings ==
  ASSUME NEW d \in 1 .. Token, NEW r \in Nat \ {0}
  PROVE  LET wait == MaxOf(1, (1000 * d + 999 * r) \div (1000 * r))
         IN  wait \in Nat /\ wait * r \in Nat /\ wait * r >= d
<1>1. PICK a \in Nat : a = 1000 * d + 999 * r
  OBVIOUS
<1>2. PICK m \in Nat \ {0} : m = 1000 * r
  OBVIOUS
<1>3. PICK q \in Nat : q = a \div m /\ a < q * m + m
  BY DivBound
<1>4. PICK x \in Nat : x = q * r
  OBVIOUS
<1>5. q * m = 1000 * x
  BY <1>2, <1>4
<1>6. r < 60 => x >= d
  BY <1>1, <1>2, <1>3, <1>5
<1>7. PICK wait \in Nat : wait = MaxOf(1, q) /\ wait >= 1 /\ wait >= q
  BY DEF MaxOf
<1>8. wait * r \in Nat /\ wait * r >= x /\ wait * r >= 1 * r
  BY <1>4, <1>7, MulMonotone
<1>9. wait * r >= d
  <2>1. CASE r < 60
    BY <1>6, <1>8, <2>1
  <2>2. CASE r >= 60
    BY <1>8, <2>2 DEF Token
  <2> QED BY <2>1, <2>2
<1> QED BY <1>1, <1>2, <1>3, <1>7, <1>8, <1>9

-----------------------------------------------------------------------------
\* What can happen to one bucket, and that it is paid for.

LEMMA LevelType ==
  ASSUME BucketsType, NEW c \in Callers, NEW at \in Places
  PROVE  Level(c, at) \in 0 .. Capacity(c)
<1>1. PICK b \in Buckets(c) : b = Bucket(c, at) /\ b.last <= now /\ now \in Nat
  BY DEF BucketsType
<1>2. Full(b, c, now) \in 0 .. Capacity(c)
  BY <1>1, FullType
<1> QED BY <1>1, <1>2, RateType DEF Level

LEMMA AllowanceType ==
  ASSUME BucketsType, HistoryType, NEW c \in Watched
  PROVE  /\ (now - window[c].from) * Rpm(c) \in Nat
         /\ Allowance(c) \in Nat /\ Allowance(c) >= Capacity(c)
<1>1. c \in Callers
  BY RateAssumption
<1>2. now - window[c].from \in Nat /\ Rpm(c) \in Nat /\ Capacity(c) \in Nat
  BY <1>1, RateType DEF BucketsType, HistoryType
<1>3. PICK x \in Nat : x = (now - window[c].from) * Rpm(c)
  BY <1>2
<1> QED BY <1>2, <1>3 DEF Allowance

\* A check spends here, and counts a life if it had to make the bucket; the
\* caller hears of it, or does not.
LEMMA SpendPays ==
  ASSUME BucketsType, HistoryType, NEW c \in Watched, NEW at \in Places, PaidAt(c, at),
         Bucket(c, at)' = Spent(Bucket(c, at), c), Counted(c, at)', now' = now,
         (window[c].from)' = window[c].from,
         (window[c].lives[at])' = window[c].lives[at] + Count(~Counted(c, at)),
         (window[c].granted[at])' \in {window[c].granted[at],
                                       window[c].granted[at] + Count(Admits(Bucket(c, at), c))}
  PROVE  PaidAt(c, at)'
<1>c. c \in Callers
  BY RateAssumption
<1>1. PICK b \in Buckets(c) : b = Bucket(c, at) /\ b.last <= now /\ now \in Nat
  BY <1>c DEF BucketsType
<1>2. PICK s \in Buckets(c) : /\ s = Spent(b, c) /\ s.live
                              /\ s.tokens = Refilled(b, c).tokens - (IF Admits(b, c) THEN Token ELSE 0)
                              /\ Full(s, c, now) = s.tokens
  BY <1>1, <1>c, SpentIs
<1>3. PICK g \in Nat, l \in Nat : g = window[c].granted[at] /\ l = window[c].lives[at]
  BY DEF HistoryType
<1>4. PICK e \in Nat : e = Allowance(c) /\ e >= Capacity(c)
  BY AllowanceType
<1>5. PICK v \in Nat : v = Level(c, at) /\ v <= Capacity(c) /\ Capacity(c) \in Nat /\ Capacity(c) >= Token
  BY LevelType, RateType, <1>c
<1>6. PICK f \in Nat : f = Refilled(b, c).tokens /\ f = (IF b.live THEN Full(b, c, now) ELSE Capacity(c))
  BY <1>1, <1>c, RefilledIs DEF Buckets
<1>7. Level(c, at)' = s.tokens /\ Allowance(c)' = e
  BY <1>1, <1>2, <1>4 DEF Level, Allowance
<1>8. g * Token + v <= l * e
  BY <1>3, <1>4, <1>5 DEF PaidAt
<1>9. Admits(b, c) <=> f >= Token
  BY <1>6 DEF Admits
<1>10. PICK t \in Nat : t = s.tokens /\ t = f - (IF f >= Token THEN Token ELSE 0)
  BY <1>2, <1>6, <1>9 DEF Buckets
<1>11. CASE Counted(c, at)
  <2>1. v = f
    BY <1>1, <1>5, <1>6, <1>11 DEF Level
  <2>2. (window[c].lives[at])' = l /\ l >= 1
    BY <1>3, <1>11 DEF Count, PaidAt
  <2>3. CASE (window[c].granted[at])' = g
    <3>1. g * Token + t <= l * e
      BY <1>4, <1>5, <1>8, <1>10, <2>1, Pays DEF Token
    <3> QED BY <1>3, <1>4, <1>7, <1>10, <2>2, <2>3, <3>1 DEF PaidAt
  <2>4. CASE (window[c].granted[at])' = g + Count(f >= Token)
    <3>1. (g + Count(f >= Token)) * Token + t <= l * e
      BY <1>4, <1>5, <1>8, <1>10, <2>1, Pays DEF Token, Count
    <3> QED BY <1>3, <1>4, <1>7, <1>10, <2>2, <2>4, <3>1 DEF PaidAt
  <2> QED BY <1>1, <1>3, <1>9, <2>3, <2>4 DEF Count
<1>12. CASE ~Counted(c, at)
  <2>1. v = 0 /\ f = Capacity(c)
    BY <1>1, <1>5, <1>6, <1>12 DEF Level, Counted, Bucket, FreshShared
  <2>2. (window[c].lives[at])' = l + 1 /\ l + 1 >= 1
    BY <1>3, <1>12 DEF Count
  <2>3. CASE (window[c].granted[at])' = g
    <3>1. g * Token + t <= (l + 1) * e
      <4>1. g * Token + Capacity(c) <= (l + 1) * e /\ (l + 1) * e \in Nat
        BY <1>4, <1>5, <1>8, <2>1, Pays
      <4> QED BY <4>1, <1>5, <1>10, <2>1 DEF Token
    <3> QED BY <1>3, <1>4, <1>7, <1>10, <2>2, <2>3, <3>1 DEF PaidAt
  <2>4. CASE (window[c].granted[at])' = g + Count(f >= Token)
    <3>1. (g + 1) * Token + t <= (l + 1) * e
      BY <1>4, <1>5, <1>8, <1>10, <2>1, Pays DEF Token
    <3>2. Count(f >= Token) = 1
      BY <1>5, <2>1 DEF Count
    <3> QED BY <1>3, <1>4, <1>7, <1>10, <2>2, <2>4, <3>1, <3>2 DEF PaidAt
  <2> QED BY <1>1, <1>3, <1>9, <2>3, <2>4 DEF Count
<1> QED BY <1>11, <1>12

\* Nothing happens to it, or it is lost.
LEMMA IdlePays ==
  ASSUME BucketsType, HistoryType, NEW c \in Watched, NEW at \in Places, PaidAt(c, at),
         \/ Bucket(c, at)' = Bucket(c, at) /\ Counted(c, at)' = Counted(c, at)
         \/ Counted(c, at)' = FALSE,
         now' = now, (window[c].from)' = window[c].from,
         (window[c].lives[at])' = window[c].lives[at],
         (window[c].granted[at])' = window[c].granted[at]
  PROVE  PaidAt(c, at)'
<1>c. c \in Callers
  BY RateAssumption
<1>3. PICK g \in Nat, l \in Nat : g = window[c].granted[at] /\ l = window[c].lives[at]
  BY DEF HistoryType
<1>4. PICK e \in Nat : e = Allowance(c) /\ e >= Capacity(c)
  BY AllowanceType
<1>5. PICK v \in Nat : v = Level(c, at) /\ v <= Capacity(c) /\ Capacity(c) \in Nat /\ Capacity(c) >= Token
  BY LevelType, RateType, <1>c
<1>6. Allowance(c)' = e
  BY <1>4 DEF Allowance
<1>7. g * Token + v <= l * e
  BY <1>3, <1>4, <1>5 DEF PaidAt
<1>8. CASE Counted(c, at)' = FALSE
  <2>1. Level(c, at)' = 0
    BY <1>8 DEF Level
  <2>2. PICK paid \in Nat : paid = l * e
    BY <1>3, <1>4
  <2>3. g * Token + 0 <= l * e
    BY <1>7, <2>2 DEF Token
  <2> QED BY <1>3, <1>6, <1>8, <2>1, <2>3 DEF PaidAt
<1>9. CASE Bucket(c, at)' = Bucket(c, at) /\ Counted(c, at)' = Counted(c, at)
  <2>1. Level(c, at)' = v
    BY <1>5, <1>9 DEF Level
  <2> QED BY <1>3, <1>6, <1>7, <1>9, <2>1 DEF PaidAt
<1> QED BY <1>8, <1>9

\* A key expires: its bucket would have been full.
LEMMA ExpirePays ==
  ASSUME BucketsType, HistoryType, NEW c \in Watched, PaidAt(c, Redis), Expire(c)
  PROVE  PaidAt(c, Redis)'
<1>c. c \in Callers /\ Redis \in Places
  BY RateAssumption DEF Places
<1>1. PICK b \in Buckets(c) : b = shared[c] /\ b.last <= now /\ now \in Nat /\ b.live /\ Rpm(c) # 0
  BY <1>c DEF BucketsType, Bucket, Expire
<1>2. b.last \in Nat /\ Ttl(c) \in Nat /\ Rpm(c) \in Nat /\ Capacity(c) \in Nat /\ b.tokens \in Nat
  BY <1>c, <1>1, TtlFills, RateType DEF Buckets
<1>3. Ttl(c) <= now - b.last /\ now - b.last \in Nat
  BY <1>1, <1>2 DEF Expire
<1>4. PICK fill \in Nat, rest \in Nat :
         fill = Ttl(c) * Rpm(c) /\ rest = (now - b.last) * Rpm(c) /\ fill <= rest /\ fill >= Capacity(c)
  BY <1>c, <1>1, <1>2, <1>3, MulMonotone, TtlFills
<1>5. Full(b, c, now) = Capacity(c)
  BY <1>2, <1>4 DEF Full, MinOf
<1>6. Counted(c, Redis) /\ Level(c, Redis) = Capacity(c)
  BY <1>1, <1>5 DEF Level, Counted, FreshShared, Bucket
<1>7. ~(shared[c].live)' /\ c \in expired'
  BY <1>c DEF Expire, NoBucket, BucketsType
<1>8. Counted(c, Redis)' /\ Level(c, Redis)' = Capacity(c)
  BY <1>7 DEF Level, Counted, FreshShared, Bucket
<1>9. window' = window /\ Allowance(c)' = Allowance(c)
  BY DEF Expire, Allowance
<1> QED BY <1>6, <1>8, <1>9 DEF PaidAt

\* Somebody starts counting: what there is, is at most full.
LEMMA OpenPays ==
  ASSUME BucketsType, HistoryType, NEW c \in Watched, NEW at \in Places, OpenWindow(c)
  PROVE  PaidAt(c, at)'
<1>c. c \in Callers
  BY RateAssumption
<1>1. /\ (window[c].from)' = now /\ (window[c].granted[at])' = 0
      /\ (window[c].lives[at])' = Count(Counted(c, at))
      /\ now' = now
  BY DEF OpenWindow, HistoryType, Counted, FreshShared
<1>2. Level(c, at)' = Level(c, at) /\ Counted(c, at)' = Counted(c, at)
  BY DEF OpenWindow, Level, Counted, Bucket, FreshShared
<1>3. Rpm(c) \in Nat /\ Capacity(c) \in Nat /\ now \in Nat /\ (now - now) * Rpm(c) = 0
  BY <1>c, RateType DEF BucketsType
<1>4. Allowance(c)' = Capacity(c)
  BY <1>1, <1>3 DEF Allowance
<1>5. PICK v \in 0 .. Capacity(c) : v = Level(c, at)
  BY <1>c, LevelType
<1>6. CASE Counted(c, at)
  BY <1>1, <1>2, <1>3, <1>4, <1>5, <1>6 DEF PaidAt, Count, Token
<1>7. CASE ~Counted(c, at)
  <2>1. Level(c, at) = 0
    BY <1>7 DEF Level
  <2> QED BY <1>1, <1>2, <1>3, <1>4, <1>7, <2>1 DEF PaidAt, Count, Token
<1> QED BY <1>6, <1>7

\* A second passes: each bucket gains at most what its lives gain.
LEMMA TickPays ==
  ASSUME BucketsType, HistoryType, NEW c \in Watched, NEW at \in Places, PaidAt(c, at), Tick
  PROVE  PaidAt(c, at)'
<1>c. c \in Callers
  BY RateAssumption
<1>1. PICK b \in Buckets(c) : b = Bucket(c, at) /\ b.last <= now /\ now \in Nat
  BY <1>c DEF BucketsType
<1>2. Bucket(c, at)' = b /\ Counted(c, at)' = Counted(c, at) /\ now' = now + 1 /\ window' = window
  BY <1>1 DEF Tick, Bucket, Counted, FreshShared
<1>3. PICK r \in Nat : r = Rpm(c)
  BY <1>c, RateType
<1>4. PICK g \in Nat, l \in Nat, from \in Nat :
         g = window[c].granted[at] /\ l = window[c].lives[at] /\ from = window[c].from /\ from <= now
  BY DEF HistoryType
<1>5. PICK e \in Nat : e = Allowance(c) /\ e >= Capacity(c) /\ Allowance(c)' = e + r
  <2>1. PICK age \in Nat : age = now - from
    BY <1>1, <1>4
  <2>2. PICK x \in Nat : x = age * r /\ (age + 1) * r = x + r
    BY <1>3, MulSucc
  <2>3. Allowance(c) = Capacity(c) + x
    BY <1>3, <1>4, <2>1, <2>2 DEF Allowance
  <2>4. now' - from = age + 1
    BY <1>1, <1>2, <1>4, <2>1
  <2>5. Allowance(c)' = Capacity(c) + (x + r)
    BY <1>2, <1>3, <1>4, <2>2, <2>4 DEF Allowance
  <2> QED BY <1>c, <2>2, <2>3, <2>5, RateType
<1>6. PICK v \in Nat : v = Level(c, at) /\ v <= Capacity(c) /\ Capacity(c) \in Nat
  BY <1>c, LevelType, RateType
<1>7. g * Token + v <= l * e /\ (Counted(c, at) => l >= 1)
  BY <1>4, <1>5, <1>6 DEF PaidAt
<1>8. PICK paid \in Nat : paid = l * e
  BY <1>4, <1>5
<1>9. l * r \in Nat /\ l * (e + r) = paid + l * r
  BY <1>3, <1>8
<1>10. PICK gain \in Nat : gain = l * r
  BY <1>9
<1>11. CASE ~Counted(c, at)
  <2>1. Level(c, at)' = 0 /\ v = 0
    BY <1>2, <1>6, <1>11 DEF Level
  <2>2. g * Token + 0 <= l * (e + r)
    BY <1>7, <1>8, <1>9, <1>10, <2>1 DEF Token
  <2> QED BY <1>2, <1>4, <1>5, <1>11, <2>1, <2>2 DEF PaidAt
<1>12. CASE Counted(c, at)
  <2>1. l >= 1 /\ gain >= r
    <3>1. 1 * r <= l * r
      BY <1>7, <1>12, MulMonotone
    <3> QED BY <1>7, <1>10, <1>12, <3>1
  <2>2. PICK v2 \in Nat : v2 = Level(c, at)' /\ v2 <= v + r
    <3>1. CASE ~b.live
      BY <1>1, <1>2, <1>6, <1>12, <3>1 DEF Level
    <3>2. CASE b.live
      <4>1. PICK age \in Nat : age = now - b.last
        BY <1>1 DEF Buckets
      <4>2. PICK x \in Nat : x = age * r /\ (age + 1) * r = x + r
        BY <1>3, MulSucc
      <4>3. v = MinOf(Capacity(c), b.tokens + x)
        BY <1>1, <1>3, <1>6, <1>12, <3>2, <4>1, <4>2 DEF Level, Full
      <4>4. now' - b.last = age + 1
        BY <1>1, <1>2, <4>1 DEF Buckets
      <4>5. Level(c, at)' = MinOf(Capacity(c), b.tokens + (x + r))
        BY <1>1, <1>2, <1>3, <1>12, <3>2, <4>2, <4>4 DEF Level, Full
      <4>6. b.tokens \in Nat
        BY <1>6 DEF Buckets
      <4>7. MinOf(Capacity(c), b.tokens + (x + r)) \in Nat
        BY <1>6, <4>6 DEF MinOf
      <4> QED BY <1>6, <4>3, <4>5, <4>6, <4>7 DEF MinOf
    <3> QED BY <3>1, <3>2
  <2>3. g * Token + v2 <= l * (e + r)
    BY <1>7, <1>8, <1>9, <1>10, <2>1, <2>2 DEF Token
  <2> QED BY <1>2, <1>4, <1>5, <2>1, <2>2, <2>3 DEF PaidAt
<1> QED BY <1>11, <1>12

-----------------------------------------------------------------------------
\* What a refused caller is told brings the tokens its bucket lacks.
LEMMA WaitIsHonest ==
  ASSUME BucketsType, NEW c \in Callers, NEW b \in Buckets(c), b.last <= now, Rpm(c) # 0,
         ~Admits(b, c)
  PROVE  /\ RetryAfter(b, c) \in Nat
         /\ Spent(b, c).tokens + RetryAfter(b, c) * Rpm(c) >= Token
<1>1. now \in Nat
  BY DEF BucketsType
<1>2. PICK f \in 0 .. Capacity(c) : f = Refilled(b, c).tokens
  BY <1>1, RefilledIs DEF Buckets
<1>3. f < Token /\ f \in Nat
  BY <1>2, RateType DEF Admits, Token
<1>4. Spent(b, c).tokens = f
  BY <1>1, <1>2, <1>3, SpentIs DEF Buckets
<1>5. PICK d \in 1 .. Token : d = Token - f
  BY <1>3 DEF Token
<1>6. PICK r \in Nat \ {0} : r = Rpm(c)
  BY RateType
<1>7. RetryAfter(b, c) = MaxOf(1, (1000 * d + 999 * r) \div (1000 * r))
  BY <1>2, <1>5, <1>6 DEF RetryAfter
<1>8. PICK wait : wait = MaxOf(1, (1000 * d + 999 * r) \div (1000 * r))
  OBVIOUS
<1>9. wait \in Nat /\ wait * r \in Nat /\ wait * r >= d
  BY <1>8, WaitBrings
<1>10. PICK got \in Nat : got = wait * r
  BY <1>9
<1> QED BY <1>3, <1>4, <1>5, <1>6, <1>7, <1>8, <1>9, <1>10 DEF Token

LEMMA SpentRecord ==
  ASSUME BucketsType, NEW c \in Callers, NEW at \in Places
  PROVE  /\ Spent(Bucket(c, at), c) \in Buckets(c) /\ Spent(Bucket(c, at), c) \in Record
         /\ Spent(Bucket(c, at), c).last = now /\ Spent(Bucket(c, at), c).live
         /\ Bucket(c, at) \in Buckets(c) /\ Bucket(c, at).last <= now /\ now \in Nat
<1>1. PICK b \in Buckets(c) : b = Bucket(c, at) /\ b.last <= now /\ now \in Nat
  BY DEF BucketsType
<1>2. PICK s \in Buckets(c) : s = Spent(b, c) /\ s.last = now /\ s.live
  BY <1>1, SpentIs
<1>3. s \in Record
  BY <1>2, RateType DEF Buckets, Record
<1> QED BY <1>1, <1>2, <1>3

\* A bucket stays, is lost, or is spent from: the types are kept.
LEMMA BucketsKept ==
  ASSUME BucketsType, now' \in Nat, now' >= now, expired' \subseteq Callers,
         shared' \in [Callers -> Record], local' \in [Replicas -> [Callers -> Record]],
         \A d \in expired' : ~shared'[d].live,
         \A d \in Callers, at \in Places :
            \/ Bucket(d, at)' \in {Bucket(d, at), NoBucket}
            \/ Rpm(d) # 0 /\ Bucket(d, at)' = Spent(Bucket(d, at), d)
  PROVE  BucketsType'
<1>1. ASSUME NEW d \in Callers, NEW at \in Places
      PROVE  /\ Bucket(d, at)' \in Buckets(d)
             /\ (Bucket(d, at).last)' <= now'
             /\ (Bucket(d, at).live)' => Rpm(d) # 0
  <2>1. now \in Nat /\ Bucket(d, at) \in Buckets(d) /\ Bucket(d, at).last <= now
        /\ (Bucket(d, at).live => Rpm(d) # 0)
    BY DEF BucketsType
  <2>2. NoBucket \in Buckets(d) /\ NoBucket.last = 0 /\ ~NoBucket.live
    BY RateType DEF NoBucket, Buckets
  <2>3. CASE Bucket(d, at)' = Bucket(d, at)
    BY <2>1, <2>3 DEF Buckets
  <2>4. CASE Bucket(d, at)' = NoBucket
    BY <2>2, <2>4
  <2>5. CASE Rpm(d) # 0 /\ Bucket(d, at)' = Spent(Bucket(d, at), d)
    BY <2>1, <2>5, SpentRecord
  <2> QED BY <2>3, <2>4, <2>5
<1> QED BY <1>1 DEF BucketsType

\* What the histories record of a check.
LEMMA ToldIs ==
  ASSUME BucketsType, HistoryType, NEW c \in Callers, NEW b \in Buckets(c), b.last <= now,
         Rpm(c) # 0, NEW at \in Places, NEW made, Told(c, b, at, made), now' = now
  PROVE  /\ HistoryType'
         /\ \A d \in Watched : d # c => window'[d] = window[d] /\ promise'[d] = promise[d]
         /\ c \in Watched =>
              /\ window'[c].from = window[c].from
              /\ \A p \in Places :
                    /\ window'[c].granted[p] = window[c].granted[p] + Count(p = at /\ Admits(b, c))
                    /\ window'[c].lives[p] = window[c].lives[p] + Count(p \in made)
              /\ promise'[c] = IF Admits(b, c) THEN NoPromise
                               ELSE [due |-> now + RetryAfter(b, c), at |-> at]
<1>1. CASE c \notin Watched
  BY <1>1 DEF Told, HistoryType
<1>2. CASE c \in Watched
  <2>1. PICK w \in [from: Nat, granted: [Places -> Nat], lives: [Places -> Nat]] :
           w = window[c] /\ w.from <= now
    BY <1>2 DEF HistoryType
  <2>2. PICK w2 : w2 = [from |-> w.from,
                        granted |-> [p \in Places |-> w.granted[p] + Count(p = at /\ Admits(b, c))],
                        lives |-> [p \in Places |-> w.lives[p] + Count(p \in made)]]
    OBVIOUS
  <2>3. w2 \in [from: Nat, granted: [Places -> Nat], lives: [Places -> Nat]]
    BY <2>2 DEF Count
  <2>4. PICK p2 : p2 = IF Admits(b, c) THEN NoPromise ELSE [due |-> now + RetryAfter(b, c), at |-> at]
    OBVIOUS
  <2>5. p2 \in [due: Nat, at: Places \union {"none"}]
    BY <2>4, WaitIsHonest DEF NoPromise, BucketsType
  <2>6. window' = [window EXCEPT ![c] = w2] /\ promise' = [promise EXCEPT ![c] = p2]
    BY <1>2, <2>1, <2>2, <2>4 DEF Told
  <2>7. window' \in [Watched -> [from: Nat, granted: [Places -> Nat], lives: [Places -> Nat]]]
        /\ window'[c] = w2 /\ \A d \in Watched : d # c => window'[d] = window[d]
    BY <1>2, <2>3, <2>6 DEF HistoryType
  <2>8. promise' \in [Watched -> [due: Nat, at: Places \union {"none"}]]
        /\ promise'[c] = p2 /\ \A d \in Watched : d # c => promise'[d] = promise[d]
    BY <1>2, <2>5, <2>6 DEF HistoryType
  <2>9. w2.from = w.from
        /\ \A p \in Places : /\ w2.granted[p] = w.granted[p] + Count(p = at /\ Admits(b, c))
                             /\ w2.lives[p] = w.lives[p] + Count(p \in made)
    BY <2>2
  <2>10. \A d \in Watched : window'[d].from <= now'
    BY <2>1, <2>7, <2>9 DEF HistoryType
  <2>11. HistoryType'
    BY <2>7, <2>8, <2>10 DEF HistoryType
  <2> QED BY <2>1, <2>4, <2>7, <2>8, <2>9, <2>11
<1> QED BY <1>1, <1>2

\* A promise stands while its bucket does, and falls with it.
LEMMA PromiseStands ==
  ASSUME BucketsType, HistoryType, NEW c \in Watched, PromiseKept(c), promise'[c] = promise[c],
         \A at \in Places : Bucket(c, at)' \in {Bucket(c, at), NoBucket}
  PROVE  PromiseKept(c)'
<1>1. PICK p \in [due: Nat, at: Places \union {"none"}] : p = promise[c]
  BY DEF HistoryType
<1>2. CASE p.at = "none"
  BY <1>1, <1>2 DEF PromiseKept
<1>3. CASE p.at # "none"
  <2>1. p.at \in Places
    BY <1>3
  <2>2. CASE Bucket(c, p.at)' = Bucket(c, p.at)
    <3>1. PICK b : b = Bucket(c, p.at)
      OBVIOUS
    <3> QED BY <1>1, <2>2, <3>1 DEF PromiseKept
  <2>3. CASE Bucket(c, p.at)' = NoBucket
    BY <1>1, <2>3 DEF PromiseKept, NoBucket
  <2> QED BY <2>1, <2>2, <2>3
<1> QED BY <1>2, <1>3

\* A refusal promises what its bucket will hold.
LEMMA PromiseMade ==
  ASSUME BucketsType, NEW c \in Watched, NEW at \in Places, Rpm(c) # 0,
         Bucket(c, at)' = Spent(Bucket(c, at), c),
         promise'[c] = IF Admits(Bucket(c, at), c) THEN NoPromise
                       ELSE [due |-> now + RetryAfter(Bucket(c, at), c), at |-> at]
  PROVE  PromiseKept(c)'
<1>c. c \in Callers
  BY RateAssumption
<1>1. PICK b \in Buckets(c) : b = Bucket(c, at) /\ b.last <= now /\ now \in Nat
  BY <1>c, SpentRecord
<1>2. PICK s \in Buckets(c) : s = Spent(b, c) /\ s.last = now
  BY <1>c, <1>1, SpentIs
<1>3. CASE Admits(b, c)
  BY <1>1, <1>3 DEF PromiseKept, NoPromise
<1>4. CASE ~Admits(b, c)
  <2>1. PICK wait \in Nat : wait = RetryAfter(b, c) /\ s.tokens + wait * Rpm(c) >= Token
    BY <1>c, <1>1, <1>2, <1>4, WaitIsHonest
  <2>2. (promise[c].due)' = now + wait /\ (promise[c].at)' = at
    BY <1>1, <1>4, <2>1
  <2>3. Bucket(c, at)' = s
    BY <1>1, <1>2
  <2>4. s.last <= now + wait /\ (now + wait) - s.last = wait
    BY <1>1, <1>2, <2>1
  <2> QED BY <2>1, <2>2, <2>3, <2>4 DEF PromiseKept
<1> QED BY <1>3, <1>4

-----------------------------------------------------------------------------
\* One step per action.

LEMMA PlaceFacts ==
  Redis \in Places /\ Watched \subseteq Callers /\ \A r \in Replicas : r \in Places /\ r # Redis
  BY RateAssumption DEF Places

LEMMA CheckRedisKeeps ==
  ASSUME RateInv, NEW c \in Callers, CheckRedis(c)
  PROVE  RateInv'
<1>0. BucketsType /\ HistoryType
  BY DEF RateInv
<1>1. Rpm(c) # 0 /\ now' = now /\ local' = local /\ shared' = [shared EXCEPT ![c] = Spent(shared[c], c)]
      /\ expired' = expired \ {c}
  BY DEF CheckRedis, Unlimited
<1>2. PICK b \in Buckets(c) : b = Bucket(c, Redis) /\ b = shared[c] /\ b.last <= now /\ now \in Nat
  BY <1>0, PlaceFacts, SpentRecord DEF Bucket
<1>3. Spent(shared[c], c) \in Record /\ Spent(shared[c], c).live
  BY <1>0, PlaceFacts, SpentRecord DEF Bucket
<1>4. shared' \in [Callers -> Record] /\ shared'[c] = Spent(b, c)
      /\ \A d \in Callers : d # c => shared'[d] = shared[d]
  BY <1>0, <1>1, <1>2, <1>3 DEF BucketsType
<1>5. Bucket(c, Redis)' = Spent(Bucket(c, Redis), c) /\ Counted(c, Redis)'
  BY <1>2, <1>3, <1>4 DEF Bucket, Counted, FreshShared
<1>6. ASSUME NEW d \in Callers, NEW at \in Places, d # c \/ at # Redis
      PROVE  Bucket(d, at)' = Bucket(d, at) /\ Counted(d, at)' = Counted(d, at)
  BY <1>1, <1>4, <1>6 DEF Bucket, Counted, FreshShared
<1>7. BucketsType'
  <2>1. now' \in Nat /\ now' >= now /\ expired' \subseteq Callers /\ local' \in [Replicas -> [Callers -> Record]]
    BY <1>0, <1>1 DEF BucketsType
  <2>2. \A d \in expired' : ~shared'[d].live
    BY <1>0, <1>1, <1>4 DEF BucketsType
  <2>3. \A d \in Callers, at \in Places :
            \/ Bucket(d, at)' \in {Bucket(d, at), NoBucket}
            \/ Rpm(d) # 0 /\ Bucket(d, at)' = Spent(Bucket(d, at), d)
    BY <1>1, <1>5, <1>6
  <2> QED BY <1>0, <1>4, <2>1, <2>2, <2>3, BucketsKept
<1>8. PICK made : made = MadeShared(c)
  OBVIOUS
<1>9. Told(c, b, Redis, made)
  BY <1>2, <1>8 DEF CheckRedis
<1>10. /\ HistoryType'
       /\ \A d \in Watched : d # c => window'[d] = window[d] /\ promise'[d] = promise[d]
       /\ c \in Watched =>
              /\ window'[c].from = window[c].from
              /\ \A p \in Places :
                    /\ window'[c].granted[p] = window[c].granted[p] + Count(p = Redis /\ Admits(b, c))
                    /\ window'[c].lives[p] = window[c].lives[p] + Count(p \in made)
              /\ promise'[c] = IF Admits(b, c) THEN NoPromise
                               ELSE [due |-> now + RetryAfter(b, c), at |-> Redis]
  BY <1>0, <1>1, <1>2, <1>9, PlaceFacts, ToldIs
<1>11. ASSUME NEW d \in Watched PROVE PromiseKept(d)'
  <2>0. PromiseKept(d) /\ d \in Callers
    BY PlaceFacts DEF RateInv
  <2>1. CASE d = c
    BY <1>0, <1>1, <1>2, <1>5, <1>10, <2>1, PlaceFacts, PromiseMade
  <2>2. CASE d # c
    BY <1>0, <1>6, <1>10, <2>0, <2>2, PromiseStands
  <2> QED BY <2>1, <2>2
<1>12. ASSUME NEW d \in Watched, NEW at \in Places PROVE PaidAt(d, at)'
  <2>0. PaidAt(d, at) /\ d \in Callers /\ window[d].granted[at] \in Nat /\ window[d].lives[at] \in Nat
    BY <1>0, PlaceFacts DEF RateInv, HistoryType
  <2>1. CASE d # c
    BY <1>0, <1>1, <1>6, <1>10, <2>0, <2>1, IdlePays
  <2>2. CASE d = c /\ at # Redis
    <3>1. Count(at = Redis /\ Admits(b, c)) = 0 /\ Count(at \in made) = 0
      BY <1>8, <2>2 DEF Count, MadeShared
    <3>2. window'[d].granted[at] = window[d].granted[at] /\ window'[d].lives[at] = window[d].lives[at]
      BY <1>10, <2>0, <2>2, <3>1
    <3> QED BY <1>0, <1>1, <1>6, <1>10, <2>0, <2>2, <3>2, IdlePays
  <2>3. CASE d = c /\ at = Redis
    <3>1. Count(at \in made) = Count(~Counted(d, at))
      BY <1>8, <2>3 DEF Count, MadeShared, Counted
    <3>2. Count(at = Redis /\ Admits(b, c)) = Count(Admits(Bucket(d, at), d))
      BY <1>2, <2>3 DEF Count
    <3>3. /\ window'[d].lives[at] = window[d].lives[at] + Count(~Counted(d, at))
          /\ window'[d].granted[at] = window[d].granted[at] + Count(Admits(Bucket(d, at), d))
          /\ window'[d].from = window[d].from
      BY <1>10, <2>3, <3>1, <3>2
    <3> QED BY <1>0, <1>1, <1>5, <2>0, <2>3, <3>3, SpendPays
  <2> QED BY <2>1, <2>2, <2>3
<1> QED BY <1>7, <1>10, <1>11, <1>12 DEF RateInv

\* The script that ran although its answer was lost spends at both places.
LEMMA CheckFallbackKeeps ==
  ASSUME RateInv, NEW r \in Replicas, NEW c \in Callers, CheckFallback(r, c)
  PROVE  RateInv'
<1>0. BucketsType /\ HistoryType /\ r \in Places /\ r # Redis /\ Redis \in Places
  BY PlaceFacts DEF RateInv
<1>1. PICK kept : kept = ToSet(TouchedOrder(r, c))
  OBVIOUS
<1>2. Rpm(c) # 0 /\ now' = now /\
      local' = [local EXCEPT ![r] = [d \in Callers |->
                   IF d = c THEN Spent(local[r][c], c) ELSE IF d \in kept THEN local[r][d] ELSE NoBucket]]
  BY <1>1 DEF CheckFallback, CheckLocal, Unlimited
<1>3. PICK b \in Buckets(c) : b = Bucket(c, r) /\ b = local[r][c] /\ b.last <= now /\ now \in Nat
  BY <1>0, SpentRecord DEF Bucket
<1>4. PICK s \in Record : s = Spent(b, c) /\ s.live
  BY <1>0, <1>3, SpentRecord
<1>5. PICK row \in [Callers -> Record] :
         row = [d \in Callers |-> IF d = c THEN s ELSE IF d \in kept THEN local[r][d] ELSE NoBucket]
  BY <1>0, <1>4 DEF BucketsType, NoBucket, Record
<1>6. local' = [local EXCEPT ![r] = row]
  BY <1>2, <1>3, <1>4, <1>5
<1>7. /\ local' \in [Replicas -> [Callers -> Record]]
      /\ \A q \in Replicas : q # r => local'[q] = local[q]
      /\ local'[r][c] = s
      /\ \A d \in Callers : d # c => local'[r][d] \in {local[r][d], NoBucket}
  BY <1>0, <1>5, <1>6 DEF BucketsType
<1>8. PICK spent \in {{r}, {r, Redis}} :
         /\ Told(c, local[r][c], r, MadeLocal(r, c) \union (IF Redis \in spent THEN MadeShared(c) ELSE {}))
         /\ IF Redis \in spent
            THEN shared' = [shared EXCEPT ![c] = Spent(shared[c], c)] /\ expired' = expired \ {c}
            ELSE shared' = shared /\ expired' = expired
  <2>1. CASE /\ Told(c, local[r][c], r, MadeLocal(r, c))
             /\ UNCHANGED <<shared, expired>>
    <3>1. Redis \notin {r} /\ MadeLocal(r, c) \union {} = MadeLocal(r, c)
      BY <1>0
    <3> QED BY <2>1, <3>1
  <2>2. CASE /\ Told(c, local[r][c], r, MadeLocal(r, c) \union MadeShared(c))
             /\ shared' = [shared EXCEPT ![c] = Spent(shared[c], c)]
             /\ expired' = expired \ {c}
    BY <2>2
  <2> QED BY <2>1, <2>2 DEF CheckFallback
<1>9. PICK made : made = MadeLocal(r, c) \union (IF Redis \in spent THEN MadeShared(c) ELSE {})
  OBVIOUS
<1>10. \A at \in Places : at \in made <=> at \in spent /\ ~Counted(c, at)
  BY <1>0, <1>8, <1>9 DEF MadeLocal, MadeShared, Counted
<1>11. Spent(shared[c], c) \in Record /\ Spent(shared[c], c).live
  BY <1>0, SpentRecord DEF Bucket
<1>12. /\ shared' \in [Callers -> Record]
       /\ \A d \in Callers : d # c => shared'[d] = shared[d]
       /\ Redis \in spent => shared'[c] = Spent(shared[c], c)
       /\ Redis \notin spent => shared' = shared /\ expired' = expired
       /\ expired' \subseteq expired /\ \A d \in Callers : d # c => (d \in expired' <=> d \in expired)
       /\ Redis \in spent => c \notin expired'
  BY <1>0, <1>8, <1>11 DEF BucketsType
<1>13. ASSUME NEW at \in spent
       PROVE  at \in Places /\ Bucket(c, at)' = Spent(Bucket(c, at), c) /\ Counted(c, at)'
  <2>1. CASE at = r
    BY <1>0, <1>3, <1>4, <1>7, <2>1 DEF Bucket, Counted
  <2>2. CASE at = Redis
    BY <1>0, <1>11, <1>12, <1>13, <2>2 DEF Bucket, Counted, FreshShared
  <2> QED BY <1>8, <2>1, <2>2
<1>14. ASSUME NEW d \in Callers, NEW at \in Places, d # c \/ at \notin spent
       PROVE  \/ Bucket(d, at)' = Bucket(d, at) /\ Counted(d, at)' = Counted(d, at)
              \/ Bucket(d, at)' = NoBucket /\ Counted(d, at)' = FALSE
  <2>1. CASE at = Redis
    BY <1>12, <1>14, <2>1 DEF Bucket, Counted, FreshShared
  <2>2. CASE at \in Replicas /\ at # Redis /\ at # r
    BY <1>7, <2>2 DEF Bucket, Counted
  <2>3. CASE at = r
    <3>1. d # c
      BY <1>8, <1>14, <2>3
    <3>2. CASE local'[r][d] = local[r][d]
      BY <1>0, <2>3, <3>2 DEF Bucket, Counted
    <3>3. CASE local'[r][d] = NoBucket
      BY <1>0, <2>3, <3>3 DEF Bucket, Counted, NoBucket
    <3> QED BY <1>7, <3>1, <3>2, <3>3
  <2> QED BY <2>1, <2>2, <2>3 DEF Places
<1>15. BucketsType'
  <2>1. now' \in Nat /\ now' >= now /\ expired' \subseteq Callers
    BY <1>0, <1>2, <1>12 DEF BucketsType
  <2>2. \A d \in expired' : ~shared'[d].live
    BY <1>0, <1>8, <1>12 DEF BucketsType
  <2>3. \A d \in Callers, at \in Places :
            \/ Bucket(d, at)' \in {Bucket(d, at), NoBucket}
            \/ Rpm(d) # 0 /\ Bucket(d, at)' = Spent(Bucket(d, at), d)
    BY <1>2, <1>13, <1>14
  <2> QED BY <1>0, <1>7, <1>12, <2>1, <2>2, <2>3, BucketsKept
<1>16. /\ HistoryType'
       /\ \A d \in Watched : d # c => window'[d] = window[d] /\ promise'[d] = promise[d]
       /\ c \in Watched =>
              /\ window'[c].from = window[c].from
              /\ \A p \in Places :
                    /\ window'[c].granted[p] = window[c].granted[p] + Count(p = r /\ Admits(b, c))
                    /\ window'[c].lives[p] = window[c].lives[p] + Count(p \in made)
              /\ promise'[c] = IF Admits(b, c) THEN NoPromise
                               ELSE [due |-> now + RetryAfter(b, c), at |-> r]
  <2>1. Told(c, b, r, made)
    BY <1>3, <1>8, <1>9
  <2> QED BY <1>0, <1>2, <1>3, <2>1, ToldIs
<1>17. ASSUME NEW d \in Watched PROVE PromiseKept(d)'
  <2>0. PromiseKept(d) /\ d \in Callers
    BY PlaceFacts DEF RateInv
  <2>1. CASE d = c
    <3>1. Bucket(c, r)' = Spent(Bucket(c, r), c)
      BY <1>8, <1>13
    <3> QED BY <1>0, <1>2, <1>3, <1>16, <2>1, <3>1, PromiseMade
  <2>2. CASE d # c
    BY <1>0, <1>14, <1>16, <2>0, <2>2, PromiseStands
  <2> QED BY <2>1, <2>2
<1>18. ASSUME NEW d \in Watched, NEW at \in Places PROVE PaidAt(d, at)'
  <2>0. PaidAt(d, at) /\ d \in Callers /\ window[d].granted[at] \in Nat /\ window[d].lives[at] \in Nat
    BY <1>0, PlaceFacts DEF RateInv, HistoryType
  <2>1. CASE d # c
    BY <1>0, <1>2, <1>14, <1>16, <2>0, <2>1, IdlePays
  <2>2. CASE d = c /\ at \notin spent
    <3>1. Count(at = r /\ Admits(b, c)) = 0 /\ Count(at \in made) = 0
      BY <1>8, <1>10, <2>2 DEF Count
    <3>2. window'[d].granted[at] = window[d].granted[at] /\ window'[d].lives[at] = window[d].lives[at]
      BY <1>16, <2>0, <2>2, <3>1
    <3> QED BY <1>0, <1>2, <1>14, <1>16, <2>0, <2>2, <3>2, IdlePays
  <2>3. CASE d = c /\ at \in spent
    <3>1. Count(at \in made) = Count(~Counted(d, at))
      BY <1>10, <2>3 DEF Count
    <3>2. Count(at = r /\ Admits(b, c)) \in {0, Count(Admits(Bucket(d, at), d))}
      BY <1>3, <2>3 DEF Count
    <3>3. /\ window'[d].lives[at] = window[d].lives[at] + Count(~Counted(d, at))
          /\ window'[d].granted[at] \in {window[d].granted[at],
                                         window[d].granted[at] + Count(Admits(Bucket(d, at), d))}
          /\ window'[d].from = window[d].from
      BY <1>16, <2>0, <2>3, <3>1, <3>2
    <3> QED BY <1>0, <1>2, <1>13, <2>0, <2>3, <3>3, SpendPays
  <2> QED BY <2>1, <2>2, <2>3
<1> QED BY <1>15, <1>16, <1>17, <1>18 DEF RateInv

\* Buckets that are only dropped, without a word to anybody.
LEMMA DropKeeps ==
  ASSUME RateInv, now' = now, window' = window, promise' = promise,
         shared' \in [Callers -> Record], local' \in [Replicas -> [Callers -> Record]],
         expired' \subseteq Callers, \A d \in expired' : ~shared'[d].live,
         \A d \in Callers, at \in Places :
            \/ Bucket(d, at)' = Bucket(d, at) /\ Counted(d, at)' = Counted(d, at)
            \/ Bucket(d, at)' = NoBucket /\ Counted(d, at)' = FALSE
  PROVE  RateInv'
<1>0. BucketsType /\ HistoryType
  BY DEF RateInv
<1>1. BucketsType'
  <2>1. now' \in Nat /\ now' >= now
    BY <1>0 DEF BucketsType
  <2>2. \A d \in Callers, at \in Places :
            \/ Bucket(d, at)' \in {Bucket(d, at), NoBucket}
            \/ Rpm(d) # 0 /\ Bucket(d, at)' = Spent(Bucket(d, at), d)
    OBVIOUS
  <2> QED BY <1>0, <2>1, <2>2, BucketsKept
<1>2. HistoryType'
  BY <1>0 DEF HistoryType
<1>3. ASSUME NEW c \in Watched PROVE PromiseKept(c)'
  <2>1. PromiseKept(c) /\ c \in Callers
    BY PlaceFacts DEF RateInv
  <2>2. \A at \in Places : Bucket(c, at)' \in {Bucket(c, at), NoBucket}
    BY <2>1
  <2> QED BY <1>0, <2>1, <2>2, PromiseStands
<1>4. ASSUME NEW c \in Watched, NEW at \in Places PROVE PaidAt(c, at)'
  <2>1. PaidAt(c, at) /\ c \in Callers
    BY PlaceFacts DEF RateInv
  <2> QED BY <1>0, <2>1, IdlePays
<1> QED BY <1>1, <1>2, <1>3, <1>4 DEF RateInv

LEMMA ClearLocalIs ==
  ASSUME BucketsType, NEW r \in Replicas, ClearLocal(r)
  PROVE  /\ local' \in [Replicas -> [Callers -> Record]]
         /\ \A d \in Callers, q \in Replicas : local'[q][d] = local[q][d] \/ local'[q][d] = NoBucket
<1>1. PICK row \in [Callers -> Record] : row = [c \in Callers |-> NoBucket]
  BY DEF NoBucket, Record
<1>2. local' = [local EXCEPT ![r] = row]
  BY <1>1 DEF ClearLocal
<1> QED BY <1>1, <1>2 DEF BucketsType

LEMMA ResetKeeps ==
  ASSUME RateInv, NEW r \in Replicas, Reset(r)
  PROVE  RateInv'
<1>0. BucketsType
  BY DEF RateInv
<1>1. PICK deleted \in SUBSET Callers :
         /\ shared' = [c \in Callers |-> IF c \in deleted THEN NoBucket ELSE shared[c]]
         /\ expired' = expired \ deleted
  BY DEF Reset
<1>2. ClearLocal(r) /\ now' = now /\ window' = window /\ promise' = promise
  BY DEF Reset
<1>3. /\ local' \in [Replicas -> [Callers -> Record]]
      /\ \A d \in Callers, q \in Replicas : local'[q][d] = local[q][d] \/ local'[q][d] = NoBucket
  BY <1>0, <1>2, ClearLocalIs
<1>4. NoBucket \in Record
  BY DEF NoBucket, Record
<1>5. shared' \in [Callers -> Record] /\ expired' \subseteq Callers /\ \A d \in expired' : ~shared'[d].live
  BY <1>0, <1>1, <1>4 DEF BucketsType
<1>6. ASSUME NEW d \in Callers, NEW at \in Places
      PROVE  \/ Bucket(d, at)' = Bucket(d, at) /\ Counted(d, at)' = Counted(d, at)
             \/ Bucket(d, at)' = NoBucket /\ Counted(d, at)' = FALSE
  <2>1. CASE at = Redis
    BY <1>1, <2>1 DEF Bucket, Counted, FreshShared, NoBucket
  <2>2. CASE at # Redis /\ at \in Replicas
    BY <1>3, <2>2 DEF Bucket, Counted, NoBucket
  <2> QED BY <2>1, <2>2 DEF Places
<1> QED BY <1>2, <1>3, <1>5, <1>6, DropKeeps

LEMMA RestartKeeps ==
  ASSUME RateInv, NEW r \in Replicas, Restart(r)
  PROVE  RateInv'
<1>0. BucketsType
  BY DEF RateInv
<1>1. /\ ClearLocal(r) /\ now' = now /\ window' = window /\ promise' = promise
      /\ shared' = shared /\ expired' = expired
  BY DEF Restart
<1>2. /\ local' \in [Replicas -> [Callers -> Record]]
      /\ \A d \in Callers, q \in Replicas : local'[q][d] = local[q][d] \/ local'[q][d] = NoBucket
  BY <1>0, <1>1, ClearLocalIs
<1>3. shared' \in [Callers -> Record] /\ expired' \subseteq Callers /\ \A d \in expired' : ~shared'[d].live
  BY <1>0, <1>1 DEF BucketsType
<1>4. ASSUME NEW d \in Callers, NEW at \in Places
      PROVE  \/ Bucket(d, at)' = Bucket(d, at) /\ Counted(d, at)' = Counted(d, at)
             \/ Bucket(d, at)' = NoBucket /\ Counted(d, at)' = FALSE
  <2>1. CASE at = Redis
    BY <1>1, <2>1 DEF Bucket, Counted, FreshShared
  <2>2. CASE at # Redis /\ at \in Replicas
    BY <1>2, <2>2 DEF Bucket, Counted, NoBucket
  <2> QED BY <2>1, <2>2 DEF Places
<1> QED BY <1>1, <1>2, <1>3, <1>4, DropKeeps

LEMMA ExpireKeeps ==
  ASSUME RateInv, NEW c \in Callers, Expire(c)
  PROVE  RateInv'
<1>0. BucketsType /\ HistoryType
  BY DEF RateInv
<1>1. /\ shared' = [shared EXCEPT ![c] = NoBucket] /\ expired' = expired \union {c}
      /\ now' = now /\ local' = local /\ window' = window /\ promise' = promise
  BY DEF Expire
<1>2. shared' \in [Callers -> Record] /\ shared'[c] = NoBucket
      /\ \A d \in Callers : d # c => shared'[d] = shared[d]
  BY <1>0, <1>1 DEF BucketsType, NoBucket, Record
<1>3. ASSUME NEW d \in Callers, NEW at \in Places, d # c \/ at # Redis
      PROVE  Bucket(d, at)' = Bucket(d, at) /\ Counted(d, at)' = Counted(d, at)
  BY <1>1, <1>2, <1>3 DEF Bucket, Counted, FreshShared
<1>4. Bucket(c, Redis)' = NoBucket
  BY <1>2 DEF Bucket
<1>5. BucketsType'
  <2>1. now' \in Nat /\ now' >= now /\ expired' \subseteq Callers /\ local' \in [Replicas -> [Callers -> Record]]
    BY <1>0, <1>1 DEF BucketsType
  <2>2. \A d \in expired' : ~shared'[d].live
    BY <1>0, <1>1, <1>2 DEF BucketsType, NoBucket
  <2>3. \A d \in Callers, at \in Places :
            \/ Bucket(d, at)' \in {Bucket(d, at), NoBucket}
            \/ Rpm(d) # 0 /\ Bucket(d, at)' = Spent(Bucket(d, at), d)
    BY <1>3, <1>4
  <2> QED BY <1>0, <1>2, <2>1, <2>2, <2>3, BucketsKept
<1>6. HistoryType'
  BY <1>0, <1>1 DEF HistoryType
<1>7. ASSUME NEW d \in Watched PROVE PromiseKept(d)'
  <2>1. PromiseKept(d) /\ d \in Callers
    BY PlaceFacts DEF RateInv
  <2>2. \A at \in Places : Bucket(d, at)' \in {Bucket(d, at), NoBucket}
    BY <1>3, <1>4, <2>1
  <2> QED BY <1>0, <1>1, <2>1, <2>2, PromiseStands
<1>8. ASSUME NEW d \in Watched, NEW at \in Places PROVE PaidAt(d, at)'
  <2>1. PaidAt(d, at) /\ d \in Callers
    BY PlaceFacts DEF RateInv
  <2>2. CASE d = c /\ at = Redis
    BY <1>0, <2>1, <2>2, ExpirePays
  <2>3. CASE d # c \/ at # Redis
    BY <1>0, <1>1, <1>3, <2>1, <2>3, IdlePays
  <2> QED BY <2>2, <2>3
<1> QED BY <1>5, <1>6, <1>7, <1>8 DEF RateInv

LEMMA OpenWindowKeeps ==
  ASSUME RateInv, NEW c \in Watched, OpenWindow(c)
  PROVE  RateInv'
<1>0. BucketsType /\ HistoryType
  BY DEF RateInv
<1>1. UNCHANGED <<now, shared, expired, local, promise>>
  BY DEF OpenWindow
<1>2. PICK w : w = [from |-> now, granted |-> [at \in Places |-> 0],
                    lives |-> [at \in Places |->
                                 Count(IF at = Redis THEN ~FreshShared(c) ELSE local[at][c].live)]]
  OBVIOUS
<1>3. w \in [from: Nat, granted: [Places -> Nat], lives: [Places -> Nat]] /\ w.from = now
  BY <1>0, <1>2 DEF BucketsType, Count
<1>4. window' = [window EXCEPT ![c] = w]
  BY <1>2 DEF OpenWindow
<1>5. /\ window' \in [Watched -> [from: Nat, granted: [Places -> Nat], lives: [Places -> Nat]]]
      /\ window'[c].from = now
      /\ \A d \in Watched : d # c => window'[d] = window[d]
  BY <1>0, <1>3, <1>4 DEF HistoryType
<1>6. now' \in Nat /\ \A d \in Watched : window'[d].from <= now'
  <2>1. now \in Nat /\ now' = now
    BY <1>0, <1>1 DEF BucketsType
  <2>2. ASSUME NEW d \in Watched PROVE window'[d].from <= now'
    <3>1. CASE d = c
      BY <1>5, <2>1, <3>1
    <3>2. CASE d # c
      BY <1>0, <1>5, <2>1, <3>2 DEF HistoryType
    <3> QED BY <3>1, <3>2
  <2> QED BY <2>1, <2>2
<1>7. BucketsType' /\ HistoryType'
  <2>1. \A d \in Callers, at \in Places : Bucket(d, at)' = Bucket(d, at)
    BY <1>1 DEF Bucket
  <2> QED BY <1>0, <1>1, <1>5, <1>6, <2>1 DEF BucketsType, HistoryType
<1>8. ASSUME NEW d \in Watched PROVE PromiseKept(d)'
  <2>1. \A at \in Places : Bucket(d, at)' \in {Bucket(d, at), NoBucket}
    BY <1>1 DEF Bucket
  <2> QED BY <1>0, <1>1, <2>1, PromiseStands DEF RateInv
<1>9. ASSUME NEW d \in Watched, NEW at \in Places PROVE PaidAt(d, at)'
  <2>1. CASE d = c
    BY <1>0, <2>1, OpenPays
  <2>2. CASE d # c
    <3>1. Bucket(d, at)' = Bucket(d, at) /\ Counted(d, at)' = Counted(d, at)
      BY <1>1 DEF Bucket, Counted, FreshShared
    <3> QED BY <1>0, <1>1, <1>5, <2>2, <3>1, IdlePays DEF RateInv
  <2> QED BY <2>1, <2>2
<1> QED BY <1>7, <1>8, <1>9 DEF RateInv

LEMMA TickKeeps ==
  ASSUME RateInv, Tick
  PROVE  RateInv'
<1>0. BucketsType /\ HistoryType
  BY DEF RateInv
<1>1. now' = now + 1 /\ UNCHANGED <<shared, expired, local, window, promise>> /\ now \in Nat
  BY <1>0 DEF Tick, BucketsType
<1>2. \A d \in Callers, at \in Places : Bucket(d, at)' \in {Bucket(d, at), NoBucket}
  BY <1>1 DEF Bucket
<1>3. BucketsType'
  <2>1. now' \in Nat /\ now' >= now
    BY <1>1
  <2>2. /\ expired' \subseteq Callers /\ shared' \in [Callers -> Record]
        /\ local' \in [Replicas -> [Callers -> Record]] /\ \A d \in expired' : ~shared'[d].live
    BY <1>0, <1>1 DEF BucketsType
  <2> QED BY <1>0, <1>2, <2>1, <2>2, BucketsKept
<1>4. HistoryType'
  BY <1>0, <1>1 DEF HistoryType
<1>5. ASSUME NEW d \in Watched PROVE PromiseKept(d)'
  <2>1. PromiseKept(d) /\ d \in Callers
    BY PlaceFacts DEF RateInv
  <2> QED BY <1>0, <1>1, <1>2, <2>1, PromiseStands
<1>6. ASSUME NEW d \in Watched, NEW at \in Places PROVE PaidAt(d, at)'
  BY <1>0, TickPays DEF RateInv
<1> QED BY <1>3, <1>4, <1>5, <1>6 DEF RateInv

-----------------------------------------------------------------------------
LEMMA RateInit == Init => RateInv
<1> SUFFICES ASSUME Init PROVE RateInv
  OBVIOUS
<1>1. \A c \in Callers, at \in Places : Bucket(c, at) = NoBucket /\ ~Counted(c, at)
  <2>1. ASSUME NEW c \in Callers, NEW at \in Places PROVE Bucket(c, at) = NoBucket /\ ~Counted(c, at)
    <3>1. CASE at = Redis
      BY <3>1 DEF Init, Bucket, Counted, FreshShared, NoBucket
    <3>2. CASE at # Redis /\ at \in Replicas
      BY <3>2 DEF Init, Bucket, Counted, NoBucket
    <3> QED BY <3>1, <3>2 DEF Places
  <2> QED BY <2>1
<1>2. NoBucket \in Record /\ NoBucket.last = 0 /\ ~NoBucket.live /\ \A c \in Callers : NoBucket \in Buckets(c)
  BY RateType DEF NoBucket, Record, Buckets
<1>3. BucketsType
  BY <1>1, <1>2 DEF BucketsType, Init
<1>4. HistoryType
  BY <1>3 DEF HistoryType, Init, NoPromise
<1>5. ASSUME NEW c \in Watched PROVE PromiseKept(c)
  BY <1>5 DEF PromiseKept, Init, NoPromise
<1>6. ASSUME NEW c \in Watched, NEW at \in Places PROVE PaidAt(c, at)
  <2>1. ~Counted(c, at) /\ Level(c, at) = 0
    BY <1>1, PlaceFacts DEF Level
  <2>2. window[c].granted[at] = 0 /\ window[c].lives[at] = 0
    BY DEF Init
  <2>3. PICK e \in Nat : e = Allowance(c)
    BY <1>3, <1>4, AllowanceType
  <2> QED BY <2>1, <2>2, <2>3 DEF PaidAt, Token
<1> QED BY <1>3, <1>4, <1>5, <1>6 DEF RateInv

LEMMA RateStep == RateInv /\ [Next]_vars => RateInv'
<1> SUFFICES ASSUME RateInv, [Next]_vars PROVE RateInv'
  OBVIOUS
<1>1. CASE UNCHANGED vars
  BY <1>1 DEF vars, RateInv, BucketsType, HistoryType, PromiseKept, PaidAt, Bucket, Counted,
              FreshShared, Level, Allowance
<1>2. ASSUME NEW c \in Callers, CheckRedis(c) PROVE RateInv'
  BY <1>2, CheckRedisKeeps
<1>3. ASSUME NEW c \in Callers, NEW r \in Replicas, CheckFallback(r, c) PROVE RateInv'
  BY <1>3, CheckFallbackKeeps
<1>4. ASSUME NEW c \in Callers, Expire(c) PROVE RateInv'
  BY <1>4, ExpireKeeps
<1>5. ASSUME NEW c \in Watched, OpenWindow(c) PROVE RateInv'
  BY <1>5, OpenWindowKeeps
<1>6. ASSUME NEW r \in Replicas, Reset(r) PROVE RateInv'
  BY <1>6, ResetKeeps
<1>7. ASSUME NEW r \in Replicas, Restart(r) PROVE RateInv'
  BY <1>7, RestartKeeps
<1>8. CASE Tick
  BY <1>8, TickKeeps
<1> QED BY <1>1, <1>2, <1>3, <1>4, <1>5, <1>6, <1>7, <1>8 DEF Next

LEMMA RateInvariant == Spec => []RateInv
  BY RateInit, RateStep, PTL DEF Spec

\* check: in any window of time, at any rates and with any faults, a caller's
\* admissions at a place are paid by the buckets it had there, each full once and
\* refilled at its rate.
THEOREM LimitHolds == Spec => []WindowBounded
<1>1. RateInv => WindowBounded
  <2> SUFFICES ASSUME RateInv, NEW c \in Watched, NEW at \in Places
               PROVE  window[c].granted[at] * Token
                         <= window[c].lives[at] * (Capacity(c) + (now - window[c].from) * Rpm(c))
    BY DEF WindowBounded
  <2>1. BucketsType /\ HistoryType /\ c \in Callers
    BY PlaceFacts DEF RateInv
  <2>2. PICK v \in 0 .. Capacity(c) : v = Level(c, at)
    BY <2>1, LevelType
  <2>3. v \in Nat
    BY <2>1, RateType
  <2>4. PICK g \in Nat, l \in Nat, e \in Nat :
           g = window[c].granted[at] /\ l = window[c].lives[at] /\ e = Allowance(c)
    BY <2>1, AllowanceType DEF HistoryType
  <2>5. PICK paid \in Nat : paid = l * e
    BY <2>4
  <2>6. g * Token + v <= paid
    BY <2>2, <2>4, <2>5 DEF RateInv, PaidAt
  <2>7. g * Token <= l * e
    BY <2>3, <2>5, <2>6 DEF Token
  <2> QED BY <2>4, <2>7 DEF Allowance
<1> QED BY <1>1, RateInvariant, PTL

\* check, retry_after: a refused caller that waits as long as it was told, at any
\* rate, and asks where it was refused, is admitted, whoever else has called,
\* whatever was evicted, expired or reset meanwhile.
THEOREM WaitsAreHonest == Spec => []RetryAfterHonest
<1>1. RateInv => RetryAfterHonest
  <2> SUFFICES ASSUME RateInv, NEW c \in Watched, promise[c].at # "none", now >= promise[c].due
               PROVE  Admits(Bucket(c, promise[c].at), c)
    BY DEF RetryAfterHonest, Bucket
  <2>1. BucketsType /\ HistoryType /\ c \in Callers /\ PromiseKept(c)
    BY PlaceFacts DEF RateInv
  <2>2. PICK p \in [due: Nat, at: Places \union {"none"}] : p = promise[c]
    BY <2>1 DEF HistoryType
  <2>3. p.at \in Places
    BY <2>2
  <2>4. PICK b \in Buckets(c) : b = Bucket(c, p.at) /\ b.last <= now /\ now \in Nat
    BY <2>1, <2>3, SpentRecord
  <2>5. PICK f \in Nat : f = Refilled(b, c).tokens /\ f = (IF b.live THEN Full(b, c, now) ELSE Capacity(c))
    BY <2>1, <2>4, RefilledIs, RateType DEF Buckets
  <2>6. CASE ~b.live
    BY <2>1, <2>2, <2>4, <2>5, <2>6, RateType DEF Admits
  <2>7. CASE b.live
    <3>1. b.last <= p.due /\ b.tokens + (p.due - b.last) * Rpm(c) >= Token
      BY <2>1, <2>2, <2>4, <2>7 DEF PromiseKept
    <3>2. PICK early \in Nat, late \in Nat : early = p.due - b.last /\ late = now - b.last /\ early <= late
      BY <2>2, <2>4, <3>1 DEF Buckets
    <3>3. PICK x \in Nat, y \in Nat : x = early * Rpm(c) /\ y = late * Rpm(c) /\ x <= y
      BY <2>1, <3>2, MulMonotone, RateType
    <3>4. b.tokens \in Nat /\ b.tokens + x >= Token /\ Capacity(c) >= Token /\ Capacity(c) \in Nat
      BY <2>1, <3>1, <3>2, <3>3, RateType DEF Buckets
    <3>5. f = MinOf(Capacity(c), b.tokens + y)
      BY <2>5, <2>7, <3>2, <3>3 DEF Full
    <3>6. f >= Token
      BY <3>3, <3>4, <3>5 DEF MinOf, Token
    <3> QED BY <2>2, <2>4, <2>5, <3>6 DEF Admits
  <2> QED BY <2>6, <2>7
<1> QED BY <1>1, RateInvariant, PTL
=============================================================================
