---------------------------- MODULE MarketProofs ----------------------------
(***************************************************************************)
(* Theorems about Market, for all pools, virtual reserves, supplies and    *)
(* rates that satisfy MarketAssumption: what a pool is short of was left   *)
(* unpaid by direct callers, rounding never works against a pool, the      *)
(* virtual floor stands in the way of no pool whose swaps were paid, and   *)
(* the accumulator holds what it owes.                                     *)
(***************************************************************************)
EXTENDS Market, Sums

(***************************************************************************)
(* Arithmetic                                                              *)
(***************************************************************************)

\* Division by a positive number rounds down to a natural number.
LEMMA DivFloor ==
  ASSUME NEW n \in Nat, NEW d \in Nat \ {0}
  PROVE  /\ n \div d \in Nat
         /\ d * (n \div d) <= n
         /\ n < d * (n \div d + 1)
  BY Z3

\* A product with one factor grown.
LEMMA Mono ==
  ASSUME NEW a \in Nat, NEW b \in Nat, NEW c \in Nat, a <= b
  PROVE  a * c <= b * c
  BY SMT

\* A positive factor is cancelled.
LEMMA Cancel ==
  ASSUME NEW a \in Int, NEW b \in Int, NEW c \in Nat \ {0}, a * c <= b * c
  PROVE  a <= b
  BY SMT

\* A product is commutative.
LEMMA Commute ==
  ASSUME NEW a \in Int, NEW b \in Int
  PROVE  a * b = b * a
  BY SMT

\* A share at a rate below the whole is at most the amount.
LEMMA Shrink ==
  ASSUME NEW a \in Nat, NEW r \in Nat, NEW b \in Nat \ {0}, r < b,
         NEW q \in Nat, b * q <= a * r
  PROVE  q <= a
  BY SMT

\* What is left of one reserve, times the other one grown, is at least their
\* product, when the amount paid out is rounded down.
LEMMA Kept ==
  ASSUME NEW i \in Nat, NEW o \in Nat, NEW x \in Nat, NEW q \in Nat,
         (i + x) * q <= o * x
  PROVE  (o - q) * (i + x) >= o * i
  BY SMT

\* A share is a natural number no greater than the amount.
LEMMA ShareOK ==
  ASSUME NEW a \in Nat, NEW r \in Rates
  PROVE  Share(a, r) \in Nat /\ Share(a, r) <= a
<1>1. /\ Bps \in Nat \ {0} /\ r \in Nat /\ r < Bps
  BY MarketAssumption DEF MarketAssumption, Rates
<1>2. a * r \in Nat
  BY <1>1
<1>3. /\ Share(a, r) \in Nat
      /\ Bps * Share(a, r) <= a * r
  BY <1>1, <1>2, DivFloor DEF Share
<1> QED
  BY <1>1, <1>3, Shrink

\* An input is split into the optical's share, the fee and what is traded.
LEMMA SplitOK ==
  ASSUME NEW a \in Nat, NEW tax \in Rates, NEW rate \in Rates
  PROVE  /\ Taxed(a, tax) \in Nat /\ Taxed(a, tax) <= a
         /\ Fee(a, tax, rate) \in Nat
         /\ Net(a, tax, rate) \in Nat /\ Net(a, tax, rate) <= Taxed(a, tax)
         /\ Net(a, tax, rate) + Fee(a, tax, rate) = Taxed(a, tax)
<1>1. /\ Taxed(a, tax) \in Nat /\ Taxed(a, tax) <= a
  BY ShareOK DEF Taxed
<1>2. /\ Fee(a, tax, rate) \in Nat /\ Fee(a, tax, rate) <= Taxed(a, tax)
  BY <1>1, ShareOK DEF Fee
<1> QED
  BY <1>1, <1>2 DEF Net

\* What getAmountOut answers never takes a reserve below zero, nor the
\* product of the reserves below what it was.
LEMMA OutOK ==
  ASSUME NEW i \in Nat \ {0}, NEW o \in Nat, NEW x \in Nat
  PROVE  /\ AmountOut(i, o, x) \in Nat
         /\ AmountOut(i, o, x) <= o
         /\ (o - AmountOut(i, o, x)) * (i + x) >= o * i
<1> DEFINE q == AmountOut(i, o, x)
<1>1. o * x \in Nat /\ o * i \in Nat /\ i + x \in Nat \ {0}
  OBVIOUS
<1>2. q \in Nat /\ (i + x) * q <= o * x
  BY <1>1, DivFloor DEF AmountOut
<1>3. (o - q) * (i + x) >= o * i
  BY <1>2, Kept
<1>4. 0 * (i + x) <= (o - q) * (i + x)
  BY <1>1, <1>2, <1>3
<1>5. 0 <= o - q
  BY <1>1, <1>2, <1>4, Cancel
<1> QED
  BY <1>2, <1>3, <1>5

(***************************************************************************)
(* One pool                                                                *)
(***************************************************************************)

\* A pool with virtual reserve v and supply s that holds the USDL u and the
\* tokens t, prices with e and k of them, and has o tokens outside, when direct
\* callers left the USDL mu and the tokens mt unpaid: it is short by no more than
\* that, no token is lost, and as long as all was paid the product of the
\* effective reserves is at least the one it was created with.
Fine(v, s, u, e, t, k, o, mu, mt) ==
  /\ u \in Nat /\ e \in Nat /\ t \in Nat /\ k \in Nat /\ o \in Nat
  /\ mu \in Nat /\ mt \in Nat
  /\ e <= u + mu /\ k <= t + mt
  /\ t + o = s
  /\ mu = 0 /\ mt = 0 => (v + e) * k >= v * s

\* The product of the effective reserves.
Curve(v, e, k) == (v + e) * k

\* What an input lacks is at least what neither deposit nor spare covers.
LEMMA MissingOK ==
  ASSUME NEW input \in Nat, NEW deposit \in Nat, NEW spare \in Int
  PROVE  /\ Missing(input, deposit, spare) \in Nat
         /\ \A gap \in Nat : spare + gap >= 0 =>
              input <= deposit + spare + gap + Missing(input, deposit, spare)
<1>1. \A n \in Int : Positive(n) \in Nat /\ Positive(n) >= n
  BY DEF Positive
<1>2. input - deposit - Positive(spare) \in Int
  BY <1>1
<1>3. /\ Missing(input, deposit, spare) \in Nat
      /\ Missing(input, deposit, spare) >= input - deposit - Positive(spare)
  BY <1>1, <1>2 DEF Missing
<1>4. Positive(spare) = IF spare > 0 THEN spare ELSE 0
  BY DEF Positive
<1> QED
  BY <1>3, <1>4

\* Two reserves that both grow have a greater product.
LEMMA BothGrow ==
  ASSUME NEW v \in Nat, NEW e \in Nat, NEW k \in Nat, NEW e2 \in Nat, NEW k2 \in Nat,
         e <= e2, k <= k2
  PROVE  (v + e2) * k2 >= (v + e) * k
<1>1. (v + e) * k <= (v + e2) * k
  BY Mono
<1>2. k * (v + e2) <= k2 * (v + e2)
  BY Mono
<1>3. (v + e2) * k <= (v + e2) * k2
  BY <1>2, Commute
<1>4. (v + e) * k \in Int /\ (v + e2) * k \in Int /\ (v + e2) * k2 \in Int
  OBVIOUS
<1> QED
  BY <1>1, <1>3, <1>4

\* A purchase: n is added to the reserve and a to the balance, which lacks m of
\* what it should be more.
LEMMA FineBuy ==
  ASSUME NEW v \in Nat \ {0}, NEW s \in Nat \ {0}, NEW u, NEW e, NEW t, NEW k, NEW o,
         NEW mu, NEW mt, Fine(v, s, u, e, t, k, o, mu, mt),
         NEW a \in Int, NEW n \in Nat, NEW m \in Nat,
         u + a \in Nat, e + n <= (u + a) + (mu + m),
         NEW q, q = AmountOut(v + e, k, n), q <= t
  PROVE  /\ q \in Nat /\ q <= k
         /\ Fine(v, s, u + a, e + n, t + -q, k + -q, o + q, mu + m, mt)
         /\ Curve(v, e + n, k + -q) >= Curve(v, e, k)
<1>1. /\ u \in Nat /\ e \in Nat /\ t \in Nat /\ k \in Nat /\ o \in Nat
      /\ mu \in Nat /\ mt \in Nat
      /\ k <= t + mt /\ t + o = s
      /\ mu = 0 /\ mt = 0 => (v + e) * k >= v * s
  BY DEF Fine
<1>2. v + e \in Nat \ {0}
  BY <1>1
<1>3. /\ q \in Nat /\ q <= k /\ q <= t
      /\ (k - q) * ((v + e) + n) >= k * (v + e)
  BY <1>1, <1>2, OutOK
<1>4. /\ k - q \in Int /\ k + -q = k - q /\ v + (e + n) = (v + e) + n
      /\ (v + e) + n \in Int
  BY <1>1, <1>3
<1>5. (v + (e + n)) * (k + -q) >= (v + e) * k
  BY <1>1, <1>2, <1>3, <1>4, Commute
<1>6. /\ v * s \in Int /\ (v + e) * k \in Int /\ (v + (e + n)) * (k + -q) \in Int
  BY <1>1, <1>4
<1>7. mu + m = 0 /\ mt = 0 => (v + (e + n)) * (k + -q) >= v * s
  <2> SUFFICES ASSUME mu + m = 0, mt = 0 PROVE (v + (e + n)) * (k + -q) >= v * s
    OBVIOUS
  <2>1. mu = 0
    BY <1>1
  <2> QED
    BY <1>1, <1>5, <1>6, <2>1
<1>8. /\ e + n \in Nat /\ t + -q \in Nat /\ k + -q \in Nat /\ o + q \in Nat
      /\ mu + m \in Nat
      /\ k + -q <= (t + -q) + mt /\ (t + -q) + (o + q) = s
  BY <1>1, <1>3
<1>9. Fine(v, s, u + a, e + n, t + -q, k + -q, o + q, mu + m, mt)
  BY <1>1, <1>7, <1>8 DEF Fine
<1> QED
  BY <1>3, <1>5, <1>9 DEF Curve

\* A sale: x is added to the reserve, of which at most x is traded, and a to the
\* balance, which lacks m of what it should be more.
LEMMA FineSell ==
  ASSUME NEW v \in Nat \ {0}, NEW s \in Nat \ {0}, NEW u, NEW e, NEW t, NEW k, NEW o,
         NEW mu, NEW mt, Fine(v, s, u, e, t, k, o, mu, mt), k > 0,
         NEW a \in Nat, NEW x \in Nat, NEW n \in Nat, NEW m \in Nat,
         n <= x, a <= o, k + x <= (t + a) + (mt + m),
         NEW q, q = AmountOut(k, v + e, n), q <= e, q <= u
  PROVE  /\ q \in Nat
         /\ Fine(v, s, u + -q, e + -q, t + a, k + x, o + -a, mu, mt + m)
         /\ Curve(v, e + -q, k + x) >= Curve(v, e, k)
<1>1. /\ u \in Nat /\ e \in Nat /\ t \in Nat /\ k \in Nat /\ o \in Nat
      /\ mu \in Nat /\ mt \in Nat
      /\ e <= u + mu /\ t + o = s
      /\ mu = 0 /\ mt = 0 => (v + e) * k >= v * s
  BY DEF Fine
<1>2. k \in Nat \ {0} /\ v + e \in Nat
  BY <1>1
<1>3. /\ q \in Nat /\ q <= e /\ q <= u
      /\ ((v + e) - q) * (k + n) >= (v + e) * k
  BY <1>2, OutOK
<1>4. /\ (v + e) - q \in Nat /\ k + n \in Nat /\ k + x \in Nat /\ k + n <= k + x
      /\ v + (e + -q) = (v + e) - q
  BY <1>1, <1>3
<1>5. (k + n) * ((v + e) - q) <= (k + x) * ((v + e) - q)
  BY <1>4, Mono
<1>6. ((v + e) - q) * (k + n) <= ((v + e) - q) * (k + x)
  BY <1>4, <1>5, Commute
<1>7. /\ ((v + e) - q) * (k + n) \in Int /\ ((v + e) - q) * (k + x) \in Int
      /\ (v + e) * k \in Int /\ v * s \in Int
  BY <1>1, <1>4
<1>8. (v + (e + -q)) * (k + x) >= (v + e) * k
  BY <1>3, <1>4, <1>6, <1>7
<1>9. mu = 0 /\ mt + m = 0 => (v + (e + -q)) * (k + x) >= v * s
  <2> SUFFICES ASSUME mu = 0, mt + m = 0 PROVE (v + (e + -q)) * (k + x) >= v * s
    OBVIOUS
  <2>1. mt = 0
    BY <1>1
  <2> QED
    BY <1>1, <1>4, <1>7, <1>8, <2>1
<1>10. /\ u + -q \in Nat /\ e + -q \in Nat /\ t + a \in Nat /\ k + x \in Nat
       /\ o + -a \in Nat /\ mt + m \in Nat
       /\ e + -q <= (u + -q) + mu /\ (t + a) + (o + -a) = s
  BY <1>1, <1>3
<1>11. Fine(v, s, u + -q, e + -q, t + a, k + x, o + -a, mu, mt + m)
  BY <1>1, <1>9, <1>10 DEF Fine
<1> QED
  BY <1>3, <1>8, <1>11 DEF Curve

\* Reserves that are overwritten by balances, of which the one of USDL may have
\* grown before: only a pool that was short has a smaller product.
LEMMA FineSync ==
  ASSUME NEW v \in Nat \ {0}, NEW s \in Nat \ {0}, NEW u, NEW e, NEW t, NEW k, NEW o,
         NEW mu, NEW mt, Fine(v, s, u, e, t, k, o, mu, mt), NEW n \in Nat
  PROVE  /\ Fine(v, s, u + n, u + n, t, t, o, mu, mt)
         /\ e <= u /\ k <= t => Curve(v, u + n, t) >= Curve(v, e, k)
<1>1. /\ u \in Nat /\ e \in Nat /\ t \in Nat /\ k \in Nat /\ o \in Nat
      /\ mu \in Nat /\ mt \in Nat
      /\ e <= u + mu /\ k <= t + mt /\ t + o = s
      /\ mu = 0 /\ mt = 0 => (v + e) * k >= v * s
  BY DEF Fine
<1>2. ASSUME e <= u, k <= t PROVE (v + (u + n)) * t >= (v + e) * k
  <2>1. u + n \in Nat /\ e <= u + n
    BY <1>1, <1>2
  <2> QED
    BY <1>1, <1>2, <2>1, BothGrow
<1>3. (v + (u + n)) * t \in Int /\ (v + e) * k \in Int /\ v * s \in Int
  BY <1>1
<1>4. ASSUME mu = 0, mt = 0 PROVE (v + (u + n)) * t >= v * s
  <2>1. e <= u /\ k <= t
    BY <1>1, <1>4
  <2> QED
    BY <1>1, <1>2, <1>3, <1>4, <2>1
<1>5. u + n \in Nat /\ u + n <= (u + n) + mu /\ t <= t + mt
  BY <1>1
<1>6. Fine(v, s, u + n, u + n, t, t, o, mu, mt)
  BY <1>1, <1>4, <1>5 DEF Fine
<1> QED
  BY <1>2, <1>6 DEF Curve

\* A pool whose swaps were paid has the USDL for any part of what is outside.
LEMMA FineFloor ==
  ASSUME NEW v \in Nat \ {0}, NEW s \in Nat \ {0}, NEW u, NEW e, NEW t, NEW k, NEW o,
         Fine(v, s, u, e, t, k, o, 0, 0), NEW n \in Nat, n <= o
  PROVE  AmountOut(k, v + e, n) <= e
<1> DEFINE q == AmountOut(k, v + e, n)
<1>1. /\ u \in Nat /\ e \in Nat /\ t \in Nat /\ k \in Nat /\ o \in Nat
      /\ e <= u /\ k <= t /\ t + o = s
      /\ (v + e) * k >= v * s
  BY DEF Fine
<1>2. v * s \in Nat \ {0}
  BY SMT
<1>3. k \in Nat \ {0} /\ v + e \in Nat
  BY <1>1, <1>2
<1>4. /\ q \in Nat /\ q <= v + e
      /\ ((v + e) - q) * (k + n) >= (v + e) * k
  BY <1>3, OutOK
<1> HIDE DEF q
<1>5. k + n <= s /\ k + n \in Nat \ {0} /\ s \in Nat
  BY <1>1, <1>3
<1>6. (k + n) * v <= s * v
  BY <1>5, Mono
<1>7. v * s = s * v
  BY Commute
<1>8. /\ (v + e) * k \in Int /\ s * v \in Int /\ (k + n) * v \in Int
      /\ (v + e) - q \in Nat /\ ((v + e) - q) * (k + n) \in Int
  BY <1>1, <1>4, <1>5
<1>9. v * (k + n) = (k + n) * v
  BY <1>5, Commute
<1>10. v * (k + n) <= ((v + e) - q) * (k + n)
  BY <1>1, <1>4, <1>6, <1>7, <1>8, <1>9
<1>11. v <= (v + e) - q
  BY <1>5, <1>8, <1>10, Cancel
<1>12. q <= e
  BY <1>1, <1>4, <1>11
<1> QED
  BY <1>12 DEF q

(***************************************************************************)
(* The invariant                                                           *)
(***************************************************************************)

\* A market is fine; a pool that does not exist holds USDL at most.
PoolOK(p) ==
  IF p \in markets
  THEN Fine(Virtual[p], Supply[p], poolUsdl[p], realUsdl[p], poolTokens[p],
            tokenReserve[p], outside[p], unpaidUsdl[p], unpaidTokens[p])
  ELSE /\ realUsdl[p] = 0 /\ poolTokens[p] = 0 /\ tokenReserve[p] = 0
       /\ outside[p] = 0 /\ unpaidUsdl[p] = 0 /\ unpaidTokens[p] = 0

IInv == TypeOK /\ \A p \in Pools : PoolOK(p)

\* What a step does to a pool.
PoolStep(p) ==
  /\ PoolOK(p)'
  /\ p \in markets => Product(p)' >= Product(p) \/ (Short(p) /\ Synced(p)')

\* The amounts of a pool, and the state of a market.
LEMMA PoolFacts ==
  ASSUME IInv, NEW p \in Pools
  PROVE  /\ Virtual[p] \in Nat \ {0} /\ Supply[p] \in Nat \ {0}
         /\ poolUsdl[p] \in Nat /\ realUsdl[p] \in Nat /\ poolTokens[p] \in Nat
         /\ tokenReserve[p] \in Nat /\ outside[p] \in Nat
         /\ unpaidUsdl[p] \in Nat /\ unpaidTokens[p] \in Nat
         /\ realUsdl[p] <= poolUsdl[p] + unpaidUsdl[p]
         /\ tokenReserve[p] <= poolTokens[p] + unpaidTokens[p]
         /\ p \in markets =>
              Fine(Virtual[p], Supply[p], poolUsdl[p], realUsdl[p], poolTokens[p],
                   tokenReserve[p], outside[p], unpaidUsdl[p], unpaidTokens[p])
<1>1. /\ Virtual[p] \in Nat \ {0} /\ Supply[p] \in Nat \ {0}
      /\ poolUsdl[p] \in Nat /\ realUsdl[p] \in Nat /\ poolTokens[p] \in Nat
      /\ tokenReserve[p] \in Nat /\ outside[p] \in Nat
      /\ unpaidUsdl[p] \in Nat /\ unpaidTokens[p] \in Nat
  BY MarketAssumption DEF IInv, TypeOK, Amounts, MarketAssumption
<1>2. PoolOK(p)
  BY DEF IInv
<1>3. /\ realUsdl[p] <= poolUsdl[p] + unpaidUsdl[p]
      /\ tokenReserve[p] <= poolTokens[p] + unpaidTokens[p]
  BY <1>1, <1>2 DEF PoolOK, Fine
<1> QED
  BY <1>1, <1>2, <1>3 DEF PoolOK

\* A market as FineBuy, FineSell and FineSync take and leave it.
LEMMA PoolMoved ==
  ASSUME NEW p \in Pools, p \in markets, p \in markets',
         Fine(Virtual[p], Supply[p], poolUsdl'[p], realUsdl'[p], poolTokens'[p],
              tokenReserve'[p], outside'[p], unpaidUsdl'[p], unpaidTokens'[p]),
         \/ Curve(Virtual[p], realUsdl'[p], tokenReserve'[p])
              >= Curve(Virtual[p], realUsdl[p], tokenReserve[p])
         \/ Short(p) /\ Synced(p)'
  PROVE  PoolStep(p)
  BY DEF PoolStep, PoolOK, Product, Effective, Curve

\* A pool that is not created, and whose reserves do not change, may be given
\* USDL, and tokens from outside.
LEMMA PoolFed ==
  ASSUME IInv, NEW p \in Pools, (p \in markets') = (p \in markets),
         realUsdl'[p] = realUsdl[p], tokenReserve'[p] = tokenReserve[p],
         unpaidUsdl'[p] = unpaidUsdl[p], unpaidTokens'[p] = unpaidTokens[p],
         poolUsdl'[p] \in Nat, poolUsdl'[p] >= poolUsdl[p],
         poolTokens'[p] \in Nat, poolTokens'[p] >= poolTokens[p],
         outside'[p] \in Nat,
         poolTokens'[p] + outside'[p] = poolTokens[p] + outside[p]
  PROVE  PoolStep(p)
<1>1. /\ Virtual[p] \in Nat \ {0} /\ Supply[p] \in Nat \ {0}
      /\ poolUsdl[p] \in Nat /\ realUsdl[p] \in Nat /\ poolTokens[p] \in Nat
      /\ tokenReserve[p] \in Nat /\ outside[p] \in Nat
      /\ unpaidUsdl[p] \in Nat /\ unpaidTokens[p] \in Nat
  BY PoolFacts
<1>2. CASE p \in markets
  <2>1. Fine(Virtual[p], Supply[p], poolUsdl[p], realUsdl[p], poolTokens[p],
             tokenReserve[p], outside[p], unpaidUsdl[p], unpaidTokens[p])
    BY <1>2, PoolFacts
  <2>2. /\ realUsdl[p] <= poolUsdl[p] + unpaidUsdl[p]
        /\ tokenReserve[p] <= poolTokens[p] + unpaidTokens[p]
        /\ poolTokens[p] + outside[p] = Supply[p]
        /\ unpaidUsdl[p] = 0 /\ unpaidTokens[p] = 0 =>
             (Virtual[p] + realUsdl[p]) * tokenReserve[p] >= Virtual[p] * Supply[p]
    BY <2>1 DEF Fine
  <2>3. /\ realUsdl[p] <= poolUsdl'[p] + unpaidUsdl[p]
        /\ tokenReserve[p] <= poolTokens'[p] + unpaidTokens[p]
    BY <1>1, <2>2
  <2>4. Fine(Virtual[p], Supply[p], poolUsdl'[p], realUsdl[p], poolTokens'[p],
             tokenReserve[p], outside'[p], unpaidUsdl[p], unpaidTokens[p])
    BY <1>1, <2>2, <2>3 DEF Fine
  <2>5. Curve(Virtual[p], realUsdl[p], tokenReserve[p])
          >= Curve(Virtual[p], realUsdl[p], tokenReserve[p])
    <3>1. Curve(Virtual[p], realUsdl[p], tokenReserve[p]) \in Int
      BY <1>1 DEF Curve
    <3> QED
      BY <3>1
  <2> QED
    BY <1>2, <2>4, <2>5, PoolMoved
<1>3. CASE p \notin markets
  <2>1. /\ realUsdl[p] = 0 /\ poolTokens[p] = 0 /\ tokenReserve[p] = 0
        /\ outside[p] = 0 /\ unpaidUsdl[p] = 0 /\ unpaidTokens[p] = 0
    BY <1>3 DEF IInv, PoolOK
  <2>2. poolTokens'[p] = 0 /\ outside'[p] = 0
    BY <1>1, <2>1
  <2> QED
    BY <1>3, <2>1, <2>2 DEF PoolStep, PoolOK
<1> QED
  BY <1>2, <1>3

\* A pool none of whose state changes, and that is not created, is as it was.
LEMMA PoolKept ==
  ASSUME IInv, NEW p \in Pools, (p \in markets') = (p \in markets),
         poolUsdl'[p] = poolUsdl[p], realUsdl'[p] = realUsdl[p],
         poolTokens'[p] = poolTokens[p], tokenReserve'[p] = tokenReserve[p],
         outside'[p] = outside[p],
         unpaidUsdl'[p] = unpaidUsdl[p], unpaidTokens'[p] = unpaidTokens[p]
  PROVE  PoolStep(p)
<1>1. /\ poolUsdl[p] \in Nat /\ poolTokens[p] \in Nat /\ outside[p] \in Nat
  BY PoolFacts
<1>2. poolUsdl[p] >= poolUsdl[p] /\ poolTokens[p] >= poolTokens[p]
  BY <1>1
<1> QED
  BY <1>1, <1>2, PoolFed

\* An entry that is changed and stays a natural number.
LEMMA AddOK ==
  ASSUME NEW f \in Amounts, NEW p \in Pools, NEW n \in Int, f[p] + n \in Nat
  PROVE  /\ Add(f, p, n) \in Amounts
         /\ Add(f, p, n)[p] = f[p] + n
         /\ \A r \in Pools \ {p} : Add(f, p, n)[r] = f[r]
  BY DEF Add, Amounts

\* The rates are rates.
LEMMA RatesOK ==
  /\ TaxRates \subseteq Rates /\ FeeRates \subseteq Rates
  /\ DivertRates \subseteq Rates /\ ProtocolFeeBps \in Rates
  BY MarketAssumption DEF MarketAssumption

\* The accumulator's variables keep their types.
FeeTypes ==
  /\ held \in Int
  /\ accumulated \in Amounts /\ surplus \in Amounts /\ airdrop \in Amounts
  /\ epoch \in Amounts /\ epochAmount \in Amounts
  /\ \A p \in Pools : epoch[p] > 0 => epochAmount[p] > 0
  /\ claimed \in [Pools -> SUBSET Claimants]

\* A fee that is recorded.
LEMMA RecordFeeOK ==
  ASSUME TypeOK, NEW p \in Pools, NEW fee \in Nat, NEW divert \in DivertRates,
         RecordFee(p, fee, divert)
  PROVE  FeeTypes'
<1> DEFINE poolCut == fee - ProtocolCut(fee)
           diverted == Share(poolCut, divert)
<1>1. poolCut \in Nat
  BY ShareOK, RatesOK DEF ProtocolCut
<1>2. diverted \in Nat /\ diverted <= poolCut
  BY <1>1, ShareOK, RatesOK
<1> HIDE DEF diverted
<1>3. poolCut - diverted \in Nat
  BY <1>1, <1>2
<1>4. accumulated \in Amounts /\ surplus \in Amounts /\ held \in Int
  BY DEF TypeOK
<1>5. accumulated[p] \in Nat /\ surplus[p] \in Nat
  BY <1>4 DEF Amounts
<1>6. /\ held' = held + poolCut
      /\ surplus' = Add(surplus, p, diverted)
      /\ accumulated' = Add(accumulated, p, poolCut - diverted)
      /\ UNCHANGED dropVars
  BY DEF RecordFee, diverted
<1> HIDE DEF poolCut
<1>7. held' \in Int
  BY <1>1, <1>4, <1>6
<1>8. surplus' \in Amounts /\ accumulated' \in Amounts
  BY <1>2, <1>3, <1>4, <1>5, <1>6, AddOK
<1> QED
  BY <1>6, <1>7, <1>8 DEF FeeTypes, TypeOK, dropVars

(***************************************************************************)
(* The steps                                                               *)
(***************************************************************************)
StepOK == TypeOK' /\ \A r \in Pools : PoolStep(r)

\* A purchase: what the reserve of USDL gains and the balance does not is booked
\* as unpaid.
LEMMA BuyStep ==
  ASSUME IInv, NEW p \in Pools, NEW amount \in Nat, NEW deposit \in Nat,
         NEW tax \in TaxRates, NEW rate \in FeeRates, NEW divert \in DivertRates,
         Buy(p, amount, deposit, tax, rate, divert)
  PROVE  StepOK
<1> DEFINE net == Net(amount, tax, rate)
           fee == Fee(amount, tax, rate)
           kept == Taxed(amount, tax)
           out == TokensOut(p, net)
           m == Missing(kept, deposit, poolUsdl[p] - realUsdl[p])
<1>1. /\ p \in markets /\ markets' = markets
      /\ deposit <= wallets /\ out <= poolTokens[p] /\ fee <= poolUsdl[p] + deposit
      /\ wallets' = wallets - deposit
      /\ poolUsdl' = Add(poolUsdl, p, deposit - fee)
      /\ realUsdl' = Add(realUsdl, p, net)
      /\ tokenReserve' = Add(tokenReserve, p, -out)
      /\ poolTokens' = Add(poolTokens, p, -out)
      /\ outside' = Add(outside, p, out)
      /\ RecordFee(p, fee, divert)
      /\ unpaidUsdl' = Add(unpaidUsdl, p, m)
      /\ strategy' = strategy /\ unpaidTokens' = unpaidTokens
  BY DEF Buy
<1>2. wallets \in Nat /\ wallets - deposit \in Nat
  BY <1>1 DEF IInv, TypeOK
<1>3. net \in Nat /\ fee \in Nat /\ kept \in Nat /\ net + fee = kept
  <2>1. tax \in Rates /\ rate \in Rates
    BY RatesOK
  <2> QED
    BY <2>1, SplitOK
<1>4. FeeTypes'
  BY <1>1, <1>3, RecordFeeOK DEF IInv
<1>5. /\ Virtual[p] \in Nat \ {0} /\ Supply[p] \in Nat \ {0}
      /\ poolUsdl[p] \in Nat /\ realUsdl[p] \in Nat /\ poolTokens[p] \in Nat
      /\ tokenReserve[p] \in Nat /\ outside[p] \in Nat
      /\ unpaidUsdl[p] \in Nat /\ unpaidTokens[p] \in Nat
      /\ realUsdl[p] <= poolUsdl[p] + unpaidUsdl[p]
      /\ Fine(Virtual[p], Supply[p], poolUsdl[p], realUsdl[p], poolTokens[p],
              tokenReserve[p], outside[p], unpaidUsdl[p], unpaidTokens[p])
  BY <1>1, PoolFacts
<1> HIDE DEF net, fee, kept
<1>6. m \in Nat /\ kept <= deposit + (poolUsdl[p] - realUsdl[p]) + unpaidUsdl[p] + m
  <2>1. /\ poolUsdl[p] - realUsdl[p] \in Int
        /\ (poolUsdl[p] - realUsdl[p]) + unpaidUsdl[p] >= 0
    BY <1>5
  <2> QED
    BY <1>3, <1>5, <2>1, MissingOK
<1>7. out = AmountOut(Virtual[p] + realUsdl[p], tokenReserve[p], net)
  BY DEF TokensOut, Effective
<1> HIDE DEF out, m
<1>8. /\ deposit - fee \in Int /\ poolUsdl[p] + (deposit - fee) \in Nat
      /\ realUsdl[p] + net <= (poolUsdl[p] + (deposit - fee)) + (unpaidUsdl[p] + m)
  BY <1>1, <1>3, <1>5, <1>6
<1>9. /\ out \in Nat /\ out <= tokenReserve[p]
      /\ Fine(Virtual[p], Supply[p], poolUsdl[p] + (deposit - fee), realUsdl[p] + net,
              poolTokens[p] + -out, tokenReserve[p] + -out, outside[p] + out,
              unpaidUsdl[p] + m, unpaidTokens[p])
      /\ Curve(Virtual[p], realUsdl[p] + net, tokenReserve[p] + -out)
           >= Curve(Virtual[p], realUsdl[p], tokenReserve[p])
  <2>1. /\ Virtual[p] \in Nat \ {0} /\ Supply[p] \in Nat \ {0}
        /\ Fine(Virtual[p], Supply[p], poolUsdl[p], realUsdl[p], poolTokens[p],
                tokenReserve[p], outside[p], unpaidUsdl[p], unpaidTokens[p])
        /\ deposit - fee \in Int /\ net \in Nat /\ m \in Nat
        /\ poolUsdl[p] + (deposit - fee) \in Nat
        /\ realUsdl[p] + net <= (poolUsdl[p] + (deposit - fee)) + (unpaidUsdl[p] + m)
        /\ out = AmountOut(Virtual[p] + realUsdl[p], tokenReserve[p], net)
        /\ out <= poolTokens[p]
    BY <1>1, <1>3, <1>5, <1>6, <1>7, <1>8
  <2> QED
    BY ONLY <2>1, FineBuy
<1>10. /\ realUsdl[p] + net \in Nat
       /\ tokenReserve[p] + -out \in Nat /\ poolTokens[p] + -out \in Nat
       /\ outside[p] + out \in Nat /\ unpaidUsdl[p] + m \in Nat
       /\ net \in Int /\ out \in Int /\ -out \in Int /\ m \in Int
  BY <1>1, <1>3, <1>5, <1>6, <1>9
<1>11. /\ poolUsdl \in Amounts /\ realUsdl \in Amounts /\ tokenReserve \in Amounts
       /\ poolTokens \in Amounts /\ outside \in Amounts
       /\ unpaidUsdl \in Amounts /\ unpaidTokens \in Amounts
  BY DEF IInv, TypeOK
<1>12. /\ poolUsdl' \in Amounts /\ poolUsdl'[p] = poolUsdl[p] + (deposit - fee)
       /\ \A r \in Pools \ {p} : poolUsdl'[r] = poolUsdl[r]
  BY <1>1, <1>8, <1>11, AddOK
<1>13. /\ realUsdl' \in Amounts /\ realUsdl'[p] = realUsdl[p] + net
       /\ \A r \in Pools \ {p} : realUsdl'[r] = realUsdl[r]
  BY <1>1, <1>10, <1>11, AddOK
<1>14. /\ tokenReserve' \in Amounts /\ tokenReserve'[p] = tokenReserve[p] + -out
       /\ \A r \in Pools \ {p} : tokenReserve'[r] = tokenReserve[r]
  BY <1>1, <1>10, <1>11, AddOK
<1>15. /\ poolTokens' \in Amounts /\ poolTokens'[p] = poolTokens[p] + -out
       /\ \A r \in Pools \ {p} : poolTokens'[r] = poolTokens[r]
  BY <1>1, <1>10, <1>11, AddOK
<1>16. /\ outside' \in Amounts /\ outside'[p] = outside[p] + out
       /\ \A r \in Pools \ {p} : outside'[r] = outside[r]
  BY <1>1, <1>10, <1>11, AddOK
<1>17. /\ unpaidUsdl' \in Amounts /\ unpaidUsdl'[p] = unpaidUsdl[p] + m
       /\ \A r \in Pools \ {p} : unpaidUsdl'[r] = unpaidUsdl[r]
  BY <1>1, <1>10, <1>11, AddOK
<1>18. TypeOK'
  BY <1>1, <1>2, <1>4, <1>11, <1>12, <1>13, <1>14, <1>15, <1>16, <1>17
  DEF TypeOK, FeeTypes, IInv
<1>19. PoolStep(p)
  BY <1>1, <1>9, <1>12, <1>13, <1>14, <1>15, <1>16, <1>17, PoolMoved
<1>20. ASSUME NEW r \in Pools \ {p} PROVE PoolStep(r)
  BY <1>1, <1>12, <1>13, <1>14, <1>15, <1>16, <1>17, PoolKept
<1> QED
  BY <1>18, <1>19, <1>20 DEF StepOK

\* A sale: the same on the side of the tokens; the payment is one the pool can make.
LEMMA SellStep ==
  ASSUME IInv, NEW p \in Pools, NEW amount \in Nat, NEW deposit \in Nat,
         NEW tax \in TaxRates, NEW rate \in FeeRates,
         Sell(p, amount, deposit, tax, rate)
  PROVE  StepOK
<1> DEFINE net == Net(amount, tax, rate)
           kept == Taxed(amount, tax)
           out == UsdlOut(p, net)
           m == Missing(kept, deposit, poolTokens[p] - tokenReserve[p])
<1>1. /\ p \in markets /\ markets' = markets
      /\ deposit <= outside[p] /\ tokenReserve[p] > 0
      /\ out <= realUsdl[p] /\ out <= poolUsdl[p]
      /\ wallets' = wallets + out
      /\ poolUsdl' = Add(poolUsdl, p, -out)
      /\ realUsdl' = Add(realUsdl, p, -out)
      /\ tokenReserve' = Add(tokenReserve, p, kept)
      /\ poolTokens' = Add(poolTokens, p, deposit)
      /\ outside' = Add(outside, p, -deposit)
      /\ unpaidTokens' = Add(unpaidTokens, p, m)
      /\ UNCHANGED feeVars
      /\ strategy' = strategy /\ unpaidUsdl' = unpaidUsdl
  BY DEF Sell
<1>2. /\ Virtual[p] \in Nat \ {0} /\ Supply[p] \in Nat \ {0}
      /\ poolUsdl[p] \in Nat /\ realUsdl[p] \in Nat /\ poolTokens[p] \in Nat
      /\ tokenReserve[p] \in Nat /\ outside[p] \in Nat
      /\ unpaidUsdl[p] \in Nat /\ unpaidTokens[p] \in Nat
      /\ tokenReserve[p] <= poolTokens[p] + unpaidTokens[p]
      /\ Fine(Virtual[p], Supply[p], poolUsdl[p], realUsdl[p], poolTokens[p],
              tokenReserve[p], outside[p], unpaidUsdl[p], unpaidTokens[p])
  BY <1>1, PoolFacts
<1>3. net \in Nat /\ kept \in Nat /\ net <= kept
  <2>1. tax \in Rates /\ rate \in Rates
    BY RatesOK
  <2> QED
    BY <2>1, SplitOK
<1> HIDE DEF net, kept
<1>4. /\ m \in Nat
      /\ kept <= deposit + (poolTokens[p] - tokenReserve[p]) + unpaidTokens[p] + m
  <2>1. /\ poolTokens[p] - tokenReserve[p] \in Int
        /\ (poolTokens[p] - tokenReserve[p]) + unpaidTokens[p] >= 0
    BY <1>2
  <2> QED
    BY <1>2, <1>3, <2>1, MissingOK
<1>5. out = AmountOut(tokenReserve[p], Virtual[p] + realUsdl[p], net)
  BY DEF UsdlOut, Effective
<1> HIDE DEF out, m
<1>6. tokenReserve[p] + kept <= (poolTokens[p] + deposit) + (unpaidTokens[p] + m)
  BY <1>2, <1>3, <1>4
<1>7. /\ out \in Nat
      /\ Fine(Virtual[p], Supply[p], poolUsdl[p] + -out, realUsdl[p] + -out,
              poolTokens[p] + deposit, tokenReserve[p] + kept, outside[p] + -deposit,
              unpaidUsdl[p], unpaidTokens[p] + m)
      /\ Curve(Virtual[p], realUsdl[p] + -out, tokenReserve[p] + kept)
           >= Curve(Virtual[p], realUsdl[p], tokenReserve[p])
  <2>1. /\ Virtual[p] \in Nat \ {0} /\ Supply[p] \in Nat \ {0}
        /\ Fine(Virtual[p], Supply[p], poolUsdl[p], realUsdl[p], poolTokens[p],
                tokenReserve[p], outside[p], unpaidUsdl[p], unpaidTokens[p])
        /\ tokenReserve[p] > 0
        /\ deposit \in Nat /\ kept \in Nat /\ net \in Nat /\ m \in Nat
        /\ net <= kept /\ deposit <= outside[p]
        /\ tokenReserve[p] + kept <= (poolTokens[p] + deposit) + (unpaidTokens[p] + m)
        /\ out = AmountOut(tokenReserve[p], Virtual[p] + realUsdl[p], net)
        /\ out <= realUsdl[p] /\ out <= poolUsdl[p]
    BY <1>1, <1>2, <1>3, <1>4, <1>5, <1>6
  <2> QED
    BY ONLY <2>1, FineSell
<1>8. /\ poolUsdl[p] + -out \in Nat /\ realUsdl[p] + -out \in Nat
      /\ tokenReserve[p] + kept \in Nat /\ poolTokens[p] + deposit \in Nat
      /\ outside[p] + -deposit \in Nat /\ unpaidTokens[p] + m \in Nat
      /\ -out \in Int /\ kept \in Int /\ deposit \in Int /\ -deposit \in Int /\ m \in Int
  BY <1>1, <1>2, <1>3, <1>4, <1>7
<1>9. /\ poolUsdl \in Amounts /\ realUsdl \in Amounts /\ tokenReserve \in Amounts
      /\ poolTokens \in Amounts /\ outside \in Amounts /\ wallets \in Nat
      /\ unpaidUsdl \in Amounts /\ unpaidTokens \in Amounts
  BY DEF IInv, TypeOK
<1>10. /\ poolUsdl' \in Amounts /\ poolUsdl'[p] = poolUsdl[p] + -out
       /\ \A r \in Pools \ {p} : poolUsdl'[r] = poolUsdl[r]
  BY <1>1, <1>8, <1>9, AddOK
<1>11. /\ realUsdl' \in Amounts /\ realUsdl'[p] = realUsdl[p] + -out
       /\ \A r \in Pools \ {p} : realUsdl'[r] = realUsdl[r]
  BY <1>1, <1>8, <1>9, AddOK
<1>12. /\ tokenReserve' \in Amounts /\ tokenReserve'[p] = tokenReserve[p] + kept
       /\ \A r \in Pools \ {p} : tokenReserve'[r] = tokenReserve[r]
  BY <1>1, <1>8, <1>9, AddOK
<1>13. /\ poolTokens' \in Amounts /\ poolTokens'[p] = poolTokens[p] + deposit
       /\ \A r \in Pools \ {p} : poolTokens'[r] = poolTokens[r]
  BY <1>1, <1>8, <1>9, AddOK
<1>14. /\ outside' \in Amounts /\ outside'[p] = outside[p] + -deposit
       /\ \A r \in Pools \ {p} : outside'[r] = outside[r]
  BY <1>1, <1>8, <1>9, AddOK
<1>15. /\ unpaidTokens' \in Amounts /\ unpaidTokens'[p] = unpaidTokens[p] + m
       /\ \A r \in Pools \ {p} : unpaidTokens'[r] = unpaidTokens[r]
  BY <1>1, <1>8, <1>9, AddOK
<1>16. wallets' \in Nat
  BY <1>1, <1>7, <1>9
<1>17. TypeOK'
  BY <1>1, <1>9, <1>10, <1>11, <1>12, <1>13, <1>14, <1>15, <1>16
  DEF TypeOK, IInv, feeVars, dropVars
<1>18. PoolStep(p)
  BY <1>1, <1>7, <1>10, <1>11, <1>12, <1>13, <1>14, <1>15, PoolMoved
<1>19. ASSUME NEW r \in Pools \ {p} PROVE PoolStep(r)
  BY <1>1, <1>10, <1>11, <1>12, <1>13, <1>14, <1>15, PoolKept
<1> QED
  BY <1>17, <1>18, <1>19 DEF StepOK

\* Two entries that are changed.
LEMMA AddTwice ==
  ASSUME NEW f \in Amounts, NEW p \in Pools, NEW q \in Pools, p # q,
         NEW m \in Int, NEW n \in Int, f[p] + m \in Nat, f[q] + n \in Nat
  PROVE  /\ Add(Add(f, p, m), q, n) \in Amounts
         /\ Add(Add(f, p, m), q, n)[p] = f[p] + m
         /\ Add(Add(f, p, m), q, n)[q] = f[q] + n
         /\ \A r \in Pools \ {p, q} : Add(Add(f, p, m), q, n)[r] = f[r]
<1> DEFINE g == Add(f, p, m)
<1>1. g \in Amounts /\ g[p] = f[p] + m /\ \A r \in Pools \ {p} : g[r] = f[r]
  BY AddOK
<1> HIDE DEF g
<1>2. /\ Add(g, q, n) \in Amounts /\ Add(g, q, n)[q] = g[q] + n
      /\ \A r \in Pools \ {q} : Add(g, q, n)[r] = g[r]
  BY <1>1, AddOK
<1>3. /\ Add(g, q, n) \in Amounts
      /\ Add(g, q, n)[p] = f[p] + m
      /\ Add(g, q, n)[q] = f[q] + n
      /\ \A r \in Pools \ {p, q} : Add(g, q, n)[r] = f[r]
  BY <1>1, <1>2
<1> QED
  BY <1>3 DEF g

\* A swap over two pools is a sale to the one and a purchase from the other,
\* neither of which leaves anything unpaid.
LEMMA HopStep ==
  ASSUME IInv, NEW p \in Pools, NEW q \in Pools, NEW amount,
         NEW taxP \in TaxRates, NEW rateP \in FeeRates, NEW taxQ \in TaxRates,
         NEW rateQ \in FeeRates, NEW divert \in DivertRates,
         Hop(p, q, amount, taxP, rateP, taxQ, rateQ, divert)
  PROVE  StepOK
<1> DEFINE netP == Net(amount, taxP, rateP)
           kept == Taxed(amount, taxP)
           usdl == UsdlOut(p, netP)
           netQ == Net(usdl, taxQ, rateQ)
           fee == Fee(usdl, taxQ, rateQ)
           out == TokensOut(q, netQ)
<1>1. /\ p \in markets /\ q \in markets /\ p # q /\ markets' = markets
      /\ amount \in 1 .. outside[p] /\ tokenReserve[p] > 0
      /\ usdl <= realUsdl[p] /\ usdl <= poolUsdl[p] /\ out <= poolTokens[q]
      /\ wallets' = wallets
      /\ poolUsdl' = Add(Add(poolUsdl, p, -usdl), q, usdl - fee)
      /\ realUsdl' = Add(Add(realUsdl, p, -usdl), q, netQ)
      /\ tokenReserve' = Add(Add(tokenReserve, p, kept), q, -out)
      /\ poolTokens' = Add(Add(poolTokens, p, amount), q, -out)
      /\ outside' = Add(Add(outside, p, -amount), q, out)
      /\ RecordFee(q, fee, divert)
      /\ strategy' = strategy
      /\ unpaidUsdl' = unpaidUsdl /\ unpaidTokens' = unpaidTokens
  BY DEF Hop, unpaidVars
<1>2. /\ Virtual[p] \in Nat \ {0} /\ Supply[p] \in Nat \ {0}
      /\ poolUsdl[p] \in Nat /\ realUsdl[p] \in Nat /\ poolTokens[p] \in Nat
      /\ tokenReserve[p] \in Nat /\ outside[p] \in Nat
      /\ unpaidUsdl[p] \in Nat /\ unpaidTokens[p] \in Nat
      /\ tokenReserve[p] <= poolTokens[p] + unpaidTokens[p]
      /\ Fine(Virtual[p], Supply[p], poolUsdl[p], realUsdl[p], poolTokens[p],
              tokenReserve[p], outside[p], unpaidUsdl[p], unpaidTokens[p])
  BY <1>1, PoolFacts
<1>3. /\ Virtual[q] \in Nat \ {0} /\ Supply[q] \in Nat \ {0}
      /\ poolUsdl[q] \in Nat /\ realUsdl[q] \in Nat /\ poolTokens[q] \in Nat
      /\ tokenReserve[q] \in Nat /\ outside[q] \in Nat
      /\ unpaidUsdl[q] \in Nat /\ unpaidTokens[q] \in Nat
      /\ realUsdl[q] <= poolUsdl[q] + unpaidUsdl[q]
      /\ Fine(Virtual[q], Supply[q], poolUsdl[q], realUsdl[q], poolTokens[q],
              tokenReserve[q], outside[q], unpaidUsdl[q], unpaidTokens[q])
  BY <1>1, PoolFacts
<1>4. amount \in Nat /\ 0 < amount /\ amount <= outside[p]
  BY <1>1, <1>2
<1>5. taxP \in Rates /\ rateP \in Rates /\ taxQ \in Rates /\ rateQ \in Rates
  BY RatesOK
<1>6. netP \in Nat /\ kept \in Nat /\ netP <= kept /\ kept <= amount
  BY <1>4, <1>5, SplitOK
<1>7. usdl = AmountOut(tokenReserve[p], Virtual[p] + realUsdl[p], netP)
  BY DEF UsdlOut, Effective
<1>8. out = AmountOut(Virtual[q] + realUsdl[q], tokenReserve[q], netQ)
  BY DEF TokensOut, Effective
<1> HIDE DEF netP, kept
<1> HIDE DEF usdl
<1>9. /\ 0 \in Nat /\ unpaidTokens[p] + 0 = unpaidTokens[p]
      /\ unpaidUsdl[q] + 0 = unpaidUsdl[q]
  BY <1>2, <1>3
<1>10. tokenReserve[p] + kept <= (poolTokens[p] + amount) + (unpaidTokens[p] + 0)
  BY <1>2, <1>4, <1>6
<1>11. /\ usdl \in Nat
       /\ Fine(Virtual[p], Supply[p], poolUsdl[p] + -usdl, realUsdl[p] + -usdl,
               poolTokens[p] + amount, tokenReserve[p] + kept, outside[p] + -amount,
               unpaidUsdl[p], unpaidTokens[p] + 0)
       /\ Curve(Virtual[p], realUsdl[p] + -usdl, tokenReserve[p] + kept)
            >= Curve(Virtual[p], realUsdl[p], tokenReserve[p])
  <2>1. /\ Virtual[p] \in Nat \ {0} /\ Supply[p] \in Nat \ {0}
        /\ Fine(Virtual[p], Supply[p], poolUsdl[p], realUsdl[p], poolTokens[p],
                tokenReserve[p], outside[p], unpaidUsdl[p], unpaidTokens[p])
        /\ tokenReserve[p] > 0
        /\ amount \in Nat /\ kept \in Nat /\ netP \in Nat /\ 0 \in Nat
        /\ netP <= kept /\ amount <= outside[p]
        /\ tokenReserve[p] + kept <= (poolTokens[p] + amount) + (unpaidTokens[p] + 0)
        /\ usdl = AmountOut(tokenReserve[p], Virtual[p] + realUsdl[p], netP)
        /\ usdl <= realUsdl[p] /\ usdl <= poolUsdl[p]
    BY <1>1, <1>2, <1>4, <1>6, <1>7, <1>9, <1>10
  <2> QED
    BY ONLY <2>1, FineSell
<1>12. /\ netQ \in Nat /\ fee \in Nat /\ netQ + fee <= usdl
  <2>1. /\ netQ \in Nat /\ fee \in Nat /\ netQ + fee = Taxed(usdl, taxQ)
        /\ Taxed(usdl, taxQ) <= usdl
    BY <1>5, <1>11, SplitOK
  <2> QED
    BY <2>1
<1>13. FeeTypes'
  BY <1>1, <1>12, RecordFeeOK DEF IInv
<1> HIDE DEF netQ, fee
<1> HIDE DEF out
<1>14. /\ usdl - fee \in Int /\ poolUsdl[q] + (usdl - fee) \in Nat
       /\ realUsdl[q] + netQ <= (poolUsdl[q] + (usdl - fee)) + (unpaidUsdl[q] + 0)
  BY <1>3, <1>11, <1>12
<1>15. /\ out \in Nat /\ out <= tokenReserve[q]
       /\ Fine(Virtual[q], Supply[q], poolUsdl[q] + (usdl - fee), realUsdl[q] + netQ,
               poolTokens[q] + -out, tokenReserve[q] + -out, outside[q] + out,
               unpaidUsdl[q] + 0, unpaidTokens[q])
       /\ Curve(Virtual[q], realUsdl[q] + netQ, tokenReserve[q] + -out)
            >= Curve(Virtual[q], realUsdl[q], tokenReserve[q])
  <2>1. /\ Virtual[q] \in Nat \ {0} /\ Supply[q] \in Nat \ {0}
        /\ Fine(Virtual[q], Supply[q], poolUsdl[q], realUsdl[q], poolTokens[q],
                tokenReserve[q], outside[q], unpaidUsdl[q], unpaidTokens[q])
        /\ usdl - fee \in Int /\ netQ \in Nat /\ 0 \in Nat
        /\ poolUsdl[q] + (usdl - fee) \in Nat
        /\ realUsdl[q] + netQ <= (poolUsdl[q] + (usdl - fee)) + (unpaidUsdl[q] + 0)
        /\ out = AmountOut(Virtual[q] + realUsdl[q], tokenReserve[q], netQ)
        /\ out <= poolTokens[q]
    BY <1>1, <1>3, <1>8, <1>9, <1>12, <1>14
  <2> QED
    BY ONLY <2>1, FineBuy
<1>16. /\ poolUsdl[p] + -usdl \in Nat /\ realUsdl[p] + -usdl \in Nat
       /\ tokenReserve[p] + kept \in Nat /\ poolTokens[p] + amount \in Nat
       /\ outside[p] + -amount \in Nat
       /\ -usdl \in Int /\ kept \in Int /\ amount \in Int /\ -amount \in Int
  BY <1>1, <1>2, <1>4, <1>6, <1>11
<1>17. /\ realUsdl[q] + netQ \in Nat
       /\ tokenReserve[q] + -out \in Nat /\ poolTokens[q] + -out \in Nat
       /\ outside[q] + out \in Nat
       /\ netQ \in Int /\ out \in Int /\ -out \in Int
  BY <1>1, <1>3, <1>12, <1>15
<1>18. /\ poolUsdl \in Amounts /\ realUsdl \in Amounts /\ tokenReserve \in Amounts
       /\ poolTokens \in Amounts /\ outside \in Amounts
  BY DEF IInv, TypeOK
<1>19. /\ poolUsdl' \in Amounts /\ poolUsdl'[p] = poolUsdl[p] + -usdl
       /\ poolUsdl'[q] = poolUsdl[q] + (usdl - fee)
       /\ \A r \in Pools \ {p, q} : poolUsdl'[r] = poolUsdl[r]
  BY <1>1, <1>14, <1>16, <1>18, AddTwice
<1>20. /\ realUsdl' \in Amounts /\ realUsdl'[p] = realUsdl[p] + -usdl
       /\ realUsdl'[q] = realUsdl[q] + netQ
       /\ \A r \in Pools \ {p, q} : realUsdl'[r] = realUsdl[r]
  BY <1>1, <1>16, <1>17, <1>18, AddTwice
<1>21. /\ tokenReserve' \in Amounts /\ tokenReserve'[p] = tokenReserve[p] + kept
       /\ tokenReserve'[q] = tokenReserve[q] + -out
       /\ \A r \in Pools \ {p, q} : tokenReserve'[r] = tokenReserve[r]
  BY <1>1, <1>16, <1>17, <1>18, AddTwice
<1>22. /\ poolTokens' \in Amounts /\ poolTokens'[p] = poolTokens[p] + amount
       /\ poolTokens'[q] = poolTokens[q] + -out
       /\ \A r \in Pools \ {p, q} : poolTokens'[r] = poolTokens[r]
  BY <1>1, <1>16, <1>17, <1>18, AddTwice
<1>23. /\ outside' \in Amounts /\ outside'[p] = outside[p] + -amount
       /\ outside'[q] = outside[q] + out
       /\ \A r \in Pools \ {p, q} : outside'[r] = outside[r]
  BY <1>1, <1>16, <1>17, <1>18, AddTwice
<1>24. TypeOK'
  BY <1>1, <1>13, <1>19, <1>20, <1>21, <1>22, <1>23 DEF TypeOK, FeeTypes, IInv
<1>25. PoolStep(p)
  BY <1>1, <1>9, <1>11, <1>19, <1>20, <1>21, <1>22, <1>23, PoolMoved
<1>26. PoolStep(q)
  BY <1>1, <1>9, <1>15, <1>19, <1>20, <1>21, <1>22, <1>23, PoolMoved
<1>27. ASSUME NEW r \in Pools \ {p, q} PROVE PoolStep(r)
  BY <1>1, <1>19, <1>20, <1>21, <1>22, <1>23, PoolKept
<1> QED
  BY <1>24, <1>25, <1>26, <1>27 DEF StepOK

\* A market is created with its supply in the pool, and the USDL that was there.
LEMMA CreateStep ==
  ASSUME IInv, NEW p \in Pools, NEW fee \in CreationFees, NEW s \in Chosen[p],
         CreateMarket(p, fee, s)
  PROVE  StepOK
<1>1. /\ p \notin markets /\ fee <= wallets
      /\ markets' = markets \cup {p}
      /\ wallets' = wallets - fee
      /\ poolTokens' = [poolTokens EXCEPT ![p] = Supply[p]]
      /\ tokenReserve' = [tokenReserve EXCEPT ![p] = Supply[p]]
      /\ strategy' = [strategy EXCEPT ![p] = s]
      /\ UNCHANGED <<outside, poolUsdl, realUsdl, feeVars, unpaidUsdl, unpaidTokens>>
  BY DEF CreateMarket, unpaidVars
<1>2. wallets' \in Nat
  BY <1>1, MarketAssumption DEF MarketAssumption, IInv, TypeOK
<1>3. /\ Virtual[p] \in Nat \ {0} /\ Supply[p] \in Nat \ {0} /\ poolUsdl[p] \in Nat
      /\ realUsdl[p] = 0 /\ outside[p] = 0
      /\ unpaidUsdl[p] = 0 /\ unpaidTokens[p] = 0
  BY <1>1, PoolFacts DEF IInv, PoolOK
<1>4. /\ poolTokens \in Amounts /\ tokenReserve \in Amounts
  BY DEF IInv, TypeOK
<1>5. /\ poolTokens' \in Amounts /\ poolTokens'[p] = Supply[p]
      /\ \A r \in Pools \ {p} : poolTokens'[r] = poolTokens[r]
  BY <1>1, <1>3, <1>4 DEF Amounts
<1>6. /\ tokenReserve' \in Amounts /\ tokenReserve'[p] = Supply[p]
      /\ \A r \in Pools \ {p} : tokenReserve'[r] = tokenReserve[r]
  BY <1>1, <1>3, <1>4 DEF Amounts
<1>s. s \in Strategies
  BY MarketAssumption DEF MarketAssumption
<1>7. TypeOK'
  BY <1>1, <1>2, <1>5, <1>6, <1>s DEF TypeOK, IInv, feeVars, dropVars
<1>8. Fine(Virtual[p], Supply[p], poolUsdl[p], 0, Supply[p], Supply[p], 0, 0, 0)
  <2>1. Virtual[p] + 0 = Virtual[p] /\ Virtual[p] * Supply[p] \in Nat
    BY <1>3
  <2>2. (Virtual[p] + 0) * Supply[p] >= Virtual[p] * Supply[p]
    BY <2>1
  <2>3. /\ Supply[p] + 0 = Supply[p] /\ Supply[p] <= Supply[p]
        /\ 0 <= poolUsdl[p] + 0
    BY <1>3
  <2> QED
    BY <1>3, <2>2, <2>3 DEF Fine
<1>9. PoolStep(p)
  BY <1>1, <1>3, <1>5, <1>6, <1>8 DEF PoolStep, PoolOK
<1>10. ASSUME NEW r \in Pools \ {p} PROVE PoolStep(r)
  BY <1>1, <1>5, <1>6, PoolKept
<1> QED
  BY <1>7, <1>9, <1>10 DEF StepOK

\* A transfer past the router is held by the pool and not accounted for.
LEMMA SendStep ==
  ASSUME IInv, NEW p \in Pools, NEW usdl, NEW tokens, SendToPool(p, usdl, tokens)
  PROVE  StepOK
<1>1. /\ markets' = markets
      /\ usdl \in 0 .. wallets /\ tokens \in 0 .. outside[p]
      /\ wallets' = wallets - usdl
      /\ outside' = Add(outside, p, -tokens)
      /\ poolUsdl' = Add(poolUsdl, p, usdl)
      /\ poolTokens' = Add(poolTokens, p, tokens)
      /\ UNCHANGED <<realUsdl, tokenReserve, feeVars, strategy, unpaidUsdl, unpaidTokens>>
  BY DEF SendToPool, unpaidVars
<1>2. poolUsdl[p] \in Nat /\ poolTokens[p] \in Nat /\ outside[p] \in Nat
  BY PoolFacts
<1>3. /\ poolUsdl \in Amounts /\ poolTokens \in Amounts /\ outside \in Amounts
      /\ wallets \in Nat
  BY DEF IInv, TypeOK
<1>4. /\ wallets' \in Nat
      /\ usdl \in Int /\ tokens \in Int /\ -tokens \in Int
      /\ outside[p] + -tokens \in Nat
      /\ poolUsdl[p] + usdl \in Nat /\ poolTokens[p] + tokens \in Nat
      /\ poolUsdl[p] + usdl >= poolUsdl[p] /\ poolTokens[p] + tokens >= poolTokens[p]
      /\ (poolTokens[p] + tokens) + (outside[p] + -tokens) = poolTokens[p] + outside[p]
  BY <1>1, <1>2, <1>3
<1>5. /\ outside' \in Amounts /\ outside'[p] = outside[p] + -tokens
      /\ \A r \in Pools \ {p} : outside'[r] = outside[r]
  BY <1>1, <1>3, <1>4, AddOK
<1>6. /\ poolUsdl' \in Amounts /\ poolUsdl'[p] = poolUsdl[p] + usdl
      /\ \A r \in Pools \ {p} : poolUsdl'[r] = poolUsdl[r]
  BY <1>1, <1>3, <1>4, AddOK
<1>7. /\ poolTokens' \in Amounts /\ poolTokens'[p] = poolTokens[p] + tokens
      /\ \A r \in Pools \ {p} : poolTokens'[r] = poolTokens[r]
  BY <1>1, <1>3, <1>4, AddOK
<1>8. TypeOK'
  BY <1>1, <1>4, <1>5, <1>6, <1>7 DEF TypeOK, IInv, feeVars, dropVars
<1>9. PoolStep(p)
  BY <1>1, <1>4, <1>5, <1>6, <1>7, PoolFed
<1>10. ASSUME NEW r \in Pools \ {p} PROVE PoolStep(r)
  BY <1>1, <1>5, <1>6, <1>7, PoolKept
<1> QED
  BY <1>8, <1>9, <1>10 DEF StepOK

\* Reserves that are overwritten by balances, which may have grown before.
LEMMA SyncPool ==
  ASSUME IInv, NEW p \in Pools, p \in markets, markets' = markets, NEW n \in Nat,
         poolUsdl' = Add(poolUsdl, p, n) \/ (n = 0 /\ poolUsdl' = poolUsdl),
         realUsdl' = [realUsdl EXCEPT ![p] = poolUsdl'[p]],
         tokenReserve' = [tokenReserve EXCEPT ![p] = poolTokens[p]],
         poolTokens' = poolTokens, outside' = outside,
         unpaidUsdl' = unpaidUsdl, unpaidTokens' = unpaidTokens
  PROVE  /\ poolUsdl' \in Amounts /\ realUsdl' \in Amounts /\ tokenReserve' \in Amounts
         /\ \A r \in Pools : PoolStep(r)
<1>1. /\ Virtual[p] \in Nat \ {0} /\ Supply[p] \in Nat \ {0}
      /\ poolUsdl[p] \in Nat /\ realUsdl[p] \in Nat /\ poolTokens[p] \in Nat
      /\ tokenReserve[p] \in Nat
      /\ Fine(Virtual[p], Supply[p], poolUsdl[p], realUsdl[p], poolTokens[p],
              tokenReserve[p], outside[p], unpaidUsdl[p], unpaidTokens[p])
  BY PoolFacts
<1>2. poolUsdl \in Amounts /\ realUsdl \in Amounts /\ tokenReserve \in Amounts
  BY DEF IInv, TypeOK
<1>3. poolUsdl[p] + n \in Nat /\ n \in Int
  BY <1>1
<1>4. /\ poolUsdl' \in Amounts /\ poolUsdl'[p] = poolUsdl[p] + n
      /\ \A r \in Pools \ {p} : poolUsdl'[r] = poolUsdl[r]
  BY <1>1, <1>2, <1>3, AddOK
<1>5. /\ realUsdl' \in Amounts /\ realUsdl'[p] = poolUsdl[p] + n
      /\ \A r \in Pools \ {p} : realUsdl'[r] = realUsdl[r]
  BY <1>2, <1>3, <1>4 DEF Amounts
<1>6. /\ tokenReserve' \in Amounts /\ tokenReserve'[p] = poolTokens[p]
      /\ \A r \in Pools \ {p} : tokenReserve'[r] = tokenReserve[r]
  BY <1>1, <1>2 DEF Amounts
<1>7. /\ Fine(Virtual[p], Supply[p], poolUsdl[p] + n, poolUsdl[p] + n, poolTokens[p],
              poolTokens[p], outside[p], unpaidUsdl[p], unpaidTokens[p])
      /\ realUsdl[p] <= poolUsdl[p] /\ tokenReserve[p] <= poolTokens[p] =>
           Curve(Virtual[p], poolUsdl[p] + n, poolTokens[p])
             >= Curve(Virtual[p], realUsdl[p], tokenReserve[p])
  BY <1>1, FineSync
<1>8. Short(p) \/ (realUsdl[p] <= poolUsdl[p] /\ tokenReserve[p] <= poolTokens[p])
  BY <1>1 DEF Short
<1>9. Synced(p)'
  BY <1>4, <1>5, <1>6 DEF Synced
<1>10. PoolStep(p)
  BY <1>4, <1>5, <1>6, <1>7, <1>8, <1>9, PoolMoved
<1>11. ASSUME NEW r \in Pools \ {p} PROVE PoolStep(r)
  BY <1>4, <1>5, <1>6, PoolKept
<1> QED
  BY <1>4, <1>5, <1>6, <1>10, <1>11

\* Reserves that follow the balances.
LEMMA SyncStep ==
  ASSUME IInv, NEW p \in Pools, SyncReserves(p)
  PROVE  StepOK
<1>1. /\ p \in markets /\ markets' = markets
      /\ realUsdl' = [realUsdl EXCEPT ![p] = poolUsdl'[p]]
      /\ tokenReserve' = [tokenReserve EXCEPT ![p] = poolTokens[p]]
      /\ UNCHANGED <<wallets, outside, poolUsdl, poolTokens, feeVars, strategy,
                     unpaidUsdl, unpaidTokens>>
  BY DEF SyncReserves, unpaidVars
<1>2. /\ poolUsdl' \in Amounts /\ realUsdl' \in Amounts /\ tokenReserve' \in Amounts
      /\ \A r \in Pools : PoolStep(r)
  BY <1>1, SyncPool
<1>3. TypeOK'
  BY <1>1, <1>2 DEF TypeOK, IInv, feeVars, dropVars
<1> QED
  BY <1>2, <1>3 DEF StepOK

\* Fees that become liquidity raise the balance, and the reserve to it.
LEMMA LpStep ==
  ASSUME IInv, NEW p \in Pools, ExecuteLpRewards(p)
  PROVE  StepOK
<1>1. /\ p \in markets /\ markets' = markets
      /\ accumulated' = [accumulated EXCEPT ![p] = 0]
      /\ held' = held - accumulated[p]
      /\ poolUsdl' = Add(poolUsdl, p, accumulated[p])
      /\ realUsdl' = [realUsdl EXCEPT ![p] = poolUsdl'[p]]
      /\ tokenReserve' = [tokenReserve EXCEPT ![p] = poolTokens[p]]
      /\ UNCHANGED <<surplus, strategy, wallets, poolTokens, outside, dropVars,
                     unpaidUsdl, unpaidTokens>>
  BY DEF ExecuteLpRewards, TakeFees, unpaidVars
<1>2. accumulated \in Amounts /\ held \in Int
  BY DEF IInv, TypeOK
<1>3. accumulated[p] \in Nat /\ held' \in Int /\ accumulated' \in Amounts
  BY <1>1, <1>2 DEF Amounts
<1>4. /\ poolUsdl' \in Amounts /\ realUsdl' \in Amounts /\ tokenReserve' \in Amounts
      /\ \A r \in Pools : PoolStep(r)
  BY <1>1, <1>3, SyncPool
<1>5. TypeOK'
  BY <1>1, <1>3, <1>4 DEF TypeOK, IInv, dropVars
<1> QED
  BY <1>4, <1>5 DEF StepOK

\* A step on the side of the fees leaves the pools as they are, or gives them USDL.
LEMMA FeeStep ==
  ASSUME IInv, TypeOK', markets' = markets,
         UNCHANGED <<realUsdl, poolTokens, tokenReserve, outside, unpaidVars>>,
         \A r \in Pools : poolUsdl'[r] >= poolUsdl[r]
  PROVE  StepOK
<1> SUFFICES ASSUME NEW r \in Pools PROVE PoolStep(r)
  BY DEF StepOK
<1>1. poolTokens[r] \in Nat /\ outside[r] \in Nat
  BY PoolFacts
<1>2. poolUsdl'[r] \in Nat
  BY DEF TypeOK, Amounts
<1>3. poolTokens[r] >= poolTokens[r]
  BY <1>1
<1> QED
  BY <1>1, <1>2, <1>3, PoolFed DEF unpaidVars

\* ... when no pool is concerned at all.
LEMMA QuietStep ==
  ASSUME IInv, TypeOK', markets' = markets, UNCHANGED <<poolVars, unpaidVars>>
  PROVE  StepOK
<1>1. \A r \in Pools : poolUsdl'[r] >= poolUsdl[r]
  <2> SUFFICES ASSUME NEW r \in Pools PROVE poolUsdl'[r] >= poolUsdl[r]
    OBVIOUS
  <2>1. poolUsdl[r] \in Nat /\ poolUsdl'[r] = poolUsdl[r]
    BY PoolFacts DEF poolVars
  <2> QED
    BY <2>1
<1> QED
  BY <1>1, FeeStep DEF poolVars

\* Fees taken out of their bucket, and out of the accumulator or not.
LEMMA TakeStep ==
  ASSUME IInv, NEW p \in Pools, ClaimFees(p) \/ ExecuteBurn(p) \/ ExecuteAirdrop(p)
  PROVE  StepOK
<1>1. /\ markets' = markets /\ UNCHANGED <<poolVars, unpaidVars>>
      /\ accumulated[p] > 0
      /\ accumulated' = [accumulated EXCEPT ![p] = 0]
      /\ UNCHANGED <<surplus, strategy>>
  BY DEF ClaimFees, ExecuteBurn, ExecuteAirdrop, TakeFees
<1>2. /\ accumulated \in Amounts /\ held \in Int /\ wallets \in Nat
      /\ airdrop \in Amounts /\ epoch \in Amounts /\ epochAmount \in Amounts
      /\ \A r \in Pools : epoch[r] > 0 => epochAmount[r] > 0
      /\ claimed \in [Pools -> SUBSET Claimants]
  BY DEF IInv, TypeOK
<1>3. /\ accumulated[p] \in Nat /\ accumulated' \in Amounts
      /\ airdrop[p] + accumulated[p] \in Nat /\ epoch[p] + 1 \in Nat
      /\ accumulated[p] \in Int /\ 1 \in Int
  BY <1>1, <1>2 DEF Amounts
<1>4. CASE ClaimFees(p)
  <2>1. held' \in Int /\ wallets' \in Nat /\ UNCHANGED dropVars
    BY <1>2, <1>3, <1>4 DEF ClaimFees
  <2>2. TypeOK'
    BY <1>1, <1>3, <2>1 DEF TypeOK, IInv, poolVars, dropVars, unpaidVars
  <2> QED
    BY <1>1, <2>2, QuietStep
<1>5. CASE ExecuteBurn(p)
  <2>1. held' \in Int /\ UNCHANGED wallets /\ UNCHANGED dropVars
    BY <1>2, <1>3, <1>5 DEF ExecuteBurn
  <2>2. TypeOK'
    BY <1>1, <1>3, <2>1 DEF TypeOK, IInv, poolVars, dropVars, unpaidVars
  <2> QED
    BY <1>1, <2>2, QuietStep
<1>6. CASE ExecuteAirdrop(p)
  <2>1. /\ epoch' = Add(epoch, p, 1)
        /\ epochAmount' = [epochAmount EXCEPT ![p] = accumulated[p]]
        /\ airdrop' = Add(airdrop, p, accumulated[p])
        /\ claimed' = [claimed EXCEPT ![p] = {}]
        /\ UNCHANGED <<wallets, held>>
    BY <1>6 DEF ExecuteAirdrop
  <2>2. /\ epoch' \in Amounts /\ airdrop' \in Amounts
        /\ \A r \in Pools \ {p} : epoch'[r] = epoch[r]
    BY <1>2, <1>3, <2>1, AddOK
  <2>3. /\ epochAmount' \in Amounts /\ claimed' \in [Pools -> SUBSET Claimants]
        /\ epochAmount'[p] = accumulated[p]
        /\ \A r \in Pools \ {p} : epochAmount'[r] = epochAmount[r]
    BY <1>2, <1>3, <2>1 DEF Amounts
  <2>4. \A r \in Pools : epoch'[r] > 0 => epochAmount'[r] > 0
    BY <1>1, <1>2, <2>2, <2>3
  <2>5. TypeOK'
    BY <1>1, <1>3, <2>1, <2>2, <2>3, <2>4 DEF TypeOK, IInv, poolVars, unpaidVars
  <2> QED
    BY <1>1, <2>5, QuietStep
<1> QED
  BY <1>4, <1>5, <1>6

\* A claim is paid from the bucket, to a wallet, a pool or the accumulator.
LEMMA ClaimAirdropStep ==
  ASSUME IInv, NEW p \in Pools, NEW h \in Claimants, NEW n, ClaimAirdrop(p, h, n)
  PROVE  StepOK
<1> DEFINE amount == (epochAmount[p] * n) \div Supply[p]
<1>1. /\ markets' = markets
      /\ UNCHANGED <<realUsdl, poolTokens, tokenReserve, outside, unpaidVars>>
      /\ amount \in 1 .. airdrop[p]
      /\ claimed' = [claimed EXCEPT ![p] = @ \cup {h}]
      /\ airdrop' = Add(airdrop, p, -amount)
      /\ held' = IF h = Accumulator THEN held ELSE held - amount
      /\ poolUsdl' = IF h \in Pools THEN Add(poolUsdl, h, amount) ELSE poolUsdl
      /\ wallets' = IF h \in Holders THEN wallets + amount ELSE wallets
      /\ UNCHANGED <<accumulated, surplus, epoch, epochAmount, strategy>>
  BY DEF ClaimAirdrop, PayOut
<1> HIDE DEF amount
<1>2. /\ airdrop \in Amounts /\ held \in Int /\ wallets \in Nat
      /\ poolUsdl \in Amounts /\ claimed \in [Pools -> SUBSET Claimants]
  BY DEF IInv, TypeOK
<1>3. airdrop[p] \in Nat /\ \A r \in Pools : poolUsdl[r] \in Nat
  BY <1>2 DEF Amounts
<1>4. /\ amount \in Nat /\ -amount \in Int /\ airdrop[p] + -amount \in Nat
  BY <1>1, <1>3
<1>5. held' \in Int
  BY <1>1, <1>2, <1>4
<1>6. wallets' \in Nat
  BY <1>1, <1>2, <1>4
<1>7. airdrop' \in Amounts
  BY <1>1, <1>2, <1>4, AddOK
<1>8. claimed' \in [Pools -> SUBSET Claimants]
  BY <1>1, <1>2
<1>9. poolUsdl' \in Amounts /\ \A r \in Pools : poolUsdl'[r] >= poolUsdl[r]
  <2>1. CASE h \in Pools
    <3>1. poolUsdl' = Add(poolUsdl, h, amount)
      BY <1>1, <2>1
    <3>2. poolUsdl[h] + amount \in Nat /\ amount \in Int
      BY <1>3, <1>4, <2>1
    <3>3. /\ poolUsdl' \in Amounts /\ poolUsdl'[h] = poolUsdl[h] + amount
          /\ \A r \in Pools \ {h} : poolUsdl'[r] = poolUsdl[r]
      BY <1>2, <2>1, <3>1, <3>2, AddOK
    <3> QED
      BY <1>3, <1>4, <2>1, <3>3
  <2>2. CASE h \notin Pools
    <3>1. poolUsdl' = poolUsdl
      BY <1>1, <2>2
    <3> QED
      BY <1>2, <1>3, <3>1
  <2> QED
    BY <2>1, <2>2
<1>10. TypeOK'
  BY <1>1, <1>5, <1>6, <1>7, <1>8, <1>9 DEF TypeOK, IInv, unpaidVars
<1> QED
  BY <1>1, <1>9, <1>10, FeeStep

\* A claimed surplus is paid from the bucket.
LEMMA ClaimSurplusStep ==
  ASSUME IInv, NEW p \in Pools, NEW amount, ClaimOpticalSurplus(p, amount)
  PROVE  StepOK
<1>1. /\ markets' = markets /\ UNCHANGED <<poolVars, unpaidVars>>
      /\ amount \in 1 .. surplus[p]
      /\ surplus' = Add(surplus, p, -amount)
      /\ held' = held - amount
      /\ wallets' = wallets + amount
      /\ UNCHANGED <<accumulated, dropVars, strategy>>
  BY DEF ClaimOpticalSurplus
<1>2. surplus \in Amounts /\ held \in Int /\ wallets \in Nat
  BY DEF IInv, TypeOK
<1>3. surplus[p] \in Nat
  BY <1>2 DEF Amounts
<1>4. /\ -amount \in Int /\ surplus[p] + -amount \in Nat
      /\ held' \in Int /\ wallets' \in Nat
  BY <1>1, <1>2, <1>3
<1>5. surplus' \in Amounts
  BY <1>1, <1>2, <1>4, AddOK
<1>6. TypeOK'
  BY <1>1, <1>4, <1>5 DEF TypeOK, IInv, poolVars, dropVars, unpaidVars
<1> QED
  BY <1>1, <1>6, QuietStep

\* A transfer to the accumulator is in nobody's bucket.
LEMMA GiftStep ==
  ASSUME IInv, NEW usdl, SendToAccumulator(usdl)
  PROVE  StepOK
<1>1. /\ markets' = markets /\ UNCHANGED <<poolVars, unpaidVars>>
      /\ usdl \in 0 .. wallets
      /\ wallets' = wallets - usdl /\ held' = held + usdl
      /\ UNCHANGED <<accumulated, surplus, dropVars, strategy>>
  BY DEF SendToAccumulator
<1>2. held \in Int /\ wallets \in Nat
  BY DEF IInv, TypeOK
<1>3. held' \in Int /\ wallets' \in Nat
  BY <1>1, <1>2
<1>4. TypeOK'
  BY <1>1, <1>3 DEF TypeOK, IInv, poolVars, dropVars, unpaidVars
<1> QED
  BY <1>1, <1>4, QuietStep

\* A change of strategy moves no money.
LEMMA StrategyStep ==
  ASSUME IInv, NEW p \in Pools, NEW s \in Chosen[p], SetFeeStrategy(p, s)
  PROVE  StepOK
<1>1. /\ markets' = markets /\ UNCHANGED <<poolVars, unpaidVars>>
      /\ UNCHANGED <<wallets, feeVars>>
      /\ strategy' = [strategy EXCEPT ![p] = s]
  BY DEF SetFeeStrategy
<1>s. s \in Strategies
  BY MarketAssumption DEF MarketAssumption
<1>2. TypeOK'
  BY <1>1, <1>s DEF TypeOK, IInv, poolVars, feeVars, dropVars, unpaidVars
<1> QED
  BY <1>1, <1>2, QuietStep

(***************************************************************************)
(* The invariant is one                                                    *)
(***************************************************************************)
LEMMA InvInit ==
  Init => IInv
<1> SUFFICES ASSUME Init PROVE IInv
  OBVIOUS
<1>1. Zero \in Amounts /\ \A p \in Pools : Zero[p] = 0
  BY DEF Zero, Amounts
<1>2. TypeOK
  BY <1>1, MarketAssumption DEF Init, TypeOK, MarketAssumption, Strategies
<1>3. \A p \in Pools : PoolOK(p)
  BY <1>1 DEF Init, PoolOK
<1> QED
  BY <1>2, <1>3 DEF IInv

\* What is traded is a number, whoever calls.
LEMMA InputsOK ==
  ASSUME IInv
  PROVE  /\ \A amount \in 1 .. wallets : amount \in Nat
         /\ \A p \in Pools : \A amount \in 1 .. outside[p] : amount \in Nat
         /\ \A amount \in Inputs : amount \in Nat
  BY PoolFacts, MarketAssumption DEF MarketAssumption, IInv, TypeOK

\* Every action keeps the invariant of every pool.
LEMMA InvNext ==
  ASSUME IInv, [Next]_vars
  PROVE  StepOK
<1>1. ASSUME NEW p \in Pools, NEW tax \in TaxRates, NEW rate \in FeeRates,
             NEW divert \in DivertRates,
             \/ \E amount \in 1 .. wallets : Buy(p, amount, amount, tax, rate, divert)
             \/ \E amount \in Inputs : Buy(p, amount, 0, tax, rate, divert)
      PROVE  StepOK
  BY <1>1, InputsOK, BuyStep
<1>2. ASSUME NEW p \in Pools, NEW tax \in TaxRates, NEW rate \in FeeRates,
             NEW divert \in DivertRates, NEW q \in Pools,
             NEW amount \in 1 .. outside[p], NEW taxQ \in TaxRates,
             NEW rateQ \in FeeRates, Hop(p, q, amount, tax, rate, taxQ, rateQ, divert)
      PROVE  StepOK
  BY <1>2, HopStep
<1>3. ASSUME NEW p \in Pools, NEW tax \in TaxRates, NEW rate \in FeeRates,
             \/ \E amount \in 1 .. outside[p] : Sell(p, amount, amount, tax, rate)
             \/ \E amount \in Inputs : Sell(p, amount, 0, tax, rate)
      PROVE  StepOK
  BY <1>3, InputsOK, SellStep
<1>4. ASSUME NEW p \in Pools, NEW fee \in CreationFees, NEW s \in Chosen[p],
             CreateMarket(p, fee, s)
      PROVE  StepOK
  BY <1>4, CreateStep
<1>5. ASSUME NEW p \in Pools, NEW usdl \in 0 .. wallets,
             NEW tokens \in 0 .. outside[p], SendToPool(p, usdl, tokens)
      PROVE  StepOK
  BY <1>5, SendStep
<1>6. ASSUME NEW p \in Pools, NEW s \in Chosen[p], SetFeeStrategy(p, s)
      PROVE  StepOK
  BY <1>6, StrategyStep
<1>7. ASSUME NEW p \in Pools,
             \/ SyncReserves(p) \/ ExecuteLpRewards(p)
             \/ ClaimFees(p) \/ ExecuteBurn(p) \/ ExecuteAirdrop(p)
      PROVE  StepOK
  BY <1>7, SyncStep, LpStep, TakeStep
<1>8. ASSUME NEW p \in Pools, NEW h \in Claimants, NEW n \in 1 .. Supply[p],
             ClaimAirdrop(p, h, n)
      PROVE  StepOK
  BY <1>8, ClaimAirdropStep
<1>9. ASSUME NEW p \in Pools, NEW amount \in 1 .. surplus[p],
             ClaimOpticalSurplus(p, amount)
      PROVE  StepOK
  BY <1>9, ClaimSurplusStep
<1>10. ASSUME NEW usdl \in 0 .. wallets, SendToAccumulator(usdl)
       PROVE  StepOK
  BY <1>10, GiftStep
<1>11. CASE UNCHANGED vars
  <2>1. /\ markets' = markets /\ UNCHANGED <<poolVars, unpaidVars>>
        /\ UNCHANGED <<wallets, feeVars, strategy>>
    BY <1>11 DEF vars
  <2>2. TypeOK'
    BY <2>1 DEF TypeOK, IInv, poolVars, feeVars, dropVars, unpaidVars
  <2> QED
    BY <2>1, <2>2, QuietStep
<1> QED
  BY <1>1, <1>2, <1>3, <1>4, <1>5, <1>6, <1>7, <1>8, <1>9, <1>10, <1>11 DEF Next

\* The same for a step of the specification.
LEMMA InvStep ==
  IInv /\ [Next]_vars => IInv'
<1> SUFFICES ASSUME IInv, [Next]_vars PROVE IInv'
  OBVIOUS
<1>1. StepOK
  BY InvNext
<1> QED
  BY <1>1 DEF StepOK, PoolStep, IInv

\* The invariant holds in every state.
LEMMA InvAlways ==
  Spec => []IInv
<1> QED
  BY InvInit, InvStep, PTL DEF Spec

(***************************************************************************)
(* The accumulator                                                         *)
(***************************************************************************)
Buckets == [p \in Pools |-> accumulated[p] + surplus[p] + airdrop[p]]

\* The buckets of a pool are numbers.
LEMMA BucketsOK ==
  ASSUME TypeOK
  PROVE  /\ IsFiniteSet(Pools) /\ held \in Int
         /\ \A p \in Pools : /\ accumulated[p] \in Nat /\ surplus[p] \in Nat
                            /\ airdrop[p] \in Nat
         /\ Numbers(Buckets, Pools)
<1>1. IsFiniteSet(Pools)
  BY MarketAssumption DEF MarketAssumption
<1>2. \A p \in Pools : /\ accumulated[p] \in Nat /\ surplus[p] \in Nat
                      /\ airdrop[p] \in Nat
  BY DEF TypeOK, Amounts
<1>3. \A p \in Pools : Buckets[p] \in Int
  BY <1>2 DEF Buckets
<1> QED
  BY <1>1, <1>2, <1>3 DEF Numbers, TypeOK

\* What the buckets of one pool get or lose is no more than what the accumulator
\* gets, or no less than what it loses.
LEMMA BucketsMoved ==
  ASSUME TypeOK, FeesBacked, NEW p \in Pools, NEW d \in Int,
         held' \in Int, held' >= held + d,
         accumulated'[p] + surplus'[p] + airdrop'[p]
           = accumulated[p] + surplus[p] + airdrop[p] + d,
         \A r \in Pools \ {p} : /\ accumulated'[r] = accumulated[r]
                               /\ surplus'[r] = surplus[r]
                               /\ airdrop'[r] = airdrop[r]
  PROVE  FeesBacked'
<1>1. IsFiniteSet(Pools) /\ Numbers(Buckets, Pools) /\ held \in Int
  BY BucketsOK
<1>2. \A r \in Pools \ {p} : Buckets'[r] = Buckets[r]
  BY DEF Buckets
<1>3. Buckets'[p] = Buckets[p] + d
  BY DEF Buckets
<1>4. SumFunctionOnSet(Buckets', Pools) = SumFunctionOnSet(Buckets, Pools) + d
  BY <1>1, <1>2, <1>3, SumChange
<1>5. SumFunctionOnSet(Buckets, Pools) \in Int
  BY <1>1, SumType
<1>6. held >= SumFunctionOnSet(Buckets, Pools)
  BY DEF FeesBacked, Buckets
<1>7. held' >= SumFunctionOnSet(Buckets', Pools)
  BY <1>1, <1>4, <1>5, <1>6
<1> QED
  BY <1>7 DEF FeesBacked, Buckets

\* A step that leaves the buckets alone, and takes nothing.
LEMMA BucketsKept ==
  ASSUME TypeOK, FeesBacked, UNCHANGED <<accumulated, surplus, airdrop>>,
         held' \in Int, held' >= held
  PROVE  FeesBacked'
<1>1. IsFiniteSet(Pools) /\ Numbers(Buckets, Pools) /\ held \in Int
  BY BucketsOK
<1>2. SumFunctionOnSet(Buckets, Pools) \in Int
  BY <1>1, SumType
<1>3. held >= SumFunctionOnSet(Buckets, Pools)
  BY DEF FeesBacked, Buckets
<1>4. Buckets' = Buckets
  BY DEF Buckets
<1>5. held' >= SumFunctionOnSet(Buckets', Pools)
  BY <1>1, <1>2, <1>3, <1>4
<1> QED
  BY <1>5 DEF FeesBacked, Buckets

\* What is left of a fee after the protocol's cut is what the buckets get.
LEMMA BucketsRecord ==
  ASSUME TypeOK, FeesBacked, NEW p \in Pools, NEW fee \in Nat,
         NEW divert \in DivertRates, RecordFee(p, fee, divert)
  PROVE  FeesBacked'
<1> DEFINE poolCut == fee - ProtocolCut(fee)
           diverted == Share(poolCut, divert)
<1>1. poolCut \in Nat
  BY ShareOK, RatesOK DEF ProtocolCut
<1>2. diverted \in Nat /\ diverted <= poolCut
  BY <1>1, ShareOK, RatesOK
<1>3. /\ held' = held + poolCut
      /\ surplus' = Add(surplus, p, diverted)
      /\ accumulated' = Add(accumulated, p, poolCut - diverted)
      /\ airdrop' = airdrop
  BY DEF RecordFee, dropVars
<1> HIDE DEF poolCut, diverted
<1>4. /\ accumulated \in Amounts /\ surplus \in Amounts
      /\ accumulated[p] \in Nat /\ surplus[p] \in Nat /\ airdrop[p] \in Nat
      /\ held \in Int
  BY BucketsOK DEF TypeOK
<1>5. /\ surplus'[p] = surplus[p] + diverted
      /\ \A r \in Pools \ {p} : surplus'[r] = surplus[r]
  BY <1>2, <1>3, <1>4, AddOK
<1>6. /\ accumulated'[p] = accumulated[p] + (poolCut - diverted)
      /\ \A r \in Pools \ {p} : accumulated'[r] = accumulated[r]
  BY <1>1, <1>2, <1>3, <1>4, AddOK
<1>7. accumulated'[p] + surplus'[p] + airdrop'[p]
        = accumulated[p] + surplus[p] + airdrop[p] + poolCut
  BY <1>1, <1>2, <1>3, <1>4, <1>5, <1>6
<1>8. held' \in Int /\ held' >= held + poolCut
  BY <1>1, <1>3, <1>4
<1> QED
  BY <1>1, <1>3, <1>5, <1>6, <1>7, <1>8, BucketsMoved

\* A trade that pays a fee: to buy, or for the second leg of a hop.
LEMMA BucketsTrade ==
  ASSUME IInv, FeesBacked, NEW p \in Pools, NEW divert \in DivertRates,
         \/ \E tax \in TaxRates, rate \in FeeRates, amount \in Nat, deposit \in Nat :
              Buy(p, amount, deposit, tax, rate, divert)
         \/ \E tax \in TaxRates, rate \in FeeRates, q \in Pools,
               amount \in 1 .. outside[p], taxQ \in TaxRates, rateQ \in FeeRates :
              Hop(p, q, amount, tax, rate, taxQ, rateQ, divert)
  PROVE  FeesBacked'
<1>t. TypeOK
  BY DEF IInv
<1>1. ASSUME NEW tax \in TaxRates, NEW rate \in FeeRates, NEW amount \in Nat,
             NEW deposit \in Nat, Buy(p, amount, deposit, tax, rate, divert)
      PROVE  FeesBacked'
  <2>1. tax \in Rates /\ rate \in Rates
    BY RatesOK
  <2>2. Fee(amount, tax, rate) \in Nat
    BY <2>1, SplitOK
  <2>3. RecordFee(p, Fee(amount, tax, rate), divert)
    BY <1>1 DEF Buy
  <2> QED
    BY <1>t, <2>2, <2>3, BucketsRecord
<1>2. ASSUME NEW tax \in TaxRates, NEW rate \in FeeRates, NEW q \in Pools,
             NEW amount \in 1 .. outside[p], NEW taxQ \in TaxRates,
             NEW rateQ \in FeeRates, Hop(p, q, amount, tax, rate, taxQ, rateQ, divert)
      PROVE  FeesBacked'
  <2> DEFINE netP == Net(amount, tax, rate)
             usdl == UsdlOut(p, netP)
  <2>1. RecordFee(q, Fee(usdl, taxQ, rateQ), divert)
    BY <1>2 DEF Hop
  <2>2. /\ outside[p] \in Nat /\ amount \in Nat /\ amount <= outside[p]
        /\ tax \in Rates /\ rate \in Rates /\ taxQ \in Rates /\ rateQ \in Rates
    BY PoolFacts, RatesOK
  <2>3. netP \in Nat /\ netP <= amount
    BY <2>2, SplitOK
  <2> HIDE DEF netP
  <2>4. usdl \in Nat
    <3>1. usdl = AmountOut(tokenReserve[p], Virtual[p] + realUsdl[p], netP)
      BY DEF UsdlOut, Effective
    <3>2. /\ Virtual[p] \in Nat \ {0} /\ realUsdl[p] \in Nat
          /\ tokenReserve[p] \in Nat
      BY PoolFacts
    <3>3. tokenReserve[p] \in Nat \ {0} /\ Virtual[p] + realUsdl[p] \in Nat
      <4>1. tokenReserve[p] > 0
        BY <1>2 DEF Hop
      <4> QED
        BY <3>2, <4>1
    <3> QED
      BY <2>3, <3>1, <3>3, OutOK
  <2> HIDE DEF usdl
  <2>5. Fee(usdl, taxQ, rateQ) \in Nat
    BY <2>2, <2>4, SplitOK
  <2> QED
    BY <1>t, <2>1, <2>5, BucketsRecord
<1> QED
  BY <1>1, <1>2

\* Fees that are taken out of their bucket leave, or become an airdrop.
LEMMA BucketsTake ==
  ASSUME TypeOK, FeesBacked, NEW p \in Pools,
         ClaimFees(p) \/ ExecuteBurn(p) \/ ExecuteAirdrop(p) \/ ExecuteLpRewards(p)
  PROVE  FeesBacked'
<1>1. /\ accumulated \in Amounts /\ airdrop \in Amounts /\ held \in Int
      /\ accumulated[p] \in Nat /\ surplus[p] \in Nat /\ airdrop[p] \in Nat
  BY BucketsOK DEF TypeOK
<1>2. accumulated' = [accumulated EXCEPT ![p] = 0] /\ surplus' = surplus
  BY DEF ClaimFees, ExecuteBurn, ExecuteAirdrop, ExecuteLpRewards, TakeFees
<1>3. accumulated'[p] = 0 /\ \A r \in Pools \ {p} : accumulated'[r] = accumulated[r]
  BY <1>1, <1>2 DEF Amounts
<1>4. CASE ExecuteAirdrop(p)
  <2>1. held' = held /\ airdrop' = Add(airdrop, p, accumulated[p])
    BY <1>4 DEF ExecuteAirdrop
  <2>2. /\ airdrop'[p] = airdrop[p] + accumulated[p]
        /\ \A r \in Pools \ {p} : airdrop'[r] = airdrop[r]
    BY <1>1, <2>1, AddOK
  <2>3. /\ held' \in Int /\ held' >= held + 0
        /\ accumulated'[p] + surplus'[p] + airdrop'[p]
             = accumulated[p] + surplus[p] + airdrop[p] + 0
    BY <1>1, <1>2, <1>3, <2>1, <2>2
  <2> QED
    BY <1>2, <1>3, <2>2, <2>3, BucketsMoved
<1>5. CASE ~ExecuteAirdrop(p)
  <2> DEFINE d == -accumulated[p]
  <2>1. held' = held - accumulated[p] /\ airdrop' = airdrop
    BY <1>5 DEF ClaimFees, ExecuteBurn, ExecuteLpRewards, dropVars
  <2>2. /\ d \in Int /\ held' \in Int /\ held' >= held + d
        /\ accumulated'[p] + surplus'[p] + airdrop'[p]
             = accumulated[p] + surplus[p] + airdrop[p] + d
    BY <1>1, <1>2, <1>3, <2>1
  <2> HIDE DEF d
  <2> QED
    BY <1>2, <1>3, <2>1, <2>2, BucketsMoved
<1> QED
  BY <1>4, <1>5

\* A part of an airdrop, or an optical's surplus, leaves its bucket, and the
\* accumulator unless it is paid to itself.
LEMMA BucketsPay ==
  ASSUME TypeOK, FeesBacked, NEW p \in Pools, NEW amount \in Nat,
         accumulated' = accumulated, held' \in {held, held - amount},
         \/ /\ airdrop' = Add(airdrop, p, -amount) /\ amount <= airdrop[p]
            /\ surplus' = surplus
         \/ /\ surplus' = Add(surplus, p, -amount) /\ amount <= surplus[p]
            /\ airdrop' = airdrop
  PROVE  FeesBacked'
<1> DEFINE d == -amount
<1>1. /\ surplus \in Amounts /\ airdrop \in Amounts /\ held \in Int
      /\ accumulated[p] \in Nat /\ surplus[p] \in Nat /\ airdrop[p] \in Nat
  BY BucketsOK DEF TypeOK
<1>2. d \in Int /\ held' \in Int /\ held' >= held + d
  BY <1>1
<1>3. /\ amount <= airdrop[p] => airdrop[p] + d \in Nat
      /\ amount <= surplus[p] => surplus[p] + d \in Nat
  BY <1>1
<1> HIDE DEF d
<1>4. CASE airdrop' = Add(airdrop, p, d) /\ amount <= airdrop[p] /\ surplus' = surplus
  <2>1. /\ airdrop'[p] = airdrop[p] + d
        /\ \A r \in Pools \ {p} : airdrop'[r] = airdrop[r]
    BY <1>1, <1>2, <1>3, <1>4, AddOK
  <2>2. accumulated'[p] + surplus'[p] + airdrop'[p]
          = accumulated[p] + surplus[p] + airdrop[p] + d
    BY <1>1, <1>2, <1>4, <2>1
  <2> QED
    BY <1>2, <1>4, <2>1, <2>2, BucketsMoved
<1>5. CASE surplus' = Add(surplus, p, d) /\ amount <= surplus[p] /\ airdrop' = airdrop
  <2>1. /\ surplus'[p] = surplus[p] + d
        /\ \A r \in Pools \ {p} : surplus'[r] = surplus[r]
    BY <1>1, <1>2, <1>3, <1>5, AddOK
  <2>2. accumulated'[p] + surplus'[p] + airdrop'[p]
          = accumulated[p] + surplus[p] + airdrop[p] + d
    BY <1>1, <1>2, <1>5, <2>1
  <2> QED
    BY <1>2, <1>5, <2>1, <2>2, BucketsMoved
<1> QED
  BY <1>4, <1>5 DEF d

\* Every transaction leaves the accumulator with the sum of the buckets.
LEMMA BackedStep == IInv /\ FeesBacked /\ [Next]_vars => FeesBacked'
<1> SUFFICES ASSUME IInv, FeesBacked, [Next]_vars PROVE FeesBacked'
  OBVIOUS
<1>t. TypeOK /\ held \in Int
  BY DEF IInv, TypeOK
<1>1. ASSUME NEW p \in Pools, NEW tax \in TaxRates, NEW rate \in FeeRates,
             NEW divert \in DivertRates,
             \/ \E amount \in 1 .. wallets : Buy(p, amount, amount, tax, rate, divert)
             \/ \E amount \in Inputs : Buy(p, amount, 0, tax, rate, divert)
             \/ \E q \in Pools, amount \in 1 .. outside[p], taxQ \in TaxRates,
                  rateQ \in FeeRates : Hop(p, q, amount, tax, rate, taxQ, rateQ, divert)
      PROVE  FeesBacked'
  <2>1. CASE \E amount \in 1 .. wallets : Buy(p, amount, amount, tax, rate, divert)
    BY <2>1, InputsOK, BucketsTrade
  <2>2. CASE \E amount \in Inputs : Buy(p, amount, 0, tax, rate, divert)
    BY <2>2, InputsOK, BucketsTrade
  <2>3. CASE \E q \in Pools, amount \in 1 .. outside[p], taxQ \in TaxRates,
                rateQ \in FeeRates : Hop(p, q, amount, tax, rate, taxQ, rateQ, divert)
    BY <2>3, BucketsTrade
  <2> QED
    BY <1>1, <2>1, <2>2, <2>3
<1>2. ASSUME NEW p \in Pools,
             \/ \E tax \in TaxRates, rate \in FeeRates :
                  \/ \E amount \in 1 .. outside[p] : Sell(p, amount, amount, tax, rate)
                  \/ \E amount \in Inputs : Sell(p, amount, 0, tax, rate)
             \/ \E fee \in CreationFees, s \in Chosen[p] : CreateMarket(p, fee, s)
             \/ \E usdl \in 0 .. wallets, tokens \in 0 .. outside[p] :
                  SendToPool(p, usdl, tokens)
             \/ SyncReserves(p)
             \/ \E s \in Chosen[p] : SetFeeStrategy(p, s)
      PROVE  FeesBacked'
  <2>1. UNCHANGED feeVars
    BY <1>2 DEF Sell, CreateMarket, SendToPool, SyncReserves, SetFeeStrategy
  <2>2. UNCHANGED <<accumulated, surplus, airdrop>> /\ held' \in Int /\ held' >= held
    BY <1>t, <2>1 DEF feeVars, dropVars
  <2> QED
    BY <1>t, <2>2, BucketsKept
<1>3. ASSUME NEW p \in Pools,
             ClaimFees(p) \/ ExecuteBurn(p) \/ ExecuteAirdrop(p) \/ ExecuteLpRewards(p)
      PROVE  FeesBacked'
  BY <1>3, <1>t, BucketsTake
<1>4. ASSUME NEW p \in Pools, NEW h \in Claimants, NEW n \in 1 .. Supply[p],
             ClaimAirdrop(p, h, n)
      PROVE  FeesBacked'
  <2> DEFINE amount == (epochAmount[p] * n) \div Supply[p]
  <2>1. /\ amount \in 1 .. airdrop[p] /\ airdrop' = Add(airdrop, p, -amount)
        /\ held' \in {held, held - amount}
        /\ accumulated' = accumulated /\ surplus' = surplus
    BY <1>4 DEF ClaimAirdrop, PayOut
  <2> HIDE DEF amount
  <2>2. amount \in Nat /\ amount <= airdrop[p]
    BY <1>t, <2>1, BucketsOK
  <2> QED
    BY <1>t, <2>1, <2>2, BucketsPay
<1>5. ASSUME NEW p \in Pools, NEW amount \in 1 .. surplus[p],
             ClaimOpticalSurplus(p, amount)
      PROVE  FeesBacked'
  <2>1. amount \in Nat /\ amount <= surplus[p]
    BY <1>t, BucketsOK
  <2>2. /\ surplus' = Add(surplus, p, -amount) /\ held' = held - amount
        /\ accumulated' = accumulated /\ airdrop' = airdrop
    BY <1>5 DEF ClaimOpticalSurplus, dropVars
  <2> QED
    BY <1>t, <2>1, <2>2, BucketsPay
<1>6. ASSUME NEW usdl \in 0 .. wallets, SendToAccumulator(usdl)
      PROVE  FeesBacked'
  <2>1. /\ UNCHANGED <<accumulated, surplus, airdrop>> /\ held' = held + usdl
        /\ usdl \in Nat
    BY <1>6, <1>t DEF SendToAccumulator, dropVars, TypeOK
  <2>2. held' \in Int /\ held' >= held
    BY <1>t, <2>1
  <2> QED
    BY <1>t, <2>1, <2>2, BucketsKept
<1>7. CASE UNCHANGED vars
  <2>1. UNCHANGED <<accumulated, surplus, airdrop>> /\ held' \in Int /\ held' >= held
    BY <1>7, <1>t DEF vars, feeVars, dropVars
  <2> QED
    BY <1>t, <2>1, BucketsKept
<1> QED
  BY <1>1, <1>2, <1>3, <1>4, <1>5, <1>6, <1>7 DEF Next

\* Nothing is held, and nothing is in the buckets, to begin with.
LEMMA BackedInit == Init => FeesBacked
<1> SUFFICES ASSUME Init PROVE FeesBacked
  OBVIOUS
<1>1. \A p \in Pools : Buckets[p] = 0
  BY DEF Init, Zero, Buckets
<1>2. SumFunctionOnSet(Buckets, Pools) = 0
  BY <1>1, SumZero, MarketAssumption DEF MarketAssumption
<1>3. held >= SumFunctionOnSet(Buckets, Pools)
  BY <1>2 DEF Init
<1> QED
  BY <1>3 DEF FeesBacked, Buckets

(***************************************************************************)
(* Theorems                                                                *)
(***************************************************************************)

\* Every variable keeps its type: no balance of a pool, no reserve and no
\* bucket of fees is ever taken below zero, and an airdrop that was triggered has
\* an amount (SidioraPool, FeeAccumulator).
THEOREM TypeCorrect == Spec => []TypeOK
<1>1. IInv => TypeOK
  BY DEF IInv
<1> QED
  BY <1>1, InvAlways, PTL

\* A pool is short of the USDL and the tokens it prices with by no more than the
\* callers of SidioraPool.swap, who are taken at their word, left unpaid, whatever
\* the rates, the optical's share, the rounding and the syncs in between; a pool
\* that only the router calls is never short.
THEOREM PoolsAlwaysBacked == Spec => []PoolBacked
<1>1. IInv => PoolBacked
  BY PoolFacts DEF PoolBacked
<1> QED
  BY <1>1, InvAlways, PTL

\* ReserveLib.getAmountOut and the rest of a swap round in the pool's favour: no
\* transaction, paid or not, lowers the product of a market's effective reserves,
\* but one that syncs the reserves of a market that is short.
THEOREM ProductsKept == Spec => ProductKept
<1>1. IInv /\ [Next]_vars =>
        [\A p \in markets : Product(p)' >= Product(p) \/ (Short(p) /\ Synced(p)')]_vars
  <2> SUFFICES ASSUME IInv, [Next]_vars, NEW p \in markets
               PROVE  Product(p)' >= Product(p) \/ (Short(p) /\ Synced(p)')
    OBVIOUS
  <2>1. p \in Pools
    BY DEF IInv, TypeOK
  <2> QED
    BY <2>1, InvNext DEF StepOK, PoolStep
<1> QED
  BY <1>1, InvAlways, PTL DEF Spec, ProductKept

\* SidioraPool.swap never reverts with VirtualFloorBreached in a pool to which no
\* caller has left anything unpaid: the pool has the USDL for whatever part of the
\* tokens in circulation is sold to it.
THEOREM FloorAlwaysAbove == Spec => []FloorNeverBinds
<1>1. IInv => FloorNeverBinds
  <2> SUFFICES ASSUME IInv, NEW p \in markets,
                      unpaidUsdl[p] = 0, unpaidTokens[p] = 0,
                      NEW net \in 1 .. outside[p]
               PROVE  UsdlOut(p, net) <= realUsdl[p]
    BY DEF FloorNeverBinds
  <2>1. p \in Pools
    BY DEF IInv, TypeOK
  <2>2. /\ Virtual[p] \in Nat \ {0} /\ Supply[p] \in Nat \ {0} /\ outside[p] \in Nat
        /\ Fine(Virtual[p], Supply[p], poolUsdl[p], realUsdl[p], poolTokens[p],
                tokenReserve[p], outside[p], 0, 0)
    BY <2>1, PoolFacts
  <2>3. net \in Nat /\ net <= outside[p]
    BY <2>2
  <2> QED
    BY <2>2, <2>3, FineFloor DEF UsdlOut, Effective
<1> QED
  BY <1>1, InvAlways, PTL

\* FeeAccumulator holds at least what it owes, the sum of the fees, the surpluses
\* and the airdrops of all pools, so none is ever paid out of another's: whoever
\* an airdrop is claimed for, and whatever else is sent to it.
THEOREM FeesAlwaysBacked == Spec => []FeesBacked
<1> QED
  BY BackedInit, BackedStep, InvAlways, PTL DEF Spec
=============================================================================
