------------------------------- MODULE Market -------------------------------
(***************************************************************************)
(* The bonding-curve markets of the contracts: pools that trade a token    *)
(* against USDL over a virtual reserve (core/SidioraPool.sol with          *)
(* libraries/ReserveLib.sol), the router that pays them                    *)
(* (periphery/Router.sol), and the contract that holds the fees of every   *)
(* pool (data/FeeAccumulator.sol) under the command of the pool's owner    *)
(* (periphery/FeesRouter.sol).                                             *)
(*                                                                         *)
(* One step is one transaction; one that reverts is no step.  Amounts are  *)
(* exact and every division rounds down, as in the code.  Holders and      *)
(* their wallets are not told apart: `outside` is what is not in the pool  *)
(* of a pool's token, `wallets` all USDL that is in no contract modelled   *)
(* here, and a holder's balance is any part of them.  A payment to a       *)
(* contract is a payment to a wallet, and a transfer from there.           *)
(*                                                                         *)
(* A pool takes the input of a swap on trust: anybody may call it, and it  *)
(* does not look whether the amount has arrived.  What an optical's        *)
(* beforeSwap adds to an input is taken on trust in the same way: it is a  *)
(* transfer of what did arrive, and a direct call.  Calls an optical makes *)
(* in the middle of a swap are left out.                                   *)
(***************************************************************************)
EXTENDS Integers, FiniteSets, FiniteSetsExt

CONSTANTS
  Pools,
  Holders,        \* addresses outside the contracts that airdrops are claimed for
  Accumulator,    \* the address of the fee accumulator
  Virtual,        \* per pool: config.virtualUsdlDefault() when it is created
  Supply,         \* per pool: config.virtualTokenDefault() when it is created
  Bps,            \* a whole in the unit of rates; 10000 in the code
  FeeRates,       \* the values the dynamic fee may take
  TaxRates,       \* what an optical's beforeSwap may take of an input
  DivertRates,    \* what an optical may divert of a pool's fees
  ProtocolFeeBps,
  CreationFees,   \* the values the creation fee may have
  InitialUsdl,    \* USDL in existence
  Chosen,         \* bound, per pool: the strategies its owners choose among
  Inputs,         \* bound: the inputs a direct caller of a pool may state
  MaxUnpaid,      \* bound, per pool: what direct callers may leave unpaid
  MaxSpare,       \* bound, per contract: what a transfer may leave above a reserve, or held
  MaxEpochs       \* bound: airdrops per pool

Rates == 0 .. Bps - 1
Strategies == {"claim", "burn", "airdrop", "lp"}

ASSUME MarketAssumption ==
  /\ IsFiniteSet(Pools)
  /\ Accumulator \notin Pools /\ Holders \cap (Pools \cup {Accumulator}) = {}
  /\ Bps \in Nat \ {0}
  /\ Virtual \in [Pools -> Nat \ {0}]
  /\ Supply \in [Pools -> Nat \ {0}]
  /\ FeeRates \subseteq Rates /\ TaxRates \subseteq Rates
  /\ DivertRates \subseteq Rates
  /\ ProtocolFeeBps \in Rates
  /\ CreationFees \subseteq Nat
  /\ InitialUsdl \in Nat
  /\ Chosen \in [Pools -> SUBSET Strategies]
  /\ Inputs \subseteq Nat \ {0} /\ MaxUnpaid \in [Pools -> Nat]
  /\ MaxSpare \in [Pools \cup {Accumulator} -> Nat]
  /\ MaxEpochs \in Nat

VARIABLES
  markets,      \* pools that exist
  wallets,      \* USDL held outside
  outside,      \* per pool: its tokens held outside
  poolUsdl,     \* per pool: its USDL balance
  poolTokens,   \* per pool: its balance of its token
  realUsdl,     \* realUsdlBalance
  tokenReserve,
  held,         \* USDL balance of the accumulator
  accumulated,  \* _accumulatedFees
  surplus,      \* _opticalSurplus
  airdrop,      \* _airdropBalance
  epoch,        \* _airdropEpoch
  epochAmount,  \* _airdropEpochAmount of the current epoch
  claimed,      \* addresses the current epoch has been claimed for
  strategy,     \* per pool: the fee strategy of its NFT
  unpaidUsdl,   \* history: inputs of purchases that the pool did not have
  unpaidTokens  \* history: inputs of sales that the pool did not have

poolVars == <<poolUsdl, poolTokens, realUsdl, tokenReserve, outside>>
dropVars == <<airdrop, epoch, epochAmount, claimed>>
feeVars == <<held, accumulated, surplus, dropVars>>
unpaidVars == <<unpaidUsdl, unpaidTokens>>
vars == <<markets, wallets, poolVars, feeVars, strategy, unpaidVars>>

Amounts == [Pools -> Nat]
Claimants == Holders \cup Pools \cup {Accumulator}

\* The types, and that an airdrop has an amount.
TypeOK ==
  /\ markets \subseteq Pools
  /\ wallets \in Nat
  /\ outside \in Amounts
  /\ poolUsdl \in Amounts /\ poolTokens \in Amounts
  /\ realUsdl \in Amounts /\ tokenReserve \in Amounts
  /\ held \in Int  \* never negative: FeesBacked
  /\ accumulated \in Amounts /\ surplus \in Amounts /\ airdrop \in Amounts
  /\ epoch \in Amounts /\ epochAmount \in Amounts
  /\ \A p \in Pools : epoch[p] > 0 => epochAmount[p] > 0
  /\ claimed \in [Pools -> SUBSET Claimants]
  /\ strategy \in [Pools -> Strategies]
  /\ unpaidUsdl \in Amounts /\ unpaidTokens \in Amounts

Zero == [p \in Pools |-> 0]

Init ==
  /\ markets = {}
  /\ wallets = InitialUsdl
  /\ outside = Zero
  /\ poolUsdl = Zero /\ poolTokens = Zero
  /\ realUsdl = Zero /\ tokenReserve = Zero
  /\ held = 0
  /\ accumulated = Zero /\ surplus = Zero /\ airdrop = Zero
  /\ epoch = Zero /\ epochAmount = Zero
  /\ claimed = [p \in Pools |-> {}]
  /\ strategy = [p \in Pools |-> "claim"]
  /\ unpaidUsdl = Zero /\ unpaidTokens = Zero

Add(f, p, n) == [f EXCEPT ![p] = @ + n]

(***************************************************************************)
(* Arithmetic                                                              *)
(***************************************************************************)
Share(amount, rate) == (amount * rate) \div Bps

\* Mutant of AmountOut: the division rounds up.
AmountOutUp(reserveIn, reserveOut, amountIn) ==
  (reserveOut * amountIn + reserveIn + amountIn - 1) \div (reserveIn + amountIn)

\* ReserveLib.getAmountOut
AmountOut(reserveIn, reserveOut, amountIn) ==
  (reserveOut * amountIn) \div (reserveIn + amountIn)

Effective(p) == Virtual[p] + realUsdl[p]

\* What is left of an input after the optical's share and the fee.
Taxed(amount, tax) == amount - Share(amount, tax)
Fee(amount, tax, rate) == Share(Taxed(amount, tax), rate)

\* Mutant of Net: what is traded is not what is left after the fee.
NetGross(amount, tax, rate) == Taxed(amount, tax)

Net(amount, tax, rate) == Taxed(amount, tax) - Fee(amount, tax, rate)

(***************************************************************************)
(* The two directions of SidioraPool.swap.  The router deposits the whole  *)
(* input in the same transaction; a direct caller deposits nothing, and    *)
(* relies on what the pool holds beyond its reserves or on nothing.  What  *)
(* the optical takes of an input stays in the pool unaccounted until       *)
(* reserves are synced.  A payment that the balance does not allow         *)
(* reverts, as every ERC20 transfer does.                                  *)
(***************************************************************************)
TokensOut(p, net) == AmountOut(Effective(p), tokenReserve[p], net)
UsdlOut(p, net) == AmountOut(tokenReserve[p], Effective(p), net)

Positive(n) == IF n > 0 THEN n ELSE 0

\* What of an input is neither deposited nor held beyond the reserve.
Missing(input, deposit, spare) == Positive(input - deposit - Positive(spare))

\* recordFee: the protocol's cut leaves for the treasury, the rest is split
\* between the optical's surplus and the pool's fees.
ProtocolCut(fee) == Share(fee, ProtocolFeeBps)

\* Mutant of RecordFee: the pool is credited the protocol's cut as well.
RecordFeeWhole(p, fee, divert) ==
  LET poolCut  == fee - ProtocolCut(fee)
      diverted == Share(poolCut, divert)
  IN /\ held' = held + poolCut
     /\ surplus' = Add(surplus, p, diverted)
     /\ accumulated' = Add(accumulated, p, fee - diverted)
     /\ UNCHANGED dropVars

RecordFee(p, fee, divert) ==
  LET poolCut  == fee - ProtocolCut(fee)
      diverted == Share(poolCut, divert)
  IN /\ held' = held + poolCut
     /\ surplus' = Add(surplus, p, diverted)
     /\ accumulated' = Add(accumulated, p, poolCut - diverted)
     /\ UNCHANGED dropVars

Buy(p, amount, deposit, tax, rate, divert) ==
  LET net == Net(amount, tax, rate)
      fee == Fee(amount, tax, rate)
      out == TokensOut(p, net)
  IN /\ p \in markets
     /\ deposit <= wallets
     /\ net > 0 /\ tokenReserve[p] > 0
     /\ out <= tokenReserve[p] /\ out <= poolTokens[p]
     /\ fee <= poolUsdl[p] + deposit
     /\ wallets' = wallets - deposit
     /\ poolUsdl' = Add(poolUsdl, p, deposit - fee)
     /\ realUsdl' = Add(realUsdl, p, net)
     /\ tokenReserve' = Add(tokenReserve, p, -out)
     /\ poolTokens' = Add(poolTokens, p, -out)
     /\ outside' = Add(outside, p, out)
     /\ RecordFee(p, fee, divert)
     /\ unpaidUsdl' = Add(unpaidUsdl, p,
          Missing(Taxed(amount, tax), deposit, poolUsdl[p] - realUsdl[p]))
     /\ unpaidUsdl'[p] <= MaxUnpaid[p]
     /\ UNCHANGED <<markets, strategy, unpaidTokens>>

Sell(p, amount, deposit, tax, rate) ==
  LET net == Net(amount, tax, rate)
      out == UsdlOut(p, net)
  IN /\ p \in markets
     /\ deposit <= outside[p]
     /\ net > 0 /\ tokenReserve[p] > 0
     /\ out <= realUsdl[p] /\ out <= poolUsdl[p]
     /\ wallets' = wallets + out
     /\ poolUsdl' = Add(poolUsdl, p, -out)
     /\ realUsdl' = Add(realUsdl, p, -out)
     /\ tokenReserve' = Add(tokenReserve, p, Taxed(amount, tax))
     /\ poolTokens' = Add(poolTokens, p, deposit)
     /\ outside' = Add(outside, p, -deposit)
     /\ unpaidTokens' = Add(unpaidTokens, p,
          Missing(Taxed(amount, tax), deposit, poolTokens[p] - tokenReserve[p]))
     /\ unpaidTokens'[p] <= MaxUnpaid[p]
     /\ UNCHANGED <<markets, feeVars, strategy, unpaidUsdl>>

\* Router.swapTokenForToken: token of p for USDL, that USDL for token of q.
\* Each leg has the rates of its own pool, and its input is deposited.
Hop(p, q, amount, taxP, rateP, taxQ, rateQ, divert) ==
  LET netP == Net(amount, taxP, rateP)
      usdl == UsdlOut(p, netP)
      netQ == Net(usdl, taxQ, rateQ)
      fee  == Fee(usdl, taxQ, rateQ)
      out  == TokensOut(q, netQ)
  IN /\ p \in markets /\ q \in markets /\ p # q
     /\ amount \in 1 .. outside[p]
     /\ netP > 0 /\ tokenReserve[p] > 0
     /\ usdl <= realUsdl[p] /\ usdl <= poolUsdl[p]
     /\ netQ > 0 /\ tokenReserve[q] > 0
     /\ out <= tokenReserve[q] /\ out <= poolTokens[q]
     /\ poolUsdl' = Add(Add(poolUsdl, p, -usdl), q, usdl - fee)
     /\ realUsdl' = Add(Add(realUsdl, p, -usdl), q, netQ)
     /\ tokenReserve' = Add(Add(tokenReserve, p, Taxed(amount, taxP)), q, -out)
     /\ poolTokens' = Add(Add(poolTokens, p, amount), q, -out)
     /\ outside' = Add(Add(outside, p, -amount), q, out)
     /\ RecordFee(q, fee, divert)
     /\ UNCHANGED <<markets, wallets, strategy, unpaidVars>>

(***************************************************************************)
(* Creation, direct transfers and syncReserves                             *)
(***************************************************************************)
\* The whole supply goes to the pool; the creation fee leaves the wallets.
CreateMarket(p, fee, s) ==
  /\ p \notin markets
  /\ fee <= wallets
  /\ markets' = markets \cup {p}
  /\ wallets' = wallets - fee
  /\ poolTokens' = [poolTokens EXCEPT ![p] = Supply[p]]
  /\ tokenReserve' = [tokenReserve EXCEPT ![p] = Supply[p]]
  /\ strategy' = [strategy EXCEPT ![p] = s]
  /\ UNCHANGED <<outside, poolUsdl, realUsdl, feeVars, unpaidVars>>

\* Anybody can transfer to a pool's address without trading, USDL also before
\* the pool is there.
SendToPool(p, usdl, tokens) ==
  /\ usdl \in 0 .. wallets /\ tokens \in 0 .. outside[p]
  /\ poolUsdl[p] + usdl <= realUsdl[p] + MaxSpare[p]
  /\ poolTokens[p] + tokens <= tokenReserve[p] + MaxSpare[p]
  /\ wallets' = wallets - usdl
  /\ outside' = Add(outside, p, -tokens)
  /\ poolUsdl' = Add(poolUsdl, p, usdl)
  /\ poolTokens' = Add(poolTokens, p, tokens)
  /\ UNCHANGED <<markets, realUsdl, tokenReserve, feeVars, strategy, unpaidVars>>

\* ... and to the accumulator's.
SendToAccumulator(usdl) ==
  /\ usdl \in 0 .. wallets
  /\ held + usdl <= MaxSpare[Accumulator]
  /\ wallets' = wallets - usdl
  /\ held' = held + usdl
  /\ UNCHANGED <<markets, poolVars, accumulated, surplus, dropVars, strategy,
                 unpaidVars>>

SyncReserves(p) ==
  /\ p \in markets
  /\ realUsdl' = [realUsdl EXCEPT ![p] = poolUsdl[p]]
  /\ tokenReserve' = [tokenReserve EXCEPT ![p] = poolTokens[p]]
  /\ UNCHANGED <<markets, wallets, outside, poolUsdl, poolTokens, feeVars, strategy,
                 unpaidVars>>

(***************************************************************************)
(* Fees: the owner's strategies and the holders' claims                    *)
(***************************************************************************)
SetFeeStrategy(p, s) ==
  /\ p \in markets
  /\ strategy' = [strategy EXCEPT ![p] = s]
  /\ UNCHANGED <<markets, wallets, poolVars, feeVars, unpaidVars>>

\* The pool's fees are taken out of their bucket as a whole.
TakeFees(p, s) ==
  /\ p \in markets
  /\ strategy[p] = s
  /\ accumulated[p] > 0
  /\ accumulated' = [accumulated EXCEPT ![p] = 0]
  /\ UNCHANGED <<markets, surplus, strategy, unpaidVars>>

ClaimFees(p) ==
  /\ TakeFees(p, "claim")
  /\ held' = held - accumulated[p]
  /\ wallets' = wallets + accumulated[p]
  /\ UNCHANGED <<poolVars, dropVars>>

ExecuteBurn(p) ==
  /\ TakeFees(p, "burn")
  /\ held' = held - accumulated[p]
  /\ UNCHANGED <<wallets, poolVars, dropVars>>

\* Mutant of ExecuteAirdrop: the amount is read after the bucket is emptied.
ExecuteAirdropLate(p) ==
  /\ TakeFees(p, "airdrop")
  /\ epoch[p] < MaxEpochs
  /\ epoch' = Add(epoch, p, 1)
  /\ epochAmount' = [epochAmount EXCEPT ![p] = accumulated'[p]]
  /\ airdrop' = Add(airdrop, p, accumulated'[p])
  /\ claimed' = [claimed EXCEPT ![p] = {}]
  /\ UNCHANGED <<wallets, poolVars, held>>

ExecuteAirdrop(p) ==
  /\ TakeFees(p, "airdrop")
  /\ epoch[p] < MaxEpochs
  /\ epoch' = Add(epoch, p, 1)
  /\ epochAmount' = [epochAmount EXCEPT ![p] = accumulated[p]]
  /\ airdrop' = Add(airdrop, p, accumulated[p])
  /\ claimed' = [claimed EXCEPT ![p] = {}]
  /\ UNCHANGED <<wallets, poolVars, held>>

ExecuteLpRewards(p) ==
  /\ TakeFees(p, "lp")
  /\ held' = held - accumulated[p]
  /\ poolUsdl' = Add(poolUsdl, p, accumulated[p])
  /\ realUsdl' = [realUsdl EXCEPT ![p] = poolUsdl'[p]]
  /\ tokenReserve' = [tokenReserve EXCEPT ![p] = poolTokens[p]]
  /\ UNCHANGED <<wallets, poolTokens, outside, dropVars>>

\* USDL that the accumulator pays to an address, itself perhaps.
PayOut(to, amount) ==
  /\ held' = IF to = Accumulator THEN held ELSE held - amount
  /\ poolUsdl' = IF to \in Pools THEN Add(poolUsdl, to, amount) ELSE poolUsdl
  /\ wallets' = IF to \in Holders THEN wallets + amount ELSE wallets
  /\ UNCHANGED <<realUsdl, poolTokens, tokenReserve, outside>>

\* Anybody may claim for any address h with a balance of n tokens, a pool or the
\* accumulator among them; the subtraction is checked.
ClaimAirdrop(p, h, n) ==
  LET amount == (epochAmount[p] * n) \div Supply[p]
  IN /\ p \in markets
     /\ epoch[p] > 0
     /\ h \notin claimed[p]
     /\ IF h = p THEN n = poolTokens[p] ELSE n <= outside[p]
     /\ n > 0
     /\ amount \in 1 .. airdrop[p]
     /\ claimed' = [claimed EXCEPT ![p] = @ \cup {h}]
     /\ airdrop' = Add(airdrop, p, -amount)
     /\ PayOut(h, amount)
     /\ UNCHANGED <<markets, accumulated, surplus, epoch, epochAmount, strategy,
                    unpaidVars>>

ClaimOpticalSurplus(p, amount) ==
  /\ p \in markets
  /\ amount \in 1 .. surplus[p]
  /\ surplus' = Add(surplus, p, -amount)
  /\ held' = held - amount
  /\ wallets' = wallets + amount
  /\ UNCHANGED <<markets, poolVars, accumulated, dropVars, strategy, unpaidVars>>

Next ==
  \/ \E p \in Pools :
       \/ \E tax \in TaxRates, rate \in FeeRates, divert \in DivertRates :
            \/ \E amount \in 1 .. wallets : Buy(p, amount, amount, tax, rate, divert)
            \/ \E amount \in Inputs : Buy(p, amount, 0, tax, rate, divert)
            \/ \E q \in Pools, amount \in 1 .. outside[p], taxQ \in TaxRates,
                 rateQ \in FeeRates :
                 Hop(p, q, amount, tax, rate, taxQ, rateQ, divert)
       \/ \E tax \in TaxRates, rate \in FeeRates :
            \/ \E amount \in 1 .. outside[p] : Sell(p, amount, amount, tax, rate)
            \/ \E amount \in Inputs : Sell(p, amount, 0, tax, rate)
       \/ \E fee \in CreationFees, s \in Chosen[p] : CreateMarket(p, fee, s)
       \/ \E usdl \in 0 .. wallets, tokens \in 0 .. outside[p] :
            SendToPool(p, usdl, tokens)
       \/ SyncReserves(p)
       \/ \E s \in Chosen[p] : SetFeeStrategy(p, s)
       \/ ClaimFees(p) \/ ExecuteBurn(p) \/ ExecuteAirdrop(p) \/ ExecuteLpRewards(p)
       \/ \E h \in Claimants, n \in 1 .. Supply[p] : ClaimAirdrop(p, h, n)
       \/ \E amount \in 1 .. surplus[p] : ClaimOpticalSurplus(p, amount)
  \/ \E usdl \in 0 .. wallets : SendToAccumulator(usdl)

Spec == Init /\ [][Next]_vars

(***************************************************************************)
(* Properties                                                              *)
(***************************************************************************)

\* A pool is short of what it prices with by no more than direct callers left
\* unpaid, on either side: nothing is lost to rounding, to fees that stay in the
\* pool or leave it, to taxes that stay unaccounted, to reserves that are synced,
\* nor to what is paid out of a pool that is short.
PoolBacked ==
  \A p \in Pools : /\ realUsdl[p] <= poolUsdl[p] + unpaidUsdl[p]
                   /\ tokenReserve[p] <= poolTokens[p] + unpaidTokens[p]

\* The accumulator holds at least the sum of the buckets of all pools, so no
\* payout of one pool is made from another's fees: through protocol cuts,
\* diversions, claims, burns, rewards, and airdrops claimed in part and for any
\* address, the accumulator's own among them.
FeesBacked ==
  held >= SumFunctionOnSet([p \in Pools |-> accumulated[p] + surplus[p] + airdrop[p]],
                           Pools)

Product(p) == Effective(p) * tokenReserve[p]
Short(p) == realUsdl[p] > poolUsdl[p] \/ tokenReserve[p] > poolTokens[p]
Synced(p) == realUsdl[p] = poolUsdl[p] /\ tokenReserve[p] = poolTokens[p]

\* Rounding favours the pool: no transaction makes the product of a pool's
\* effective reserves smaller, in either direction, over two pools, paid or not,
\* but one that overwrites the reserves of a pool that is short.
ProductKept ==
  [][\A p \in markets : Product(p)' >= Product(p) \/ (Short(p) /\ Synced(p)')]_vars

\* The virtual floor never stands in the way of a pool whose swaps were paid:
\* whatever part of the tokens in circulation is sold, it has the USDL its
\* formula promises (the revert VirtualFloorBreached is never taken).
FloorNeverBinds ==
  \A p \in markets : unpaidUsdl[p] = 0 /\ unpaidTokens[p] = 0 =>
    \A net \in 1 .. outside[p] : UsdlOut(p, net) <= realUsdl[p]
=============================================================================
