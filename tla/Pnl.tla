-------------------------------- MODULE Pnl --------------------------------
(***************************************************************************)
(* The positions of core/pnl-tracker.  Two paths fold the swaps that the   *)
(* indexer stores: the webhook handlers (position.Consumer), which a swap  *)
(* reaches late, twice or never, and the reconciler, which walks           *)
(* indexer.swaps behind a cursor.  Both call store.FoldTrade, a            *)
(* transaction under an advisory lock on the user and pool.                *)
(*                                                                         *)
(* There is one pool, so a position is found by its user.  A swap is its   *)
(* rank in (block_number, log_index) order.  Timestamps and the resolved   *)
(* token address, which no amount depends on, are left out.                *)
(***************************************************************************)
EXTENDS Integers, Sequences, FiniteSets, SequencesExt, FiniteSetsExt

CONSTANTS
  Swap,           \* the swaps of the chain, in chain order
  Wad,            \* the fixed-point scale of the average cost
  Handlers,       \* the webhook requests that may be served at once
  Reconciler,     \* the reconciler, which folds as the handlers do
  BatchSize,      \* rows of one reconciler query
  None,           \* no cache entry, or no read under way
  Readers,        \* bound: the users whose positions are read
  MaxDeliveries,  \* bound: swaps handed to the handlers
  MaxFaults       \* bound: failed calls and crashes

Ids == 1 .. Len(Swap)
Users == {Swap[i].user : i \in Ids}
Workers == Handlers \cup {Reconciler}

ASSUME PnlAssumption ==
  /\ Swap \in Seq([user : STRING, isBuy : BOOLEAN, usdl : Nat, token : Nat])
  /\ Wad \in Nat \ {0} /\ BatchSize \in Nat \ {0}
  /\ Reconciler \notin Handlers
  /\ MaxDeliveries \in Nat /\ MaxFaults \in Nat

VARIABLES
  rows,        \* indexer.swaps
  trades,      \* pnl.user_trades
  pos,         \* pnl.user_positions, by user
  cursor,      \* pnl.reconciler_cursor
  tx,          \* the call of FoldTrade each worker is in
  rec,         \* the call of RunOnce the reconciler is in
  cache,       \* the cached response of every user, in Redis
  reading,     \* the response a reader has computed and not cached yet
  late,        \* history: rows stored behind the reconciler
  deliveries,  \* bound
  faults       \* bound

vars == <<rows, trades, pos, cursor, tx, rec, cache, reading, late,
          deliveries, faults>>
indexer == <<rows, late>>
ledger == <<trades, pos>>
reads == <<cache, reading>>

-----------------------------------------------------------------------------
(* pnlmath *)

NoPosition == [spent |-> 0, bought |-> 0, received |-> 0, sold |-> 0,
               avgCost |-> 0, holdings |-> 0, realized |-> 0, count |-> 0]

\* The average cost of a token, scaled by Wad, after spending usdl on bought.
AvgCost(usdl, bought, before) ==
  IF bought > 0 THEN (usdl * Wad) \div bought ELSE before

Bought(p, s) ==
  [spent |-> p.spent + s.usdl, bought |-> p.bought + s.token,
   received |-> p.received, sold |-> p.sold,
   avgCost |-> AvgCost(p.spent + s.usdl, p.bought + s.token, p.avgCost),
   holdings |-> p.holdings + s.token,
   realized |-> p.realized, count |-> p.count + 1]

Sold(p, s) ==
  [spent |-> p.spent, bought |-> p.bought,
   received |-> p.received + s.usdl, sold |-> p.sold + s.token,
   avgCost |-> p.avgCost,
   holdings |-> IF p.holdings < s.token THEN 0 ELSE p.holdings - s.token,
   realized |-> p.realized + s.usdl - (p.avgCost * s.token) \div Wad,
   count |-> p.count + 1]

Fold(p, s) == IF s.isBuy THEN Bought(p, s) ELSE Sold(p, s)

-----------------------------------------------------------------------------
(* Calls in progress *)

\* prior is the position the transaction has read.
Call(at, i) == [at |-> at, row |-> i, prior |-> NoPosition]
NoTx == Call("idle", 0)
\* last is the last row folded in this run, 0 when there is none.
NoRun == [at |-> "idle", todo |-> {}, last |-> 0, touched |-> {}]
Salvage(i) == [at |-> "salvage", todo |-> {}, last |-> i, touched |-> {}]

UserOf(w) == Swap[tx[w].row].user
InTx(w) == tx[w].at \in {"locked", "loaded"}

\* Mutant: the lock is taken on the trade's id, which two trades do not share.
Locked_OnTradeId(u) == FALSE

\* pg_advisory_xact_lock on user|pool, held until the transaction ends
Locked(u) == \E w \in Workers : InTx(w) /\ UserOf(w) = u

\* Mutant: the query starts one key too late.
ListUnreconciled_Late ==
  {i \in rows : /\ i > cursor + 1
                /\ Cardinality({j \in rows : cursor < j /\ j < i}) < BatchSize}

\* ListUnreconciledSwaps: the first rows past the cursor
ListUnreconciled ==
  {i \in rows : /\ i > cursor
                /\ Cardinality({j \in rows : cursor < j /\ j < i}) < BatchSize}

\* What the reconciler has read up to: a row stored below is not seen by it.
Behind(i) == i <= cursor \/ \E j \in rec.todo \cup {rec.last} : i < j

Position == [spent : Nat, bought : Nat, received : Nat, sold : Nat,
             avgCost : Nat, holdings : Nat, realized : Int, count : Nat]
Tx == [at : {"idle", "want", "locked", "loaded", "bust"},
       row : {0} \cup Ids, prior : Position]
Run == [at : {"idle", "fold", "advance", "salvage", "bust"},
        todo : SUBSET Ids, last : {0} \cup Ids, touched : SUBSET Users]

\* Every variable has its type, and every row that a call, the cursor or the
\* reconciler's run refers to is a row of indexer.swaps.
TypeOK ==
  /\ rows \subseteq Ids /\ late \subseteq rows
  /\ trades \subseteq rows /\ pos \in [Users -> Position]
  /\ cursor \in {0} \cup rows
  /\ tx \in [Workers -> Tx]
  /\ \A w \in Workers : tx[w].at # "idle" => tx[w].row \in rows
  /\ rec \in Run /\ rec.todo \subseteq rows /\ rec.last \in {0} \cup rows
  /\ cache \in [Users -> Position \cup {None}]
  /\ reading \in [Users -> Position \cup {None}]
  /\ deliveries \in 0 .. MaxDeliveries /\ faults \in 0 .. MaxFaults

Init ==
  /\ rows = {} /\ late = {}
  /\ trades = {} /\ pos = [u \in Users |-> NoPosition] /\ cursor = 0
  /\ tx = [w \in Workers |-> NoTx] /\ rec = NoRun
  /\ cache = [u \in Users |-> None] /\ reading = [u \in Users |-> None]
  /\ deliveries = 0 /\ faults = 0

Fault == faults < MaxFaults /\ faults' = faults + 1

-----------------------------------------------------------------------------
(* The indexer's table *)

\* The live processor stores swaps in chain order.
StoreLive(i) ==
  /\ \A j \in rows : j < i
  /\ rows' = rows \cup {i}
  /\ UNCHANGED <<late, ledger, cursor, tx, rec, reads, deliveries, faults>>

\* A backfill adds what the live processor never stored.
StoreBackfill(i) ==
  /\ i \notin rows /\ rows' = rows \cup {i}
  /\ late' = IF Behind(i) THEN late \cup {i} ELSE late
  /\ UNCHANGED <<ledger, cursor, tx, rec, reads, deliveries, faults>>

-----------------------------------------------------------------------------
(* FoldTrade *)

\* What the caller does once FoldTrade has returned inserted.
Returned(w, inserted) ==
  IF w = Reconciler
  THEN LET i == tx[w].row IN
       /\ tx' = [tx EXCEPT ![w] = NoTx]
       /\ rec' = [at |-> IF rec.todo = {i} THEN "advance" ELSE "fold",
                  todo |-> rec.todo \ {i},
                  last |-> i,
                  touched |-> IF inserted THEN rec.touched \cup {UserOf(w)}
                                          ELSE rec.touched]
  ELSE /\ tx' = [tx EXCEPT ![w] = IF inserted THEN Call("bust", tx[w].row)
                                             ELSE NoTx]
       /\ UNCHANGED rec

\* Mutant: the row that failed counts as processed.
Failed_PastTheRow(w) ==
  /\ tx' = [tx EXCEPT ![w] = NoTx]
  /\ IF w = Reconciler
     THEN rec' = Salvage(tx[w].row)
     ELSE UNCHANGED rec

\* What the caller does once FoldTrade has returned an error.
Failed(w) ==
  /\ tx' = [tx EXCEPT ![w] = NoTx]
  /\ IF w = Reconciler
     THEN rec' = IF rec.last = 0 THEN NoRun
                 ELSE Salvage(rec.last)
     ELSE UNCHANGED rec

TxBegin(w) ==
  /\ tx[w].at = "want" /\ ~Locked(UserOf(w))
  /\ tx' = [tx EXCEPT ![w] = Call("locked", tx[w].row)]
  /\ UNCHANGED <<indexer, ledger, cursor, rec, reads, deliveries, faults>>

\* INSERT ... ON CONFLICT (id) DO NOTHING
TxConflict(w) ==
  /\ tx[w].at = "locked" /\ tx[w].row \in trades
  /\ Returned(w, FALSE)
  /\ UNCHANGED <<indexer, ledger, cursor, reads, deliveries, faults>>

\* Mutant: an insert that conflicts is not told from one that does not.
TxInsert_Conflict(w) ==
  /\ tx[w].at = "locked"
  /\ tx' = [tx EXCEPT ![w] = [at |-> "loaded", row |-> tx[w].row,
                                prior |-> pos[UserOf(w)]]]
  /\ UNCHANGED <<indexer, ledger, cursor, rec, reads, deliveries, faults>>

TxInsert(w) ==
  /\ tx[w].at = "locked" /\ tx[w].row \notin trades
  /\ tx' = [tx EXCEPT ![w] = [at |-> "loaded", row |-> tx[w].row,
                                prior |-> pos[UserOf(w)]]]
  /\ UNCHANGED <<indexer, ledger, cursor, rec, reads, deliveries, faults>>

Record(w) ==
  /\ tx[w].at = "loaded"
  /\ trades' = trades \cup {tx[w].row}
  /\ pos' = [pos EXCEPT ![UserOf(w)] = Fold(tx[w].prior, Swap[tx[w].row])]

TxCommit(w) ==
  /\ Record(w) /\ Returned(w, TRUE)
  /\ UNCHANGED <<indexer, cursor, reads, deliveries, faults>>

\* The database commits and the caller is told of an error.
TxCommitLost(w) ==
  /\ Fault /\ Record(w) /\ Failed(w)
  /\ UNCHANGED <<indexer, cursor, reads, deliveries>>

TxFail(w) ==
  /\ Fault /\ (tx[w].at = "want" \/ InTx(w)) /\ Failed(w)
  /\ UNCHANGED <<indexer, ledger, cursor, reads, deliveries>>

-----------------------------------------------------------------------------
(* The webhook *)

\* Of any stored swap: those of a backfill may be fanned out too (Processor).
Deliver(h, i) ==
  /\ tx[h].at = "idle" /\ i \in rows
  /\ deliveries < MaxDeliveries /\ deliveries' = deliveries + 1
  /\ tx' = [tx EXCEPT ![h] = Call("want", i)]
  /\ UNCHANGED <<indexer, ledger, cursor, rec, reads, faults>>

InvalidateUser(u) == cache' = [cache EXCEPT ![u] = None]

HandlerBust(h) ==
  /\ tx[h].at = "bust" /\ InvalidateUser(UserOf(h))
  /\ tx' = [tx EXCEPT ![h] = NoTx]
  /\ UNCHANGED <<indexer, ledger, cursor, rec, reading, deliveries, faults>>

HandlerBustFails(h) ==
  /\ Fault /\ tx[h].at = "bust" /\ tx' = [tx EXCEPT ![h] = NoTx]
  /\ UNCHANGED <<indexer, ledger, cursor, rec, reads, deliveries>>

-----------------------------------------------------------------------------
(* The reconciler *)

RecList ==
  /\ rec.at = "idle" /\ ListUnreconciled # {}
  /\ rec' = [rec EXCEPT !.at = "fold", !.todo = ListUnreconciled]
  /\ UNCHANGED <<indexer, ledger, cursor, tx, reads, deliveries, faults>>

RecNext ==
  /\ rec.at = "fold" /\ tx[Reconciler].at = "idle"
  /\ \E i \in rec.todo :
       /\ \A j \in rec.todo : i <= j
       /\ tx' = [tx EXCEPT ![Reconciler] = Call("want", i)]
  /\ UNCHANGED <<indexer, ledger, cursor, rec, reads, deliveries, faults>>

\* Mutant: the cursor is the next key to read rather than the last one read.
RecAdvance_NextKey ==
  /\ rec.at \in {"advance", "salvage"} /\ cursor' = rec.last + 1
  /\ rec' = IF rec.at = "advance" THEN [rec EXCEPT !.at = "bust"] ELSE NoRun
  /\ UNCHANGED <<indexer, ledger, tx, reads, deliveries, faults>>

\* After the batch, or before an error is returned from the middle of it.
RecAdvance ==
  /\ rec.at \in {"advance", "salvage"} /\ cursor' = rec.last
  /\ rec' = IF rec.at = "advance" THEN [rec EXCEPT !.at = "bust"] ELSE NoRun
  /\ UNCHANGED <<indexer, ledger, tx, reads, deliveries, faults>>

RecAdvanceFails ==
  /\ Fault /\ rec.at \in {"advance", "salvage"} /\ rec' = NoRun
  /\ UNCHANGED <<indexer, ledger, cursor, tx, reads, deliveries>>

RecBust(u) ==
  /\ rec.at = "bust" /\ u \in rec.touched /\ InvalidateUser(u)
  /\ rec' = [rec EXCEPT !.touched = @ \ {u}]
  /\ UNCHANGED <<indexer, ledger, cursor, tx, reading, deliveries, faults>>

RecBustFails(u) ==
  /\ Fault /\ rec.at = "bust" /\ u \in rec.touched
  /\ rec' = [rec EXCEPT !.touched = @ \ {u}]
  /\ UNCHANGED <<indexer, ledger, cursor, tx, reads, deliveries>>

RecDone ==
  /\ rec.at = "bust" /\ rec.touched = {} /\ rec' = NoRun
  /\ UNCHANGED <<indexer, ledger, cursor, tx, reads, deliveries, faults>>

-----------------------------------------------------------------------------
(* The cached reads *)

ReadMiss(u) ==
  /\ u \in Readers /\ cache[u] = None /\ reading[u] = None
  /\ reading' = [reading EXCEPT ![u] = pos[u]]
  /\ UNCHANGED <<indexer, ledger, cursor, tx, rec, cache, deliveries, faults>>

ReadStore(u) ==
  /\ reading[u] # None
  /\ cache' = [cache EXCEPT ![u] = reading[u]]
  /\ reading' = [reading EXCEPT ![u] = None]
  /\ UNCHANGED <<indexer, ledger, cursor, tx, rec, deliveries, faults>>

\* Mutant: the entry is stored without a time to live.
Expire_Never(u) == FALSE

\* The time to live of the entry runs out.
Expire(u) ==
  /\ cache[u] # None /\ cache' = [cache EXCEPT ![u] = None]
  /\ UNCHANGED <<indexer, ledger, cursor, tx, rec, reading, deliveries, faults>>

\* The process dies; PostgreSQL rolls its transactions back.
Crash ==
  /\ Fault /\ tx' = [w \in Workers |-> NoTx] /\ rec' = NoRun
  /\ reading' = [u \in Users |-> None]
  /\ UNCHANGED <<indexer, ledger, cursor, cache, deliveries>>

FoldTrade(w) ==
  TxBegin(w) \/ TxConflict(w) \/ TxInsert(w) \/ TxCommit(w)

Reconcile ==
  \/ RecList \/ RecNext \/ RecAdvance \/ RecDone
  \/ \E u \in Users : RecBust(u)

Next ==
  \/ \E i \in Ids : StoreLive(i) \/ StoreBackfill(i)
  \/ \E w \in Workers : FoldTrade(w) \/ TxCommitLost(w) \/ TxFail(w)
  \/ \E h \in Handlers : \/ \E i \in Ids : Deliver(h, i)
                         \/ HandlerBust(h) \/ HandlerBustFails(h)
  \/ Reconcile \/ RecAdvanceFails \/ \E u \in Users : RecBustFails(u)
  \/ \E u \in Users : ReadMiss(u) \/ ReadStore(u) \/ Expire(u)
  \/ Crash

Spec == Init /\ [][Next]_vars

\* The reconciler's ticker keeps firing, statements return, and Redis expires
\* keys.  Nothing makes the indexer store, deliver, or anybody read.
FairSpec ==
  /\ Spec
  /\ WF_vars(Reconcile)
  /\ \A w \in Workers : WF_vars(FoldTrade(w))
  /\ \A u \in Users : WF_vars(Expire(u))

-----------------------------------------------------------------------------
(* Properties *)

\* The cursor of the reconciler never passes a row that was in its query's
\* reach and is in no position: a batch that fails half way is salvaged up to
\* its last folded row and no further (reconcile.go).
NothingSkipped ==
  \A i \in rows \ late : i <= cursor => i \in trades

Mine(u, buys) == {i \in trades : Swap[i].user = u /\ Swap[i].isBuy = buys}
Sum(S, amount) == SumFunctionOnSet([i \in Ids |-> Swap[i][amount]], S)

\* Whatever was delivered twice, retried or lost, the totals of a position are
\* those of the trades recorded for its user, and the holdings lie between
\* what the totals account for and what was bought (FoldTrade, pnlmath.Fold).
TotalsExact ==
  \A u \in Users :
    LET B == Mine(u, TRUE)
        S == Mine(u, FALSE)
    IN /\ pos[u].spent = Sum(B, "usdl") /\ pos[u].bought = Sum(B, "token")
       /\ pos[u].received = Sum(S, "usdl") /\ pos[u].sold = Sum(S, "token")
       /\ pos[u].count = Cardinality(B \cup S)
       /\ pos[u].holdings \in
            Max({0, pos[u].bought - pos[u].sold}) .. pos[u].bought

\* However the two paths interleave, a change of the tables records one new
\* trade and folds that trade alone into the position as it stands: no fold is
\* computed from a position another transaction has since replaced (FoldTrade).
FoldsOne ==
  [][\E i \in rows \ trades :
       /\ trades' = trades \cup {i}
       /\ pos' = [pos EXCEPT ![Swap[i].user] = Fold(@, Swap[i])]]_ledger

\* A row whose webhook was lost, or failed, is folded by the reconciler in the
\* end, unless it was stored behind it.
Reconciled == \A i \in Ids : (i \in rows \ late) ~> (i \in trades)

\* A reader that computed its response before a fold may cache it after the
\* invalidation, and an invalidation may fail; the positions served from the
\* cache are the stored ones in the end all the same (cachedJSON, PositionsTTL).
CacheSettles == <>[](\A u \in Users : cache[u] \in {None, pos[u]})

\* "realtime delivery and backfill converge to the same state"
\* (position/consumer.go, package comment): once every stored swap is folded, a
\* position is the fold of its user's swaps in chain order.
Converges ==
  trades = rows =>
    \A u \in Users :
      LET Own(i) == Swap[i].user = u
          mine == SelectSeq(SetToSortSeq(rows, <), Own)
      IN pos[u] = FoldLeft(LAMBDA p, i : Fold(p, Swap[i]), NoPosition, mine)
=============================================================================
