----------------------------- MODULE PnlProofs -----------------------------
(***************************************************************************)
(* Theorems about the positions of core/pnl-tracker, for every chain of    *)
(* swaps, every number of handlers, every batch size and every bound.  Two *)
(* invariants carry them: what the advisory lock protects (LockOK), and    *)
(* what the reconciler has passed over (RunOK).                            *)
(***************************************************************************)
EXTENDS Pnl, Sums

\* A transaction that has loaded a position holds the stored one, its trade is
\* not recorded yet, and no other transaction works on the same user.
LockOK ==
  /\ \A w \in Workers : tx[w].at = "loaded" =>
       tx[w].prior = pos[UserOf(w)] /\ tx[w].row \notin trades
  /\ \A v, w \in Workers : InTx(v) /\ InTx(w) /\ UserOf(v) = UserOf(w) => v = w

\* The reconciler folds the lowest row of its batch; what lies below that row,
\* the last one it folded or the cursor is recorded, or in the batch.
RunOK ==
  /\ tx[Reconciler].at # "idle" =>
       /\ rec.at = "fold"
       /\ tx[Reconciler].row \in rec.todo
       /\ \A j \in rec.todo : tx[Reconciler].row <= j
  /\ tx[Reconciler].at # "bust"
  /\ \A i \in rows \ late : i <= rec.last => i \in trades
  /\ \A i \in rows \ late :
       (\E j \in rec.todo : i < j) => i \in trades \/ i \in rec.todo

IInv == TypeOK /\ LockOK /\ RunOK /\ NothingSkipped

-----------------------------------------------------------------------------
(* Type correctness *)

\* A swap has a user, a side and amounts.
LEMMA SwapType == ASSUME NEW i \in Ids
                  PROVE  /\ i \in Nat \ {0}
                         /\ Swap[i] \in [user : STRING, isBuy : BOOLEAN,
                                         usdl : Nat, token : Nat]
                         /\ Swap[i].user \in Users
<1>1. Swap[i].user \in Users
  BY DEF Users
<1> DEFINE R == [user : STRING, isBuy : BOOLEAN, usdl : Nat, token : Nat]
<1>2. Swap \in Seq(R)
  BY PnlAssumption
<1> HIDE DEF R
<1>3. i \in Nat \ {0} /\ Swap[i] \in R
  BY <1>2 DEF Ids
<1>4. QED
  BY <1>1, <1>3 DEF R

\* Folding a trade into a position gives a position: only the realised profit
\* may be negative (pnlmath.Fold).
LEMMA FoldType ==
  ASSUME NEW p \in Position, NEW i \in Ids
  PROVE  Fold(p, Swap[i]) \in Position
<1> DEFINE s == Swap[i]
<1>1. s \in [user : STRING, isBuy : BOOLEAN, usdl : Nat, token : Nat]
  BY SwapType
<1>2. Wad \in Nat \ {0}
  BY PnlAssumption
<1>3. Bought(p, s) \in Position
  <2>1. \A a \in Nat, b \in Nat : b > 0 => (a \div b) \in Nat
    OBVIOUS
  <2>2. (p.spent + s.usdl) * Wad \in Nat
    BY <1>1, <1>2 DEF Position
  <2>3. p.bought + s.token \in Nat
    BY <1>1 DEF Position
  <2>4. p.bought + s.token > 0 =>
          (((p.spent + s.usdl) * Wad) \div (p.bought + s.token)) \in Nat
    BY <2>1, <2>2, <2>3
  <2>5. AvgCost(p.spent + s.usdl, p.bought + s.token, p.avgCost) \in Nat
    BY <2>4 DEF AvgCost, Position
  <2>6. QED
    BY <1>1, <2>5 DEF Bought, Position
<1>4. Sold(p, s) \in Position
  <2>1. ((p.avgCost * s.token) \div Wad) \in Int
    <3>1. p.avgCost * s.token \in Int
      BY <1>1 DEF Position
    <3>2. QED
      BY <3>1, <1>2
  <2>2. QED
    BY <1>1, <2>1 DEF Sold, Position
<1>5. QED
  BY <1>3, <1>4 DEF Fold

\* The records that calls and runs are set to have their types.
LEMMA CallTypes ==
  /\ NoPosition \in Position /\ NoTx \in Tx /\ NoRun \in Run
  /\ \A i \in Ids : /\ Call("want", i) \in Tx /\ Call("locked", i) \in Tx
                    /\ Call("bust", i) \in Tx /\ Salvage(i) \in Run
  /\ NoTx.at = "idle" /\ NoRun.todo = {} /\ NoRun.last = 0
  /\ \A at, i : Call(at, i).at = at /\ Call(at, i).row = i
BY DEF NoPosition, Position, NoTx, Call, Tx, NoRun, Salvage, Run

\* Replacing one worker's call by another keeps the calls well formed.
LEMMA TxUpdate ==
  ASSUME TypeOK, rows \subseteq rows', rows' \subseteq Ids,
         NEW w \in Workers, NEW t \in Tx, t.at # "idle" => t.row \in rows',
         tx' = [tx EXCEPT ![w] = t]
  PROVE  /\ tx' \in [Workers -> Tx]
         /\ \A v \in Workers : tx'[v].at # "idle" => tx'[v].row \in rows'
BY DEF TypeOK

\* The two ways in which a call of FoldTrade ends.
LEMMA ReturnedType ==
  ASSUME TypeOK, UNCHANGED rows, NEW w \in Workers, tx[w].at # "idle",
         NEW inserted \in BOOLEAN, Returned(w, inserted)
  PROVE  /\ tx' \in [Workers -> Tx]
         /\ \A v \in Workers : tx'[v].at # "idle" => tx'[v].row \in rows'
         /\ rec' \in Run /\ rec'.todo \subseteq rows
         /\ rec'.last \in {0} \cup rows
<1> DEFINE i == tx[w].row
<1>1. i \in rows /\ i \in Ids /\ UserOf(w) \in Users
  BY SwapType DEF TypeOK, UserOf
<1>2. CASE w = Reconciler
  <2>1. rec' \in Run /\ rec'.todo \subseteq rows /\ rec'.last \in {0} \cup rows
    BY <1>1, <1>2 DEF Returned, Run, TypeOK
  <2>2. QED
    BY <1>2, <2>1, CallTypes, TxUpdate DEF Returned, TypeOK
<1>3. CASE w # Reconciler
  <2>1. PICK t \in Tx : /\ tx' = [tx EXCEPT ![w] = t]
                        /\ t.at # "idle" => t.row \in rows'
    BY <1>1, <1>3, CallTypes DEF Returned
  <2>2. QED
    BY <1>3, <2>1, TxUpdate DEF Returned, TypeOK
<1>4. QED
  BY <1>2, <1>3

\* A fold that fails leaves the types of calls and run.
LEMMA FailedType ==
  ASSUME TypeOK, UNCHANGED rows, NEW w \in Workers, Failed(w)
  PROVE  /\ tx' \in [Workers -> Tx]
         /\ \A v \in Workers : tx'[v].at # "idle" => tx'[v].row \in rows'
         /\ rec' \in Run /\ rec'.todo \subseteq rows
         /\ rec'.last \in {0} \cup rows
<1>1. tx' = [tx EXCEPT ![w] = NoTx]
  BY DEF Failed
<1>2. CASE w = Reconciler /\ rec.last # 0
  <2>1. rec.last \in Ids /\ rec.last \in rows
    BY <1>2 DEF TypeOK
  <2>2. rec' = Salvage(rec.last)
    BY <1>2 DEF Failed
  <2>3. QED
    BY <1>1, <2>1, <2>2, CallTypes, TxUpdate DEF TypeOK, Salvage
<1>3. CASE ~(w = Reconciler /\ rec.last # 0)
  <2>1. rec' \in {rec, NoRun}
    BY <1>3 DEF Failed
  <2>2. QED
    BY <1>1, <2>1, CallTypes, TxUpdate DEF TypeOK
<1>4. QED
  BY <1>2, <1>3

\* Recording a trade keeps the ledger well formed.
LEMMA RecordType ==
  ASSUME TypeOK, NEW w \in Workers, Record(w)
  PROVE  trades' \subseteq rows /\ pos' \in [Users -> Position]
<1>1. tx[w].row \in rows /\ tx[w].row \in Ids /\ tx[w].prior \in Position
  BY DEF Record, TypeOK, Tx
<1>2. Fold(tx[w].prior, Swap[tx[w].row]) \in Position /\ UserOf(w) \in Users
  BY <1>1, FoldType, SwapType DEF UserOf
<1>3. QED
  BY <1>1, <1>2 DEF Record, TypeOK

\* Before anything happens the invariant holds.
LEMMA InitInv == Init => IInv
<1> SUFFICES ASSUME Init PROVE IInv
  OBVIOUS
<1>1. TypeOK
  BY CallTypes, PnlAssumption DEF Init, TypeOK
<1>2. Reconciler \in Workers
  BY DEF Workers
<1>3. LockOK /\ RunOK /\ NothingSkipped
  BY <1>2, CallTypes DEF Init, LockOK, RunOK, NothingSkipped, InTx
<1>4. QED
  BY <1>1, <1>3 DEF IInv

\* Every step keeps every variable in its type.
LEMMA TypeStep == TypeOK /\ [Next]_vars => TypeOK'
<1> SUFFICES ASSUME TypeOK, [Next]_vars PROVE TypeOK'
  OBVIOUS
<1> USE PnlAssumption DEF indexer, ledger, reads, Fault, InvalidateUser
<1>0. Reconciler \in Workers /\ Handlers \subseteq Workers
  BY DEF Workers
<1>1. ASSUME NEW i \in Ids, StoreLive(i) PROVE TypeOK'
  <2>1. i \notin rows
    BY <1>1 DEF StoreLive, TypeOK, Ids
  <2>2. QED
    BY <1>1, <2>1 DEF StoreLive, TypeOK
<1>2. ASSUME NEW i \in Ids, StoreBackfill(i) PROVE TypeOK'
  BY <1>2 DEF StoreBackfill, TypeOK
<1>3. ASSUME NEW w \in Workers, TxBegin(w) PROVE TypeOK'
  <2>1. tx[w].row \in rows /\ tx[w].row \in Ids
    BY <1>3 DEF TxBegin, TypeOK
  <2>2. QED
    BY <1>3, <2>1, CallTypes, TxUpdate DEF TxBegin, TypeOK
<1>4. ASSUME NEW w \in Workers, TxConflict(w) PROVE TypeOK'
  <2>1. tx[w].at # "idle" /\ UNCHANGED rows /\ Returned(w, FALSE)
    BY <1>4 DEF TxConflict
  <2>2. QED
    BY <1>4, <2>1, ReturnedType DEF TxConflict, TypeOK
<1>5. ASSUME NEW w \in Workers, TxInsert(w) PROVE TypeOK'
  <2>1. /\ tx[w].row \in rows /\ tx[w].row \in Ids
        /\ UserOf(w) \in Users
    BY <1>5, SwapType DEF TxInsert, TypeOK, UserOf
  <2>2. [at |-> "loaded", row |-> tx[w].row, prior |-> pos[UserOf(w)]] \in Tx
    BY <2>1 DEF TypeOK, Tx
  <2>3. QED
    BY <1>5, <2>1, <2>2, TxUpdate DEF TxInsert, TypeOK
<1>6. ASSUME NEW w \in Workers, TxCommit(w) PROVE TypeOK'
  <2>1. tx[w].at # "idle" /\ UNCHANGED rows /\ Returned(w, TRUE) /\ Record(w)
    BY <1>6 DEF TxCommit, Record
  <2>2. QED
    BY <1>6, <2>1, ReturnedType, RecordType DEF TxCommit, TypeOK
<1>7. ASSUME NEW w \in Workers, TxCommitLost(w) PROVE TypeOK'
  BY <1>7, FailedType, RecordType DEF TxCommitLost, TypeOK
<1>8. ASSUME NEW w \in Workers, TxFail(w) PROVE TypeOK'
  BY <1>8, FailedType DEF TxFail, TypeOK
<1>9. ASSUME NEW h \in Handlers, NEW i \in Ids, Deliver(h, i) PROVE TypeOK'
  <2>1. i \in rows /\ h \in Workers
    BY <1>0, <1>9 DEF Deliver, TypeOK
  <2>2. QED
    BY <1>9, <2>1, CallTypes, TxUpdate DEF Deliver, TypeOK
<1>10. ASSUME NEW h \in Handlers, HandlerBust(h) PROVE TypeOK'
  BY <1>0, <1>10, CallTypes, TxUpdate DEF HandlerBust, TypeOK
<1>11. ASSUME NEW h \in Handlers, HandlerBustFails(h) PROVE TypeOK'
  BY <1>0, <1>11, CallTypes, TxUpdate DEF HandlerBustFails, TypeOK
<1>12. CASE RecList
  BY <1>12 DEF RecList, ListUnreconciled, TypeOK, Run
<1>13. CASE RecNext
  <2>1. PICK i \in rec.todo : tx' = [tx EXCEPT ![Reconciler] = Call("want", i)]
    BY <1>13 DEF RecNext
  <2>2. i \in rows /\ i \in Ids
    BY DEF TypeOK
  <2>3. QED
    BY <1>0, <1>13, <2>1, <2>2, CallTypes, TxUpdate DEF RecNext, TypeOK
<1>14. CASE RecAdvance
  <2>1. rec' \in Run /\ rec'.todo \subseteq rows /\ rec'.last \in {0} \cup rows
    BY <1>14, CallTypes DEF RecAdvance, TypeOK, Run
  <2>2. cursor' \in {0} \cup rows /\ UNCHANGED <<indexer, ledger, tx, reads,
                                               deliveries, faults>>
    BY <1>14 DEF RecAdvance, TypeOK
  <2>3. QED
    BY <2>1, <2>2 DEF TypeOK
<1>15. CASE RecAdvanceFails
  BY <1>15, CallTypes DEF RecAdvanceFails, TypeOK
<1>16. ASSUME NEW u \in Users, RecBust(u) \/ RecBustFails(u) PROVE TypeOK'
  <2>1. rec' \in Run /\ rec'.todo \subseteq rows /\ rec'.last \in {0} \cup rows
    <3>1. /\ rec' = [rec EXCEPT !.touched = @ \ {u}]
          /\ rec \in Run /\ UNCHANGED rows
      BY <1>16 DEF RecBust, RecBustFails, TypeOK
    <3>2. QED
      BY <3>1 DEF Run, TypeOK
  <2>2. cache' \in [Users -> Position \cup {None}] /\ faults' \in 0 .. MaxFaults
    <3>1. CASE RecBust(u)
      BY <3>1 DEF RecBust, TypeOK
    <3>2. CASE RecBustFails(u)
      BY <3>2 DEF RecBustFails, TypeOK
    <3>3. QED
      BY <1>16, <3>1, <3>2
  <2>3. UNCHANGED <<indexer, ledger, cursor, tx, reading, deliveries>>
    BY <1>16 DEF RecBust, RecBustFails
  <2>4. QED
    BY <2>1, <2>2, <2>3 DEF TypeOK
<1>17. CASE RecDone
  BY <1>17, CallTypes DEF RecDone, TypeOK
<1>18. ASSUME NEW u \in Users, ReadMiss(u) \/ ReadStore(u) \/ Expire(u)
       PROVE  TypeOK'
  BY <1>18 DEF ReadMiss, ReadStore, Expire, TypeOK
<1>19. CASE Crash
  BY <1>19, CallTypes DEF Crash, TypeOK
<1>20. CASE UNCHANGED vars
  BY <1>20 DEF vars, TypeOK
<1>21. QED
  BY <1>1, <1>2, <1>3, <1>4, <1>5, <1>6, <1>7, <1>8, <1>9, <1>10, <1>11,
     <1>12, <1>13, <1>14, <1>15, <1>16, <1>17, <1>18, <1>19, <1>20
  DEF Next, FoldTrade, Reconcile

(***************************************************************************)
(* Type correctness: positions are made of non-negative amounts, but for   *)
(* the realised profit, and the cursor, the calls and the run in progress  *)
(* refer to stored rows only.                                              *)
(***************************************************************************)
THEOREM TypeCorrect == Spec => []TypeOK
<1>1. Init => TypeOK
  BY InitInv DEF IInv
<1>2. QED
  BY <1>1, TypeStep, PTL DEF Spec

-----------------------------------------------------------------------------
(* The advisory lock *)

\* The end of a call of FoldTrade leaves the transaction.
LEMMA CallEnds ==
  ASSUME TypeOK, NEW w \in Workers, tx[w].at # "idle",
         Failed(w) \/ \E inserted \in BOOLEAN : Returned(w, inserted)
  PROVE  \E t \in Tx : /\ tx' = [tx EXCEPT ![w] = t]
                       /\ t.at \in {"idle", "bust"}
<1>1. tx[w].row \in Ids
  BY DEF TypeOK
<1>2. QED
  BY <1>1, CallTypes DEF Failed, Returned

\* A worker outside its transaction disturbs nobody's lock.
LEMMA LockKept ==
  ASSUME TypeOK, LockOK, UNCHANGED ledger, NEW w \in Workers,
         \E t \in Tx : /\ tx' = [tx EXCEPT ![w] = t]
                      /\ t.at \notin {"locked", "loaded"}
  PROVE  LockOK'
BY DEF TypeOK, LockOK, InTx, UserOf, ledger

\* Committing ends the transaction, and no other one works on its user.
LEMMA LockRecord ==
  ASSUME TypeOK, LockOK, NEW w \in Workers, Record(w),
         \E t \in Tx : /\ tx' = [tx EXCEPT ![w] = t]
                      /\ t.at \notin {"locked", "loaded"}
  PROVE  LockOK'
<1>1. \A v \in Workers : v # w => tx'[v] = tx[v]
  BY DEF TypeOK
<1>2. ~InTx(w)' /\ InTx(w)
  BY DEF TypeOK, InTx, Record
<1>3. ASSUME NEW v \in Workers, tx'[v].at = "loaded"
      PROVE  tx'[v].prior = pos'[UserOf(v)'] /\ tx'[v].row \notin trades'
  <2>1. v # w /\ tx[v].at = "loaded" /\ UserOf(v)' = UserOf(v)
    BY <1>1, <1>2, <1>3 DEF InTx, UserOf
  <2>2. UserOf(v) # UserOf(w)
    BY <1>2, <2>1 DEF LockOK, InTx
  <2>3. tx[v].row # tx[w].row
    BY <2>2 DEF UserOf
  <2>4. tx[v].row \in Ids
    BY <2>1 DEF TypeOK
  <2>5. UserOf(v) \in Users
    BY <2>4, SwapType DEF UserOf
  <2>6. pos'[UserOf(v)] = pos[UserOf(v)]
    BY <2>2, <2>5 DEF Record, TypeOK
  <2>7. QED
    BY <1>1, <2>1, <2>3, <2>6 DEF LockOK, Record
<1>4. ASSUME NEW u \in Workers, NEW v \in Workers, InTx(u)', InTx(v)',
             UserOf(u)' = UserOf(v)'
      PROVE  u = v
  BY <1>1, <1>2, <1>4 DEF LockOK, InTx, UserOf
<1>5. QED
  BY <1>3, <1>4 DEF LockOK

\* Every step keeps what the lock protects.
LEMMA LockStep == TypeOK /\ LockOK /\ [Next]_vars => LockOK'
<1> SUFFICES ASSUME TypeOK, LockOK, [Next]_vars PROVE LockOK'
  OBVIOUS
<1> USE DEF ledger
<1>0. Reconciler \in Workers /\ Handlers \subseteq Workers
  BY DEF Workers
<1>1. CASE UNCHANGED <<tx, ledger>>
  BY <1>1 DEF LockOK, InTx, UserOf
<1>2. ASSUME NEW w \in Workers, TxBegin(w) PROVE LockOK'
  <2>1. tx' = [tx EXCEPT ![w] = Call("locked", tx[w].row)]
    BY <1>2 DEF TxBegin
  <2>2. /\ tx'[w].at = "locked" /\ UserOf(w)' = UserOf(w)
        /\ \A v \in Workers : v # w => tx'[v] = tx[v]
    BY <2>1, CallTypes DEF TypeOK, UserOf
  <2>3. UNCHANGED <<trades, pos>>
        /\ \A v \in Workers : InTx(v) => UserOf(v) # UserOf(w)
    BY <1>2 DEF TxBegin, Locked
  <2>4. QED
    BY <2>2, <2>3 DEF LockOK, InTx, UserOf
<1>3. ASSUME NEW w \in Workers, TxInsert(w) PROVE LockOK'
  <2>1. tx' = [tx EXCEPT ![w] = [at |-> "loaded", row |-> tx[w].row,
                                 prior |-> pos[UserOf(w)]]]
    BY <1>3 DEF TxInsert
  <2>2. /\ tx'[w].at = "loaded" /\ UserOf(w)' = UserOf(w)
        /\ tx'[w].prior = pos[UserOf(w)] /\ tx'[w].row = tx[w].row
        /\ \A v \in Workers : v # w => tx'[v] = tx[v]
    BY <2>1 DEF TypeOK, UserOf
  <2>3. UNCHANGED <<trades, pos>> /\ InTx(w) /\ tx[w].row \notin trades
    BY <1>3 DEF TxInsert, InTx
  <2>4. QED
    BY <2>2, <2>3 DEF LockOK, InTx, UserOf
<1>4. ASSUME NEW w \in Workers, TxConflict(w) PROVE LockOK'
  BY <1>4, CallEnds, LockKept DEF TxConflict
<1>5. ASSUME NEW w \in Workers, TxFail(w) PROVE LockOK'
  <2>1. tx[w].at # "idle" /\ Failed(w) /\ UNCHANGED ledger
    BY <1>5 DEF TxFail, InTx
  <2>2. QED
    BY <2>1, CallEnds, LockKept
<1>6. ASSUME NEW w \in Workers, TxCommit(w) \/ TxCommitLost(w) PROVE LockOK'
  <2>1. Record(w) /\ tx[w].at # "idle"
    BY <1>6 DEF TxCommit, TxCommitLost, Record
  <2>2. Failed(w) \/ Returned(w, TRUE)
    BY <1>6 DEF TxCommit, TxCommitLost
  <2>3. \E t \in Tx : /\ tx' = [tx EXCEPT ![w] = t]
                     /\ t.at \in {"idle", "bust"}
    BY <2>1, <2>2, CallEnds
  <2>4. QED
    BY <2>1, <2>3, LockRecord
<1>7. ASSUME NEW h \in Handlers, NEW i \in Ids, Deliver(h, i) PROVE LockOK'
  <2>1. /\ Call("want", i) \in Tx /\ Call("want", i).at = "want"
        /\ tx' = [tx EXCEPT ![h] = Call("want", i)] /\ UNCHANGED ledger
    BY <1>7, CallTypes DEF Deliver
  <2>2. \E t \in Tx : /\ tx' = [tx EXCEPT ![h] = t]
                     /\ t.at \notin {"locked", "loaded"}
    BY <2>1
  <2>3. QED
    BY <1>0, <2>1, <2>2, LockKept
<1>8. ASSUME NEW h \in Handlers, HandlerBust(h) \/ HandlerBustFails(h)
      PROVE  LockOK'
  BY <1>0, <1>8, CallTypes, LockKept DEF HandlerBust, HandlerBustFails
<1>9. CASE RecNext
  <2>1. PICK i \in rec.todo : tx' = [tx EXCEPT ![Reconciler] = Call("want", i)]
    BY <1>9 DEF RecNext
  <2>2. Call("want", i) \in Tx /\ Call("want", i).at = "want"
    BY CallTypes DEF TypeOK
  <2>3. \E t \in Tx : /\ tx' = [tx EXCEPT ![Reconciler] = t]
                     /\ t.at \notin {"locked", "loaded"}
    BY <2>1, <2>2
  <2>4. QED
    BY <1>0, <1>9, <2>3, LockKept DEF RecNext
<1>10. CASE Crash
  BY <1>10, CallTypes DEF Crash, LockOK, InTx
<1>11. CASE \/ \E i \in Ids : StoreLive(i) \/ StoreBackfill(i)
            \/ RecList \/ RecAdvance \/ RecAdvanceFails \/ RecDone
            \/ \E u \in Users : RecBust(u) \/ RecBustFails(u)
            \/ \E u \in Users : ReadMiss(u) \/ ReadStore(u) \/ Expire(u)
            \/ UNCHANGED vars
  BY <1>1, <1>11
  DEF StoreLive, StoreBackfill, RecList, RecAdvance, RecAdvanceFails, RecDone,
      RecBust, RecBustFails, ReadMiss, ReadStore, Expire, vars
<1>12. QED
  BY <1>2, <1>3, <1>4, <1>5, <1>6, <1>7, <1>8, <1>9, <1>10, <1>11
  DEF Next, FoldTrade, Reconcile

-----------------------------------------------------------------------------
(* The reconciler's progress *)

\* Neither handlers nor readers undo what the reconciler has passed over.
LEMMA RunKept ==
  ASSUME RunOK, NothingSkipped, UNCHANGED <<rows, late, rec, cursor>>,
         trades \subseteq trades',
         /\ (tx'[Reconciler].at = "idle") <=> (tx[Reconciler].at = "idle")
         /\ tx'[Reconciler].at # "bust"
         /\ tx'[Reconciler].row = tx[Reconciler].row
  PROVE  RunOK' /\ NothingSkipped'
BY DEF RunOK, NothingSkipped

\* A row is stored above all the reconciler has passed over, or it is late.
LEMMA RunStore ==
  ASSUME TypeOK, RunOK, NothingSkipped, UNCHANGED <<tx, rec, cursor, trades>>,
         NEW i \in Ids, i \notin rows, rows' = rows \cup {i},
         \/ late' = late /\ ~Behind(i)
         \/ late' = late \cup {i}
  PROVE  RunOK' /\ NothingSkipped'
<1>1. rows' \ late' \subseteq (rows \ late) \cup {i}
  OBVIOUS
<1>2. ASSUME i \notin late'
      PROVE  /\ ~(i <= cursor) /\ ~(i <= rec.last)
             /\ \A j \in rec.todo : ~(i < j)
  <2>1. ~Behind(i)
    BY <1>2
  <2>2. rec.last \in {0} \cup rows /\ rec.last \in Int /\ i \in Nat \ {0}
    BY SwapType DEF TypeOK
  <2>3. i # rec.last /\ ~(i < rec.last)
    BY <2>1, <2>2 DEF Behind
  <2>4. QED
    BY <2>1, <2>2, <2>3 DEF Behind
<1>3. NothingSkipped'
  BY <1>1, <1>2 DEF NothingSkipped
<1>4. RunOK'
  BY <1>1, <1>2 DEF RunOK
<1>5. QED
  BY <1>3, <1>4

\* The query leaves out no row between the cursor and the last row it returns.
LEMMA ListComplete ==
  ASSUME TypeOK, NEW i \in rows, NEW j \in ListUnreconciled, i < j, i > cursor
  PROVE  i \in ListUnreconciled
<1> DEFINE Below(k) == {r \in rows : cursor < r /\ r < k}
<1>1. rows \subseteq 1 .. Len(Swap) /\ Len(Swap) \in Nat /\ cursor \in Int
  BY PnlAssumption, SwapType DEF TypeOK, Ids
<1>2. IsFiniteSet(Below(j))
  <2>1. IsFiniteSet(1 .. Len(Swap))
    BY <1>1, FS_Interval
  <2>2. Below(j) \in SUBSET (1 .. Len(Swap))
    BY <1>1
  <2>3. QED
    BY <2>1, <2>2, FS_Subset
<1>3. Below(i) \in SUBSET Below(j)
  <2>1. j \in rows
    BY DEF ListUnreconciled
  <2>2. \A r \in rows : r < i => r < j
    BY <1>1, <2>1
  <2>3. QED
    BY <2>2
<1>4. /\ Cardinality(Below(i)) \in Nat /\ Cardinality(Below(j)) \in Nat
      /\ Cardinality(Below(i)) <= Cardinality(Below(j))
  BY <1>2, <1>3, FS_Subset, FS_CardinalityType
<1>5. Cardinality(Below(j)) < BatchSize /\ BatchSize \in Nat
  BY PnlAssumption DEF ListUnreconciled
<1>6. Cardinality(Below(i)) < BatchSize
  BY <1>4, <1>5
<1>7. QED
  BY <1>6 DEF ListUnreconciled

\* Once the lowest row of the batch is recorded, the run may move past it.
LEMMA RunReturned ==
  ASSUME TypeOK, RunOK, NothingSkipped, UNCHANGED <<rows, late, cursor>>,
         tx[Reconciler].at # "idle", tx[Reconciler].row \in trades',
         trades \subseteq trades', Returned(Reconciler, FALSE)
                                      \/ Returned(Reconciler, TRUE)
  PROVE  RunOK' /\ NothingSkipped'
<1> DEFINE i == tx[Reconciler].row
<1>1. /\ tx'[Reconciler].at = "idle"
      /\ rec'.todo = rec.todo \ {i} /\ rec'.last = i
  BY CallTypes DEF Returned, TypeOK, Workers
<1>2. i \in rec.todo /\ \A j \in rec.todo : i <= j
  BY DEF RunOK
<1>3. rows \subseteq Int /\ i \in rows /\ rec.todo \subseteq Int
  BY <1>2, SwapType DEF TypeOK
<1>4. NothingSkipped'
  BY DEF NothingSkipped
<1>5. ASSUME NEW k \in rows \ late, k <= i
      PROVE  k \in trades'
  <2>1. CASE k = i
    BY <2>1
  <2>2. CASE k # i
    <3>1. k < i
      BY <1>3, <1>5, <2>2
    <3>2. k \notin rec.todo
      BY <1>2, <1>3, <3>1
    <3>3. QED
      BY <1>2, <3>1, <3>2 DEF RunOK
  <2>3. QED
    BY <2>1, <2>2
<1>6. ASSUME NEW k \in rows \ late, NEW j \in rec'.todo, k < j
      PROVE  k \in trades' \/ k \in rec'.todo
  BY <1>1, <1>6 DEF RunOK
<1>7. QED
  BY <1>1, <1>4, <1>5, <1>6 DEF RunOK

\* A run that fails keeps nothing but the last row it has folded.
LEMMA RunFailed ==
  ASSUME TypeOK, RunOK, NothingSkipped, UNCHANGED <<rows, late, cursor>>,
         trades \subseteq trades', Failed(Reconciler)
  PROVE  RunOK' /\ NothingSkipped'
<1>1. /\ tx'[Reconciler].at = "idle" /\ rec'.todo = {}
      /\ rec'.last = rec.last
  BY CallTypes DEF Failed, Salvage, TypeOK, Workers
<1>2. QED
  BY <1>1 DEF RunOK, NothingSkipped

\* Every step keeps the reconciler from passing a row that is not recorded.
LEMMA RunStep ==
  TypeOK /\ RunOK /\ NothingSkipped /\ [Next]_vars => RunOK' /\ NothingSkipped'
<1> SUFFICES ASSUME TypeOK, RunOK, NothingSkipped, [Next]_vars
             PROVE  RunOK' /\ NothingSkipped'
  OBVIOUS
<1> USE DEF indexer, ledger
<1>0. Reconciler \in Workers /\ Handlers \subseteq Workers
      /\ \A h \in Handlers : h # Reconciler
  BY PnlAssumption DEF Workers
<1>1. CASE UNCHANGED <<indexer, ledger, cursor, tx, rec>>
  BY <1>1 DEF RunOK, NothingSkipped
<1>2. ASSUME NEW i \in Ids, StoreLive(i) PROVE RunOK' /\ NothingSkipped'
  <2>1. rows \subseteq Int /\ i \in Nat \ {0} /\ \A j \in rows : j < i
    BY <1>2, SwapType DEF StoreLive, TypeOK
  <2>2. i \notin rows
    BY <2>1
  <2>3. \A j \in rows \cup {0} : ~(i <= j) /\ ~(i < j)
    BY <2>1
  <2>4. cursor \in rows \cup {0} /\ rec.todo \cup {rec.last} \subseteq rows \cup {0}
    BY DEF TypeOK
  <2>5. ~Behind(i)
    BY <2>3, <2>4 DEF Behind
  <2>6. QED
    BY <1>2, <2>2, <2>5, RunStore DEF StoreLive
<1>3. ASSUME NEW i \in Ids, StoreBackfill(i) PROVE RunOK' /\ NothingSkipped'
  BY <1>3, RunStore DEF StoreBackfill
<1>4. ASSUME NEW w \in Workers, TxBegin(w) PROVE RunOK' /\ NothingSkipped'
  BY <1>0, <1>4, CallTypes, RunKept DEF TxBegin, TypeOK, RunOK
<1>5. ASSUME NEW w \in Workers, TxInsert(w) PROVE RunOK' /\ NothingSkipped'
  BY <1>0, <1>5, RunKept DEF TxInsert, TypeOK, RunOK
<1>6. ASSUME NEW w \in Workers, TxConflict(w) \/ TxCommit(w)
      PROVE  RunOK' /\ NothingSkipped'
  <2>1. /\ UNCHANGED <<rows, late, cursor>> /\ tx[w].at # "idle"
        /\ tx[w].row \in trades' /\ trades \subseteq trades'
        /\ Returned(w, FALSE) \/ Returned(w, TRUE)
    BY <1>6 DEF TxConflict, TxCommit, Record
  <2>2. CASE w = Reconciler
    BY <2>1, <2>2, RunReturned
  <2>3. CASE w # Reconciler
    <3>1. UNCHANGED rec /\ tx'[Reconciler] = tx[Reconciler]
      BY <1>0, <2>1, <2>3 DEF Returned, TypeOK
    <3>2. QED
      BY <2>1, <3>1, RunKept DEF RunOK
  <2>4. QED
    BY <2>2, <2>3
<1>7. ASSUME NEW w \in Workers, TxCommitLost(w) \/ TxFail(w)
      PROVE  RunOK' /\ NothingSkipped'
  <2>1. /\ UNCHANGED <<rows, late, cursor>> /\ trades \subseteq trades'
        /\ Failed(w)
    BY <1>7 DEF TxCommitLost, TxFail, Record
  <2>2. CASE w = Reconciler
    BY <2>1, <2>2, RunFailed
  <2>3. CASE w # Reconciler
    <3>1. UNCHANGED rec /\ tx'[Reconciler] = tx[Reconciler]
      BY <1>0, <2>1, <2>3 DEF Failed, TypeOK
    <3>2. QED
      BY <2>1, <3>1, RunKept DEF RunOK
  <2>4. QED
    BY <2>2, <2>3
<1>8. ASSUME NEW h \in Handlers, \/ \E i \in Ids : Deliver(h, i)
                                 \/ HandlerBust(h) \/ HandlerBustFails(h)
      PROVE  RunOK' /\ NothingSkipped'
  <2>1. UNCHANGED <<indexer, ledger, cursor, rec>>
    BY <1>8 DEF Deliver, HandlerBust, HandlerBustFails
  <2>2. tx'[Reconciler] = tx[Reconciler]
    BY <1>0, <1>8 DEF Deliver, HandlerBust, HandlerBustFails, TypeOK
  <2>3. QED
    BY <2>1, <2>2, RunKept DEF RunOK
<1>9. CASE RecList
  <2>1. /\ rec'.todo = ListUnreconciled /\ rec'.last = rec.last
        /\ UNCHANGED <<rows, late, trades, cursor, tx>> /\ rec.at = "idle"
    BY <1>9 DEF RecList, TypeOK, Run
  <2>2. ASSUME NEW k \in rows \ late, NEW j \in rec'.todo, k < j
        PROVE  k \in trades' \/ k \in rec'.todo
    <3>1. CASE k <= cursor
      BY <2>1, <3>1 DEF NothingSkipped
    <3>2. CASE k > cursor
      BY <2>1, <2>2, <3>2, ListComplete
    <3>3. QED
      BY <3>1, <3>2, SwapType DEF TypeOK
  <2>3. QED
    BY <2>1, <2>2 DEF RunOK, NothingSkipped
<1>10. CASE RecNext
  <2>1. PICK i \in rec.todo :
          /\ \A j \in rec.todo : i <= j
          /\ tx' = [tx EXCEPT ![Reconciler] = Call("want", i)]
    BY <1>10 DEF RecNext
  <2>2. /\ UNCHANGED <<rows, late, trades, cursor, rec>> /\ rec.at = "fold"
        /\ tx'[Reconciler].at = "want" /\ tx'[Reconciler].row = i
    BY <1>0, <1>10, <2>1, CallTypes DEF RecNext, TypeOK
  <2>3. QED
    BY <2>1, <2>2 DEF RunOK, NothingSkipped
<1>11. CASE RecAdvance
  <2>1. /\ rec'.todo \subseteq rec.todo /\ rec'.last \in {0, rec.last}
        /\ rec'.todo \in {{}, rec.todo} /\ rec.at # "fold"
        /\ UNCHANGED <<rows, late, trades, tx>> /\ cursor' = rec.last
    BY <1>11, CallTypes DEF RecAdvance, TypeOK, Run
  <2>2. \A i \in rows : ~(i <= 0)
    BY SwapType DEF TypeOK
  <2>3. QED
    BY <2>1, <2>2 DEF RunOK, NothingSkipped
<1>12. CASE RecAdvanceFails \/ RecDone
  <2>1. /\ rec'.todo = {} /\ rec'.last = 0 /\ rec.at # "fold"
        /\ UNCHANGED <<rows, late, trades, tx, cursor>>
    BY <1>12, CallTypes DEF RecAdvanceFails, RecDone
  <2>2. \A i \in rows : ~(i <= 0)
    BY SwapType DEF TypeOK
  <2>3. QED
    BY <2>1, <2>2 DEF RunOK, NothingSkipped
<1>13. ASSUME NEW u \in Users, RecBust(u) \/ RecBustFails(u)
       PROVE  RunOK' /\ NothingSkipped'
  <2>1. /\ rec'.todo = rec.todo /\ rec'.last = rec.last /\ rec'.at = rec.at
        /\ UNCHANGED <<rows, late, trades, tx, cursor>>
    BY <1>13 DEF RecBust, RecBustFails, TypeOK, Run
  <2>2. QED
    BY <2>1 DEF RunOK, NothingSkipped
<1>14. CASE Crash
  <2>1. /\ rec'.todo = {} /\ rec'.last = 0 /\ tx'[Reconciler].at = "idle"
        /\ UNCHANGED <<rows, late, trades, cursor>>
    BY <1>0, <1>14, CallTypes DEF Crash
  <2>2. \A i \in rows : ~(i <= 0)
    BY SwapType DEF TypeOK
  <2>3. QED
    BY <2>1, <2>2 DEF RunOK, NothingSkipped
<1>15. CASE \/ \E u \in Users : ReadMiss(u) \/ ReadStore(u) \/ Expire(u)
            \/ UNCHANGED vars
  BY <1>1, <1>15 DEF ReadMiss, ReadStore, Expire, vars
<1>16. QED
  BY <1>2, <1>3, <1>4, <1>5, <1>6, <1>7, <1>8, <1>9, <1>10, <1>11, <1>12,
     <1>13, <1>14, <1>15
  DEF Next, FoldTrade, Reconcile

\* The conjunction is inductive.
LEMMA Inductive == Spec => []IInv
<1>1. IInv /\ [Next]_vars => IInv'
  BY TypeStep, LockStep, RunStep DEF IInv
<1>2. QED
  BY InitInv, <1>1, PTL DEF Spec

(***************************************************************************)
(* The reconciler's cursor passes no row that its queries could have       *)
(* returned and that is in no position, whatever fails in the middle of a  *)
(* batch and whatever the handlers do meanwhile (reconcile.go).            *)
(***************************************************************************)
THEOREM CursorSkipsNothing == Spec => []NothingSkipped
<1>1. IInv => NothingSkipped
  BY DEF IInv
<1>2. QED
  BY Inductive, <1>1, PTL

-----------------------------------------------------------------------------
(* Exactly-once folds *)

\* What a change of the ledger is.
OneFold ==
  \E i \in rows \ trades :
    /\ trades' = trades \cup {i}
    /\ pos' = [pos EXCEPT ![Swap[i].user] = Fold(@, Swap[i])]

\* A recorded trade is new, and is folded into the position as it stands.
LEMMA RecordFolds ==
  ASSUME TypeOK, LockOK, NEW w \in Workers, Record(w)
  PROVE  OneFold
<1> DEFINE i == tx[w].row
<1>1. i \in rows \ trades /\ tx[w].prior = pos[Swap[i].user]
  BY DEF Record, LockOK, TypeOK, UserOf
<1>2. pos' = [pos EXCEPT ![Swap[i].user] = Fold(pos[Swap[i].user], Swap[i])]
  BY <1>1 DEF Record, UserOf
<1>3. QED
  BY <1>1, <1>2 DEF Record, OneFold

\* No step changes the ledger in any other way.
LEMMA LedgerStep == IInv /\ [Next]_vars => OneFold \/ UNCHANGED ledger
<1> SUFFICES ASSUME IInv, [Next]_vars PROVE OneFold \/ UNCHANGED ledger
  OBVIOUS
<1>1. TypeOK /\ LockOK
  BY DEF IInv
<1>2. ASSUME NEW w \in Workers, TxCommit(w) \/ TxCommitLost(w) PROVE OneFold
  BY <1>1, <1>2, RecordFolds DEF TxCommit, TxCommitLost
<1>3. ASSUME NEW w \in Workers,
             TxBegin(w) \/ TxConflict(w) \/ TxInsert(w) \/ TxFail(w)
      PROVE  UNCHANGED ledger
  BY <1>3 DEF TxBegin, TxConflict, TxInsert, TxFail
<1>4. ASSUME NEW h \in Handlers, \/ \E i \in Ids : Deliver(h, i)
                                 \/ HandlerBust(h) \/ HandlerBustFails(h)
      PROVE  UNCHANGED ledger
  BY <1>4 DEF Deliver, HandlerBust, HandlerBustFails
<1>5. ASSUME \/ RecList \/ RecNext \/ RecAdvance \/ RecAdvanceFails \/ RecDone
             \/ \E u \in Users : RecBust(u) \/ RecBustFails(u)
      PROVE  UNCHANGED ledger
  BY <1>5 DEF RecList, RecNext, RecAdvance, RecAdvanceFails, RecDone, RecBust,
              RecBustFails
<1>6. ASSUME \/ \E i \in Ids : StoreLive(i) \/ StoreBackfill(i)
             \/ \E u \in Users : ReadMiss(u) \/ ReadStore(u) \/ Expire(u)
             \/ Crash \/ UNCHANGED vars
      PROVE  UNCHANGED ledger
  BY <1>6 DEF StoreLive, StoreBackfill, ReadMiss, ReadStore, Expire, Crash,
              vars, ledger
<1>7. QED
  BY <1>2, <1>3, <1>4, <1>5, <1>6 DEF Next, FoldTrade, Reconcile

(***************************************************************************)
(* However many handlers and the reconciler deliver a swap, and however    *)
(* they interleave, it is recorded at most once and folded alone into the  *)
(* position as it stands: the lock lets no update be lost (FoldTrade).     *)
(***************************************************************************)
THEOREM FoldsOneTrade == Spec => FoldsOne
<1>1. IInv /\ [Next]_vars => [OneFold]_ledger
  BY LedgerStep
<1>2. [][OneFold]_ledger <=> FoldsOne
  BY DEF OneFold, FoldsOne
<1>3. QED
  BY Inductive, <1>1, <1>2, PTL DEF Spec

-----------------------------------------------------------------------------
(* Holdings *)

\* The holdings lie between what the totals account for and what was bought.
HoldingsOf(p) ==
  /\ p.bought - p.sold <= p.holdings
  /\ p.holdings <= p.bought

HoldingsOK == \A u \in Users : HoldingsOf(pos[u])

\* A fold keeps the holdings within what the totals allow.
LEMMA FoldHoldings ==
  ASSUME NEW p \in Position, HoldingsOf(p), NEW i \in Ids
  PROVE  HoldingsOf(Fold(p, Swap[i]))
<1> DEFINE s == Swap[i]
<1>1. s.token \in Nat
  BY SwapType
<1>2. /\ p.bought \in Nat /\ p.sold \in Nat /\ p.holdings \in Nat
      /\ p.bought - p.sold <= p.holdings /\ p.holdings <= p.bought
  BY DEF Position, HoldingsOf
<1>3. HoldingsOf(Bought(p, s))
  BY <1>1, <1>2 DEF Bought, HoldingsOf
<1>4. HoldingsOf(Sold(p, s))
  BY <1>1, <1>2 DEF Sold, HoldingsOf
<1>5. QED
  BY <1>3, <1>4 DEF Fold

(***************************************************************************)
(* Whatever order the trades are folded in, the holdings shown are never   *)
(* below what was bought less what was sold, nor above what was bought:    *)
(* the clamp at zero (pnlmath.Fold) errs on one side only.                 *)
(***************************************************************************)
THEOREM HoldingsBounded == Spec => []HoldingsOK
<1>1. Init => HoldingsOK
  BY DEF Init, HoldingsOK, HoldingsOf, NoPosition
<1>2. IInv /\ HoldingsOK /\ [Next]_vars => HoldingsOK'
  <2> SUFFICES ASSUME IInv, HoldingsOK, [Next]_vars PROVE HoldingsOK'
    OBVIOUS
  <2>1. CASE UNCHANGED ledger
    BY <2>1 DEF ledger, HoldingsOK
  <2>2. CASE OneFold
    <3>1. PICK i \in Ids :
            pos' = [pos EXCEPT ![Swap[i].user] = Fold(@, Swap[i])]
      BY <2>2 DEF OneFold, IInv, TypeOK
    <3>2. Swap[i].user \in Users /\ pos \in [Users -> Position]
      BY SwapType DEF IInv, TypeOK
    <3>3. HoldingsOf(Fold(pos[Swap[i].user], Swap[i]))
      BY <3>2, FoldHoldings DEF HoldingsOK
    <3>4. QED
      BY <3>1, <3>2, <3>3 DEF HoldingsOK
  <2>3. QED
    BY <2>1, <2>2, LedgerStep
<1>3. QED
  BY Inductive, <1>1, <1>2, PTL DEF Spec

-----------------------------------------------------------------------------
(* Totals *)

\* What the totals of a user's position say of the trades recorded for him.
Tally(u) ==
  /\ pos[u].spent = Sum(Mine(u, TRUE), "usdl")
  /\ pos[u].bought = Sum(Mine(u, TRUE), "token")
  /\ pos[u].received = Sum(Mine(u, FALSE), "usdl")
  /\ pos[u].sold = Sum(Mine(u, FALSE), "token")
  /\ pos[u].count = Cardinality(Mine(u, TRUE) \cup Mine(u, FALSE))

TallyOK == \A u \in Users : Tally(u)

\* One trade more in a sum.
LEMMA SumTrade ==
  ASSUME NEW S \in SUBSET Ids, NEW i \in Ids \ S, NEW amount \in {"usdl", "token"}
  PROVE  Sum(S \cup {i}, amount) = Swap[i][amount] + Sum(S, amount)
<1> DEFINE f == [j \in Ids |-> Swap[j][amount]]
<1>1. ASSUME NEW j \in Ids PROVE f[j] \in Int
  <2>1. Swap[j].usdl \in Nat /\ Swap[j].token \in Nat
    BY SwapType
  <2> QED
    BY <2>1
<1>2. f[i] = Swap[i][amount]
  OBVIOUS
<1> HIDE DEF f
<1>3. IsFiniteSet(Ids)
  <2>1. Len(Swap) \in Nat
    BY PnlAssumption
  <2> QED
    BY <2>1, FS_Interval DEF Ids
<1>4. IsFiniteSet(S) /\ Numbers(f, S \cup {i}) /\ i \notin S
  BY <1>1, <1>3, FS_Subset DEF Numbers
<1>5. SumFunctionOnSet(f, S \cup {i}) = f[i] + SumFunctionOnSet(f, S)
  BY <1>4, SumAdd
<1> QED
  BY <1>2, <1>5 DEF Sum, f

\* The sums of trades are natural numbers, and there are finitely many trades.
LEMMA SumTradesType ==
  ASSUME NEW S \in SUBSET Ids
  PROVE  IsFiniteSet(S) /\ Cardinality(S) \in Nat
<1>1. IsFiniteSet(Ids)
  <2>1. Len(Swap) \in Nat
    BY PnlAssumption
  <2> QED
    BY <2>1, FS_Interval DEF Ids
<1> QED
  BY <1>1, FS_Subset, FS_CardinalityType

\* No trades, and the sum of none of them.
LEMMA InitTally == Init => TallyOK
<1> SUFFICES ASSUME Init, NEW u \in Users PROVE Tally(u)
  BY DEF TallyOK
<1>1. Mine(u, TRUE) = {} /\ Mine(u, FALSE) = {}
  BY DEF Init, Mine
<1>2. Sum({}, "usdl") = 0 /\ Sum({}, "token") = 0
  BY SumEmpty DEF Sum
<1>3. Cardinality({} \cup {}) = 0
  BY FS_EmptySet
<1>4. /\ pos[u].spent = 0 /\ pos[u].bought = 0 /\ pos[u].received = 0
      /\ pos[u].sold = 0 /\ pos[u].count = 0
  BY DEF Init, NoPosition
<1>5. pos[u].count = Cardinality(Mine(u, TRUE) \cup Mine(u, FALSE))
  BY <1>1, <1>3, <1>4
<1> QED
  BY <1>1, <1>2, <1>4, <1>5 DEF Tally

\* A trade that is recorded counts for its user and its side, and for no other.
LEMMA MineStep ==
  ASSUME TypeOK, NEW i \in Ids \ trades, trades' = trades \cup {i}, NEW u \in Users,
         NEW side \in BOOLEAN
  PROVE  /\ Mine(u, side) \in SUBSET Ids /\ i \notin Mine(u, side)
         /\ Mine(u, side)' = IF Swap[i].user = u /\ Swap[i].isBuy = side
                             THEN Mine(u, side) \cup {i} ELSE Mine(u, side)
<1>1. trades \subseteq Ids
  BY DEF TypeOK
<1>2. CASE Swap[i].user = u /\ Swap[i].isBuy = side
  BY <1>1, <1>2 DEF Mine
<1>3. CASE ~(Swap[i].user = u /\ Swap[i].isBuy = side)
  BY <1>1, <1>3 DEF Mine
<1> QED
  BY <1>2, <1>3

\* A fold adds its trade to the totals of its user.
LEMMA TallyFold ==
  ASSUME TypeOK, NEW i \in Ids \ trades, trades' = trades \cup {i},
         pos' = [pos EXCEPT ![Swap[i].user] = Fold(@, Swap[i])],
         NEW u \in Users, Tally(u)
  PROVE  Tally(u)'
<1> DEFINE B == Mine(u, TRUE)
           S == Mine(u, FALSE)
<1>t. pos \in [Users -> Position] /\ Swap[i].user \in Users /\ Swap[i].isBuy \in BOOLEAN
  BY SwapType DEF TypeOK
<1>1. /\ B \in SUBSET Ids /\ S \in SUBSET Ids /\ i \notin B /\ i \notin S
      /\ B' = IF Swap[i].user = u /\ Swap[i].isBuy = TRUE THEN B \cup {i} ELSE B
      /\ S' = IF Swap[i].user = u /\ Swap[i].isBuy = FALSE THEN S \cup {i} ELSE S
  BY MineStep
<1>2. /\ pos[u].spent = Sum(B, "usdl") /\ pos[u].bought = Sum(B, "token")
      /\ pos[u].received = Sum(S, "usdl") /\ pos[u].sold = Sum(S, "token")
      /\ pos[u].count = Cardinality(B \cup S)
  BY DEF Tally
<1>n. SUFFICES /\ pos'[u].spent = Sum(B', "usdl") /\ pos'[u].bought = Sum(B', "token")
               /\ pos'[u].received = Sum(S', "usdl") /\ pos'[u].sold = Sum(S', "token")
               /\ pos'[u].count = Cardinality(B' \cup S')
  BY DEF Tally
<1>3. /\ Sum(B \cup {i}, "usdl") = Swap[i].usdl + Sum(B, "usdl")
      /\ Sum(B \cup {i}, "token") = Swap[i].token + Sum(B, "token")
      /\ Sum(S \cup {i}, "usdl") = Swap[i].usdl + Sum(S, "usdl")
      /\ Sum(S \cup {i}, "token") = Swap[i].token + Sum(S, "token")
  BY <1>1, SumTrade
<1>4. /\ Cardinality((B \cup S) \cup {i}) = Cardinality(B \cup S) + 1
  BY <1>1, SumTradesType, FS_AddElement
<1>5. /\ Swap[i].usdl \in Nat /\ Swap[i].token \in Nat
      /\ pos[u].spent \in Nat /\ pos[u].bought \in Nat
      /\ pos[u].received \in Nat /\ pos[u].sold \in Nat
  BY <1>t, SwapType DEF Position
<1> HIDE DEF B, S
<1>6. CASE Swap[i].user # u
  <2>1. pos'[u] = pos[u] /\ B' = B /\ S' = S
    BY <1>1, <1>6, <1>t
  <2> QED
    BY <1>2, <2>1
<1>7. CASE Swap[i].user = u /\ Swap[i].isBuy
  <2>1. pos'[u] = Bought(pos[u], Swap[i]) /\ B' = B \cup {i} /\ S' = S
    BY <1>1, <1>7, <1>t DEF Fold
  <2>2. /\ pos'[u].spent = pos[u].spent + Swap[i].usdl
        /\ pos'[u].bought = pos[u].bought + Swap[i].token
        /\ pos'[u].received = pos[u].received /\ pos'[u].sold = pos[u].sold
        /\ pos'[u].count = pos[u].count + 1
    BY <2>1 DEF Bought
  <2>3. B' \cup S' = (B \cup S) \cup {i}
    BY <2>1
  <2> QED
    BY <1>2, <1>3, <1>4, <1>5, <2>1, <2>2, <2>3
<1>8. CASE Swap[i].user = u /\ ~Swap[i].isBuy
  <2>1. pos'[u] = Sold(pos[u], Swap[i]) /\ B' = B /\ S' = S \cup {i}
    BY <1>1, <1>8, <1>t DEF Fold
  <2>2. /\ pos'[u].spent = pos[u].spent /\ pos'[u].bought = pos[u].bought
        /\ pos'[u].received = pos[u].received + Swap[i].usdl
        /\ pos'[u].sold = pos[u].sold + Swap[i].token
        /\ pos'[u].count = pos[u].count + 1
    BY <2>1 DEF Sold
  <2>3. B' \cup S' = (B \cup S) \cup {i}
    BY <2>1
  <2>4. pos'[u].received = Sum(S', "usdl") /\ pos'[u].sold = Sum(S', "token")
    BY <1>2, <1>3, <1>5, <2>1, <2>2
  <2>5. pos'[u].count = Cardinality(B' \cup S')
    BY <1>2, <1>4, <2>2, <2>3
  <2> QED
    BY <1>2, <2>1, <2>2, <2>4, <2>5
<1> QED
  BY <1>6, <1>7, <1>8

\* A position whose totals are those of its trades and whose holdings are
\* bounded is exact.
LEMMA TallyExact == TypeOK /\ TallyOK /\ HoldingsOK => TotalsExact
<1> SUFFICES ASSUME TypeOK, TallyOK, HoldingsOK, NEW u \in Users
             PROVE  LET B == Mine(u, TRUE)
                        S == Mine(u, FALSE)
                    IN /\ pos[u].spent = Sum(B, "usdl") /\ pos[u].bought = Sum(B, "token")
                       /\ pos[u].received = Sum(S, "usdl") /\ pos[u].sold = Sum(S, "token")
                       /\ pos[u].count = Cardinality(B \cup S)
                       /\ pos[u].holdings \in
                            Max({0, pos[u].bought - pos[u].sold}) .. pos[u].bought
  BY DEF TotalsExact
<1>1. Tally(u) /\ HoldingsOf(pos[u])
  BY DEF TallyOK, HoldingsOK
<1>2. /\ pos[u].bought \in Nat /\ pos[u].sold \in Nat /\ pos[u].holdings \in Nat
  BY DEF TypeOK, Position
<1>3. pos[u].bought - pos[u].sold \in Int
  BY <1>2
<1>4. Max({0, pos[u].bought - pos[u].sold})
        = IF 0 >= pos[u].bought - pos[u].sold THEN 0 ELSE pos[u].bought - pos[u].sold
  BY <1>3, MaxPair
<1>5. pos[u].holdings \in Max({0, pos[u].bought - pos[u].sold}) .. pos[u].bought
  BY <1>1, <1>2, <1>4 DEF HoldingsOf
<1> QED
  BY <1>1, <1>5 DEF Tally

(***************************************************************************)
(* Whatever is delivered twice, retried, lost or cut short by a crash, the *)
(* totals of every position are those of the trades recorded for its user, *)
(* each counted once, and the holdings lie between what they account for   *)
(* and what was bought (FoldTrade, pnlmath.Fold).                          *)
(***************************************************************************)
THEOREM TotalsAlwaysExact == Spec => []TotalsExact
<1>1. IInv /\ TallyOK /\ [Next]_vars => TallyOK'
  <2> SUFFICES ASSUME IInv, TallyOK, [Next]_vars, NEW u \in Users PROVE Tally(u)'
    BY DEF TallyOK
  <2>1. TypeOK /\ Tally(u)
    BY DEF IInv, TallyOK
  <2>2. CASE UNCHANGED ledger
    BY <2>1, <2>2 DEF ledger, Tally, Mine
  <2>3. CASE OneFold
    <3>1. PICK i \in rows \ trades :
            /\ trades' = trades \cup {i}
            /\ pos' = [pos EXCEPT ![Swap[i].user] = Fold(@, Swap[i])]
      BY <2>3 DEF OneFold
    <3>2. i \in Ids \ trades
      BY <2>1 DEF TypeOK
    <3> QED
      BY <2>1, <3>1, <3>2, TallyFold
  <2> QED
    BY <2>2, <2>3, LedgerStep
<1>2. IInv => TypeOK
  BY DEF IInv
<1> QED
  BY Inductive, HoldingsBounded, InitTally, TallyExact, <1>1, <1>2, PTL DEF Spec
=============================================================================
