------------------------------ MODULE Candles ------------------------------
(***************************************************************************)
(* The candle builder of core/trading-charts for one pool: ProcessSwap     *)
(* (internal/engine/builder.go) called by the Redis consumer and by the    *)
(* webhook handlers at the same time, and the gap filler (gapfill.go).     *)
(*                                                                         *)
(* The database runs at READ COMMITTED: a statement reads what has been    *)
(* committed, a write takes its row's lock until the transaction ends, and *)
(* a statement that needs a locked row waits.  A swap stands for its own   *)
(* price, and a candle for its open, the swaps folded into it in order and *)
(* its sequence number: high, low, close, volumes and counts are functions *)
(* of these, since one UPDATE rewrites all of them from one SELECT.        *)
(***************************************************************************)
EXTENDS Integers, Sequences, FiniteSets, SequencesExt, FiniteSetsExt

CONSTANTS
  At,        \* the block timestamp of every swap, in chain order
  Interval,  \* the length of every timeframe, shortest first
  Hooks,     \* the webhook handlers that may run at once
  MaxConns,  \* connections in the pool
  MaxGaps,   \* candles the gap filler writes per cursor and pass
  Failures,  \* whether statements may fail and the process may die
  MaxPosts,  \* bound: webhook deliveries of a swap
  MaxNow     \* bound: the clock

Swaps == 1 .. Len(At)
Frames == 1 .. Len(Interval)
Workers == {"redis"} \cup Hooks

ASSUME CandlesAssumption ==
  /\ At \in Seq(0 .. MaxNow) /\ Interval \in Seq(Nat \ {0}) /\ Interval # <<>>
  /\ "redis" \notin Hooks /\ IsFiniteSet(Hooks)
  /\ MaxConns \in Nat \ {0, 1} /\ MaxGaps \in Nat \ {0} /\ Failures \in BOOLEAN
  /\ MaxPosts \in Nat /\ MaxNow \in Nat

VARIABLES
  claims,  \* candles.processed_swaps
  candle,  \* candles.candles, by timeframe and start
  cursor,  \* candles.candle_cursors, by timeframe
  seen,    \* the dedup cache of the process
  heard,   \* the last swap the Redis consumer has been handed
  posts,   \* the webhook deliveries of every swap so far
  job,     \* the call of ProcessSwap each worker is in
  fill,    \* the pass the gap filler is in
  now,     \* the clock
  crossed  \* history: swaps whose transaction overlapped another writer

vars == <<claims, candle, cursor, seen, heard, posts, job, fill, now, crossed>>
database == <<claims, candle, cursor>>

Start(f, t) == (t \div Interval[f]) * Interval[f]
Rows == Frames \X (0 .. MaxNow)
Candle == [open : Swaps, folds : Seq(Swaps), seq : Nat]
Cursor == [close : Swaps, start : 0 .. MaxNow, seq : Nat]
Close(c) == IF c.folds = <<>> THEN c.open ELSE Last(c.folds)

\* row is the candle the next statement writes; cands and curs are the
\* transaction's own writes.
Idle == [pc |-> "idle", swap |-> 0, frame |-> 1, row |-> <<>>,
         cands |-> <<>>, curs |-> <<>>]
Resting == [pc |-> "idle", snap |-> <<>>, until |-> 0, frame |-> 1,
            row |-> <<>>, filled |-> 0]

TypeOK ==
  /\ claims \subseteq Swaps /\ seen \subseteq Swaps /\ crossed \subseteq Swaps
  /\ DOMAIN candle \subseteq Rows /\ \A k \in DOMAIN candle : candle[k] \in Candle
  /\ DOMAIN cursor \subseteq Frames /\ \A f \in DOMAIN cursor : cursor[f] \in Cursor
  /\ heard \in 0 .. Len(At) /\ posts \in [Swaps -> 0 .. MaxPosts]
  /\ now \in 0 .. MaxNow
  /\ \A w \in Workers : /\ job[w].frame \in Frames
                        /\ job[w].pc # "idle" => job[w].swap \in Swaps
  /\ fill.frame \in Frames /\ fill.filled \in 0 .. MaxGaps

Init ==
  /\ claims = {} /\ candle = <<>> /\ cursor = <<>>
  /\ seen = {} /\ heard = 0 /\ posts = [s \in Swaps |-> 0]
  /\ job = [w \in Workers |-> Idle] /\ fill = Resting
  /\ now = 0 /\ crossed = {}

-----------------------------------------------------------------------------
(* Connections and row locks *)

InTx(w) == job[w].pc \notin {"idle", "begin"}
HasClaim(w) == InTx(w) /\ job[w].pc # "claim"
ConnFree == Cardinality({w \in Workers : InTx(w)}) < MaxConns

ClaimLocked(w, s) ==
  \E v \in Workers \ {w} : HasClaim(v) /\ job[v].swap = s
CandleLocked(v, k) == k \in DOMAIN job[v].cands
CursorLocked(v, f) == f \in DOMAIN job[v].curs
Others(w) == Workers \ {w}

\* A table with row k as v, and table t with the rows of `written` laid over it.
Put(t, k, v) == [j \in DOMAIN t \cup {k} |-> IF j = k THEN v ELSE t[j]]
Over(written, t) ==
  [j \in DOMAIN written \cup DOMAIN t |->
     IF j \in DOMAIN written THEN written[j] ELSE t[j]]

\* Key(w) is the candle the worker is at.
Key(w) == <<job[w].frame, Start(job[w].frame, At[job[w].swap])>>

-----------------------------------------------------------------------------
(* ProcessSwap *)

\* The Redis subscription is ordered and drops what it cannot deliver.
Hear(s) ==
  /\ s > heard /\ heard' = s
  /\ UNCHANGED posts

\* The publisher posts a batch again when it has seen no answer.
Post(s) ==
  /\ posts[s] < MaxPosts
  /\ posts' = [posts EXCEPT ![s] = @ + 1]
  /\ UNCHANGED heard

Take(w, s) ==
  /\ job[w].pc = "idle" /\ At[s] <= now
  /\ IF w = "redis" THEN Hear(s) ELSE Post(s)
  /\ job' = IF s \in seen THEN job
            ELSE [job EXCEPT ![w].pc = "begin", ![w].swap = s]
  /\ UNCHANGED <<database, seen, fill, now, crossed>>

Begin(w) ==
  /\ job[w].pc = "begin" /\ ConnFree
  /\ job' = [job EXCEPT ![w].pc = "claim"]
  /\ crossed' = LET met == {v \in Others(w) : InTx(v)} IN
       IF met = {} THEN crossed
       ELSE crossed \cup {job[v].swap : v \in met \cup {w}}
  /\ UNCHANGED <<database, seen, heard, posts, fill, now>>

\* Mutant of Claim: the number of rows inserted is not looked at.
ClaimBlind(w) ==
  LET s == job[w].swap IN
  /\ job[w].pc = "claim" /\ ~ClaimLocked(w, s)
  /\ job' = [job EXCEPT ![w].pc = "read"] /\ UNCHANGED seen
  /\ UNCHANGED <<database, heard, posts, fill, now, crossed>>

\* Mutant of Claim: the swap is remembered before the fold is committed.
ClaimRemembers(w) ==
  LET s == job[w].swap IN
  /\ job[w].pc = "claim" /\ ~ClaimLocked(w, s)
  /\ job' = [job EXCEPT ![w] = IF s \in claims THEN Idle
                               ELSE [@ EXCEPT !.pc = "read"]]
  /\ seen' = seen \cup {s}
  /\ UNCHANGED <<database, heard, posts, fill, now, crossed>>

\* INSERT ... ON CONFLICT DO NOTHING waits for a claim that is not committed.
Claim(w) ==
  LET s == job[w].swap IN
  /\ job[w].pc = "claim" /\ ~ClaimLocked(w, s)
  /\ IF s \in claims
     THEN job' = [job EXCEPT ![w] = Idle] /\ seen' = seen \cup {s}
     ELSE job' = [job EXCEPT ![w].pc = "read"] /\ UNCHANGED seen
  /\ UNCHANGED <<database, heard, posts, fill, now, crossed>>

-----------------------------------------------------------------------------
(* upsertCandleInTx, once per timeframe *)

JobStep(w, new) ==
  /\ job' = [job EXCEPT ![w] = new]
  /\ UNCHANGED <<database, seen, heard, posts, fill, now, crossed>>

\* Mutant of NextFrame: one timeframe too many.
NextFrameOver(j) ==
  IF j.frame <= Len(Interval)
  THEN [j EXCEPT !.pc = "read", !.frame = @ + 1, !.row = <<>>]
  ELSE [j EXCEPT !.pc = "commit", !.row = <<>>]

NextFrame(j) ==
  IF j.frame < Len(Interval)
  THEN [j EXCEPT !.pc = "read", !.frame = @ + 1, !.row = <<>>]
  ELSE [j EXCEPT !.pc = "commit", !.row = <<>>]

\* SELECT without FOR UPDATE; what is to be written is computed from it.
ReadCandle(w) ==
  LET k == Key(w) IN
  /\ job[w].pc = "read"
  /\ JobStep(w, IF k \in DOMAIN candle
       THEN [job[w] EXCEPT !.pc = "update",
               !.row = [candle[k] EXCEPT !.folds = Append(candle[k].folds, job[w].swap)]]
       ELSE [job[w] EXCEPT !.pc = "cursor"])

UpdateCandle(w) ==
  LET k == Key(w) IN
  /\ job[w].pc = "update" /\ \A v \in Others(w) : ~CandleLocked(v, k)
  /\ JobStep(w, [job[w] EXCEPT !.pc = "close", !.cands = Put(@, k, job[w].row)])

\* UPDATE candle_cursors SET last_close ... WHERE last_candle_start <= start
UpdateCursorClose(w) ==
  LET f == job[w].frame
      behind == f \in DOMAIN cursor /\ cursor[f].start <= Key(w)[2]
  IN
  /\ job[w].pc = "close"
  /\ \/ /\ ~behind
        /\ JobStep(w, NextFrame(job[w]))
     \/ /\ behind /\ \A v \in Others(w) : ~CursorLocked(v, f)
        /\ JobStep(w, NextFrame([job[w] EXCEPT !.curs =
             Put(@, f, [cursor[f] EXCEPT !.close = job[w].swap])]))

\* GetCursor takes a second connection while the transaction holds one.
GetCursor(w) ==
  LET f == job[w].frame
      s == job[w].swap
  IN
  /\ job[w].pc = "cursor" /\ ConnFree
  /\ JobStep(w, [job[w] EXCEPT !.pc = "insert", !.row =
       IF f \in DOMAIN cursor
       THEN [open |-> cursor[f].close, folds |-> <<s>>, seq |-> cursor[f].seq + 1]
       ELSE [open |-> s, folds |-> <<s>>, seq |-> 0]])

\* ON CONFLICT DO NOTHING: a candle committed since the SELECT stays.
InsertCandle(w) ==
  LET k == Key(w) IN
  /\ job[w].pc = "insert" /\ \A v \in Others(w) : ~CandleLocked(v, k)
  /\ JobStep(w, [job[w] EXCEPT !.pc = "upsert",
       !.cands = IF k \in DOMAIN candle THEN @ ELSE Put(@, k, job[w].row)])

UpsertCursor(w) ==
  LET f == job[w].frame IN
  /\ job[w].pc = "upsert" /\ \A v \in Others(w) : ~CursorLocked(v, f)
  /\ JobStep(w, NextFrame([job[w] EXCEPT !.curs =
       Put(@, f, [close |-> job[w].swap, start |-> Key(w)[2],
                  seq |-> job[w].row.seq])]))

-----------------------------------------------------------------------------
(* The end of ProcessSwap *)

\* An error after the server has committed leaves the cache without the swap.
Commit(w) ==
  /\ job[w].pc = "commit"
  /\ claims' = claims \cup {job[w].swap}
  /\ candle' = Over(job[w].cands, candle)
  /\ cursor' = Over(job[w].curs, cursor)
  /\ \/ seen' = seen \cup {job[w].swap}
     \/ Failures /\ UNCHANGED seen
  /\ job' = [job EXCEPT ![w] = Idle]
  /\ UNCHANGED <<heard, posts, fill, now, crossed>>

\* What waits for a connection returns when the request's context ends, because
\* the publisher has given up.  The Redis consumer has no such limit.
ClientGivesUp(w) ==
  /\ w \in Hooks /\ job[w].pc \in {"begin", "cursor"} /\ ~ConnFree
  /\ JobStep(w, Idle)

\* What waits for a row lock fails after the statement timeout.
Blocked(w) ==
  LET held(Lock(_, _), x) == \E v \in Others(w) : Lock(v, x) IN
  \/ job[w].pc = "claim" /\ ClaimLocked(w, job[w].swap)
  \/ job[w].pc \in {"update", "insert"} /\ held(CandleLocked, Key(w))
  \/ job[w].pc \in {"close", "upsert"} /\ held(CursorLocked, job[w].frame)

\* Mutant of StatementTimesOut: the pool is opened without the option.
StatementTimesOutNever(w) ==
  /\ FALSE
  /\ JobStep(w, Idle)

StatementTimesOut(w) ==
  /\ Blocked(w)
  /\ JobStep(w, Idle)

\* Mutant of SwapFails: a timeframe that fails is passed over.
SwapFailsPassedOver(w) ==
  /\ Failures /\ job[w].pc # "idle"
  /\ JobStep(w, IF job[w].pc \in {"begin", "claim", "commit"} THEN Idle
                ELSE NextFrame(job[w]))

\* A statement fails: the transaction is rolled back and the error is logged;
\* both callers go on and neither asks for the swap again.
SwapFails(w) ==
  /\ Failures /\ job[w].pc # "idle"
  /\ JobStep(w, Idle)

\* The cache forgets a swap after its time to live, or to make room.
Forget(s) ==
  /\ s \in seen /\ seen' = seen \ {s}
  /\ UNCHANGED <<database, heard, posts, job, fill, now, crossed>>

-----------------------------------------------------------------------------
(* DetectAndFillGaps *)

FillStep(new) ==
  /\ fill' = new
  /\ UNCHANGED <<claims, seen, heard, posts, job, now>>

FillNext ==
  IF fill.frame < Len(Interval)
  THEN [fill EXCEPT !.pc = "frame", !.frame = @ + 1, !.row = <<>>, !.filled = 0]
  ELSE Resting

FillScan ==
  /\ fill.pc = "idle" /\ ConnFree
  /\ FillStep([Resting EXCEPT !.pc = "frame", !.snap = cursor, !.until = now])
  /\ UNCHANGED <<candle, cursor, crossed>>

FillAt == fill.snap[fill.frame].start + (fill.filled + 1) * Interval[fill.frame]
FillEnd == Start(fill.frame, fill.until)

\* A cursor that is up to date, or whose candle is missing, is passed over.
FillRead ==
  LET f == fill.frame
      due == f \in DOMAIN fill.snap /\ FillAt < FillEnd
      k == <<f, fill.snap[f].start>>
  IN
  /\ fill.pc = "frame"
  /\ due => ConnFree
  /\ FillStep(IF due /\ k \in DOMAIN candle
       THEN [fill EXCEPT !.pc = "insert",
               !.row = [open |-> Close(candle[k]), folds |-> <<>>,
                        seq |-> candle[k].seq]]
       ELSE FillNext)
  /\ UNCHANGED <<candle, cursor, crossed>>

FillInsert ==
  LET k == <<fill.frame, FillAt>>
      new == [fill.row EXCEPT !.seq = fill.row.seq + 1]
      more == FillAt + Interval[fill.frame] < FillEnd /\ fill.filled + 1 < MaxGaps
  IN
  /\ fill.pc = "insert" /\ ConnFree /\ \A v \in Workers : ~CandleLocked(v, k)
  /\ candle' = IF k \in DOMAIN candle THEN candle ELSE Put(candle, k, new)
  /\ crossed' = crossed \cup {job[w].swap : w \in {v \in Workers : InTx(v)}}
  /\ FillStep([fill EXCEPT !.row = new, !.filled = @ + 1,
                           !.pc = IF more THEN "insert" ELSE "advance"])
  /\ UNCHANGED cursor

\* The candle that could not be written has been counted already.
FillInsertFails ==
  /\ Failures /\ fill.pc = "insert"
  /\ FillStep([fill EXCEPT !.row.seq = @ + 1, !.filled = @ + 1, !.pc = "advance"])
  /\ UNCHANGED <<candle, cursor, crossed>>

\* UPDATE candle_cursors, whatever the cursor has become since the scan.
FillAdvance ==
  LET f == fill.frame IN
  /\ fill.pc = "advance" /\ ConnFree /\ \A v \in Workers : ~CursorLocked(v, f)
  /\ cursor' = [cursor EXCEPT ![f].start = FillAt - Interval[f],
                              ![f].seq = fill.row.seq]
  /\ FillStep(FillNext)
  /\ UNCHANGED <<candle, crossed>>

FillAdvanceFails ==
  /\ Failures /\ fill.pc = "advance"
  /\ FillStep(FillNext)
  /\ UNCHANGED <<candle, cursor, crossed>>

-----------------------------------------------------------------------------
Tick ==
  /\ now < MaxNow /\ now' = now + 1
  /\ UNCHANGED <<database, seen, heard, posts, job, fill, crossed>>

\* The service restarts; the database rolls back what was open.
Crash ==
  /\ Failures
  /\ job' = [w \in Workers |-> Idle] /\ fill' = Resting /\ seen' = {}
  /\ UNCHANGED <<database, heard, posts, now, crossed>>

Step(w) ==
  \/ Begin(w) \/ Claim(w) \/ ReadCandle(w)
  \/ UpdateCandle(w) \/ UpdateCursorClose(w)
  \/ GetCursor(w) \/ InsertCandle(w) \/ UpsertCursor(w)
  \/ Commit(w)

Next ==
  \/ \E w \in Workers :
       \/ \E s \in Swaps : Take(w, s)
       \/ Step(w) \/ ClientGivesUp(w) \/ StatementTimesOut(w) \/ SwapFails(w)
  \/ \E s \in Swaps : Forget(s)
  \/ FillScan \/ FillRead \/ FillInsert \/ FillAdvance
  \/ FillInsertFails \/ FillAdvanceFails
  \/ Tick \/ Crash

Spec == Init /\ [][Next]_vars

\* Goroutines run, the gap filler's timer ticks, and the two timeouts expire.
FairSpec ==
  /\ Spec
  /\ \A w \in Workers : WF_vars(Step(w)) /\ WF_vars(StatementTimesOut(w))
  /\ \A w \in Hooks : WF_vars(ClientGivesUp(w))
  /\ WF_vars(FillScan) /\ WF_vars(FillRead)
  /\ WF_vars(FillInsert) /\ WF_vars(FillAdvance)

-----------------------------------------------------------------------------
(* Properties *)

FoldsOf(f, s) ==
  LET k == <<f, Start(f, At[s])>> IN
  IF k \in DOMAIN candle
  THEN Cardinality({i \in DOMAIN candle[k].folds : candle[k].folds[i] = s})
  ELSE 0

\* The cache answers only for swaps whose claim is committed: it can never be
\* the reason a swap is not folded.
SeenIsClaimed == seen \subseteq claims

\* However a swap is delivered, repeated, forgotten by the cache or interrupted,
\* no candle counts it twice, none counts a swap that is not claimed, and a
\* claimed one is in its candle of every timeframe, unless its transaction
\* overlapped another writer's.
LostOnlyByOverlap ==
  \A s \in Swaps, f \in Frames :
    /\ FoldsOf(f, s) <= 1
    /\ FoldsOf(f, s) = 1 => s \in claims
    /\ s \in claims \ crossed => FoldsOf(f, s) = 1

\* No set of row locks and connections leaves a call of ProcessSwap waiting
\* for ever.
CallsReturn == \A w \in Workers : job[w].pc # "idle" ~> job[w].pc = "idle"

\* What ProcessSwap's comment says, "exactly once": a claimed swap is in its
\* candles.
ClaimedIsFolded == \A s \in claims, f \in Frames : FoldsOf(f, s) = 1
=============================================================================
