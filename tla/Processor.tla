----------------------------- MODULE Processor -----------------------------
(***************************************************************************)
(* The indexer's spine (src/core/indexer/internal/processor): the live     *)
(* loop that walks the chain in block ranges, persists every usable log,   *)
(* moves the cursor and only then hands the events to the publisher; and   *)
(* the backfill that replays a range into the same tables without          *)
(* publishing, under a job row that survives a restart.                    *)
(*                                                                         *)
(* A log is its position in chain order.  The chain is append-only here:   *)
(* the code ignores reorganisations (it never reads the Removed flag), so  *)
(* a model with them would only restate that omission.  A query for the    *)
(* logs of a range is taken to return all of them up to its end, which is  *)
(* an assumption on the nodes: the code asks one node for the height and   *)
(* perhaps another for the logs (source/evm.go), and takes the answer of   *)
(* one that lags for an empty range.  Every database                       *)
(* statement of the code commits by itself, so each is one step, and a     *)
(* failing one may or may not have taken effect.                           *)
(***************************************************************************)
EXTENDS Integers, FiniteSets

CONSTANTS
  NumLogs,        \* the number of logs the EventEmitter ever emits
  BlockOf,        \* BlockOf[i]: the block of log i
  Kind,           \* Kind[i]: which handler log i reaches
  PoolOf,         \* PoolOf[i]: the pool log i is about
  MaxBlock,       \* the bound on the height of the chain
  StartBlock,     \* INDEXER_START_BLOCK
  BackfillFrom,   \* BACKFILL_FROM_BLOCK, or StartBlock when it is unset
  BatchSize,      \* blocks per live batch
  BackfillBatch,  \* blocks per backfill batch
  Modes           \* the INDEXER_MODE values an operator starts it with

Logs == 1 .. NumLogs
NoRow == -1       \* no cursor row
NoJob == [to |-> NoRow, last |-> NoRow]  \* no running backfill job

(***************************************************************************)
(* "Unusable": the log does not decode, has no handler, or its block's     *)
(* timestamp is not known; collect warns and goes on.  A backfill that     *)
(* starts above StartBlock + 1 would leave a hole below it, which is why   *)
(* the last conjunct is an assumption on the operator and not a fact.      *)
(***************************************************************************)
ASSUME ProcessorAssumption ==
  /\ NumLogs \in Nat /\ MaxBlock \in Nat /\ StartBlock \in 0 .. MaxBlock
  /\ BatchSize \in Nat \ {0} /\ BackfillBatch \in Nat \ {0}
  /\ BlockOf \in [Logs -> 1 .. MaxBlock]
  /\ \A i, j \in Logs : i <= j => BlockOf[i] <= BlockOf[j]
  /\ Kind \in [Logs -> {"MarketCreated", "Swap", "Other", "Unusable"}]
  /\ DOMAIN PoolOf = Logs
  /\ Modes \subseteq {"live", "backfill"}
  /\ BackfillFrom \in 0 .. StartBlock + 1

VARIABLES
  head,    \* the chain's height
  rows,    \* the logs with a row in their typed table
  linked,  \* the swap rows stored with their pool's address
  cursor,  \* indexer cursor row, or NoRow
  job,     \* the backfill job with status 'running', or NoJob
  pc,      \* where the process is
  last,    \* Run's `last`; the block before `current` in a backfill
  to,      \* the last block of the batch; 0 outside one
  goal,    \* the backfill's toBlock
  todo,    \* the logs of the batch not yet looked at
  batch,   \* the envelopes collected so far
  fanned,  \* history: the logs handed to the publisher
  base     \* history: `last` when the live loop began

db == <<rows, linked, cursor, job>>
local == <<pc, last, to, goal, todo, batch>>
history == <<fanned, base>>
vars == <<head, rows, linked, cursor, job, pc, last, to, goal, todo, batch,
          fanned, base>>

Usable(i) == Kind[i] # "Unusable"
InRange(a, b) == {i \in Logs : a <= BlockOf[i] /\ BlockOf[i] <= b}
AtMost(a, b) == IF a <= b THEN a ELSE b

\* Mutant of PoolKnown: only pools created in the same batch are found.
PoolKnownInBatch(i) ==
  \E m \in batch : Kind[m] = "MarketCreated" /\ PoolOf[m] = PoolOf[i]

\* Swaps find their pool by id in the pools table.
PoolKnown(i) ==
  \E m \in rows : Kind[m] = "MarketCreated" /\ PoolOf[m] = PoolOf[i]

Live == {"idle", "collect", "cursor", "publish"}
Backfilling == {"replay", "recollect", "progress", "finish"}

Heights == NoRow .. MaxBlock
Jobs == [to : Heights, last : Heights]

TypeOK ==
  /\ head \in 0 .. MaxBlock
  /\ rows \subseteq Logs /\ linked \subseteq Logs
  /\ cursor \in Heights
  /\ job \in Jobs
  /\ pc \in {"down", "boot", "stalled"} \cup Live \cup Backfilling
  /\ last \in Heights /\ to \in Heights /\ goal \in Heights
  /\ base \in Heights
  /\ todo \subseteq Logs /\ batch \subseteq Logs
  /\ fanned \subseteq Logs

Init ==
  /\ head = 0
  /\ rows = {} /\ linked = {} /\ cursor = NoRow /\ job = NoJob
  /\ pc = "down" /\ last = 0 /\ to = 0 /\ goal = 0
  /\ todo = {} /\ batch = {}
  /\ fanned = {} /\ base = 0

NewBlock ==
  /\ head < MaxBlock
  /\ head' = head + 1
  /\ UNCHANGED <<db, local, history>>

\* The process is gone; only the database survives it.
Exit ==
  /\ pc' = "down"
  /\ last' = 0 /\ to' = 0 /\ goal' = 0 /\ todo' = {} /\ batch' = {}
  /\ base' = 0

-----------------------------------------------------------------------------
(* app.Run: start in the configured mode. *)

Start ==
  /\ pc = "down" /\ "live" \in Modes
  /\ pc' = "boot"
  /\ UNCHANGED <<head, db, last, to, goal, todo, batch, history>>

\* Processor.Run reads its cursor once.
LoadCursor ==
  /\ pc = "boot"
  /\ last' = (IF cursor = NoRow THEN StartBlock ELSE cursor)
  /\ base' = last'
  /\ pc' = "idle"
  /\ to' = 0 /\ goal' = 0
  /\ UNCHANGED <<head, db, todo, batch, fanned>>

\* When that read fails Run returns, but app.Run keeps waiting for a signal:
\* the process stays up, serves /status and indexes nothing.
LoadCursorFails ==
  /\ pc = "boot"
  /\ pc' = "stalled"
  /\ UNCHANGED <<head, db, last, to, goal, todo, batch, history>>

-----------------------------------------------------------------------------
(* The live loop. *)

\* Mutants of Poll: the batch is not cut at the head; only full batches.
PollUncut ==
  /\ pc = "idle" /\ last + 1 <= head
  /\ to' = last + BatchSize
  /\ todo' = InRange(last + 1, to')
  /\ batch' = {}
  /\ pc' = "collect"
  /\ UNCHANGED <<head, db, last, goal, history>>

PollFullOnly ==
  /\ pc = "idle" /\ last + BatchSize <= head
  /\ to' = last + BatchSize
  /\ todo' = InRange(last + 1, to')
  /\ batch' = {}
  /\ pc' = "collect"
  /\ UNCHANGED <<head, db, last, goal, history>>

\* The node that answers may lag behind the chain.
Poll ==
  /\ pc = "idle"
  /\ \E h \in 0 .. head :
       /\ last + 1 <= h
       /\ to' = AtMost(last + BatchSize, h)
  /\ todo' = InRange(last + 1, to')
  /\ batch' = {}
  /\ pc' = "collect"
  /\ UNCHANGED <<head, db, last, goal, history>>

\* Mutant of Collect: a failed insert is logged, the event goes out anyway.
CollectSwallow(i) ==
  /\ pc \in {"collect", "recollect"}
  /\ i \in todo /\ \A j \in todo : i <= j
  /\ todo' = todo \ {i}
  /\ batch' = batch \cup {i}
  /\ \/ rows' = rows \cup {i}
     \/ UNCHANGED rows
  /\ UNCHANGED <<head, linked, cursor, job, pc, last, to, goal, history>>

\* The next log in chain order goes through its handler.
Collect(i) ==
  /\ pc \in {"collect", "recollect"}
  /\ i \in todo /\ \A j \in todo : i <= j
  /\ todo' = todo \ {i}
  /\ IF Usable(i)
     THEN /\ rows' = rows \cup {i}
          /\ linked' = IF Kind[i] = "Swap" /\ i \notin rows /\ PoolKnown(i)
                       THEN linked \cup {i} ELSE linked
          /\ batch' = batch \cup {i}
     ELSE UNCHANGED <<rows, linked, batch>>
  /\ UNCHANGED <<head, cursor, job, pc, last, to, goal, fanned, base>>

\* Mutant of Collected: an error ends the loop over the logs, not the batch.
CollectedEarly ==
  /\ pc \in {"collect", "recollect"}
  /\ pc' = (IF pc = "collect" THEN "cursor" ELSE "progress")
  /\ todo' = {}
  /\ UNCHANGED <<head, db, last, to, goal, batch, history>>

Collected ==
  /\ pc \in {"collect", "recollect"} /\ todo = {}
  /\ pc' = (IF pc = "collect" THEN "cursor" ELSE "progress")
  /\ UNCHANGED <<head, db, last, to, goal, todo, batch, history>>

AdvanceCursor ==
  /\ pc = "cursor"
  /\ cursor' = to
  /\ pc' = "publish"
  /\ UNCHANGED <<head, rows, linked, job, last, to, goal, todo, batch, history>>

\* PublishBatch only schedules goroutines; the loop goes on at once.
Publish ==
  /\ pc = "publish"
  /\ fanned' = fanned \cup batch
  /\ last' = to
  /\ pc' = "idle"
  /\ to' = 0 /\ batch' = {}
  /\ UNCHANGED <<head, db, goal, todo, base>>

\* Mutant of BatchFails: the loop moves on after an error.
BatchFailsMovesOn ==
  /\ pc \in {"collect", "cursor"}
  /\ pc' = "idle"
  /\ last' = to
  /\ to' = 0 /\ todo' = {} /\ batch' = {}
  /\ UNCHANGED <<head, db, goal, history>>

\* An error anywhere in ProcessBatch: `last` stays, the range is retried.
\* The cursor write may have taken effect all the same; that a row's did is
\* Collect followed by a failure.
BatchFails ==
  /\ \/ /\ pc = "collect" /\ todo # {}
        /\ UNCHANGED db
     \/ /\ pc = "cursor"
        /\ cursor' = to
        /\ UNCHANGED <<rows, linked, job>>
     \/ /\ pc = "cursor" /\ UNCHANGED db
  /\ pc' = "idle"
  /\ to' = 0 /\ todo' = {} /\ batch' = {}
  /\ UNCHANGED <<head, last, goal, history>>

-----------------------------------------------------------------------------
(* Backfill.Run. *)

BackfillResume ==
  /\ pc = "down" /\ "backfill" \in Modes /\ job # NoJob
  /\ last' = job.last
  /\ goal' = job.to
  /\ pc' = "replay"
  /\ UNCHANGED <<head, db, to, todo, batch, history>>

BackfillCreate ==
  /\ pc = "down" /\ "backfill" \in Modes /\ job = NoJob
  /\ \E h \in 0 .. head : job' = [to |-> h, last |-> BackfillFrom - 1]
  /\ last' = BackfillFrom - 1
  /\ goal' = job'.to
  /\ pc' = "replay"
  /\ UNCHANGED <<head, rows, linked, cursor, to, todo, batch, history>>

BackfillNextBatch ==
  /\ pc = "replay" /\ last < goal
  /\ to' = AtMost(last + BackfillBatch, goal)
  /\ todo' = InRange(last + 1, to')
  /\ batch' = {}
  /\ pc' = "recollect"
  /\ UNCHANGED <<head, db, last, goal, history>>

\* The envelopes collect returned are dropped.
UpdateBackfillProgress ==
  /\ pc = "progress"
  /\ job' = [job EXCEPT !.last = to]
  /\ last' = to
  /\ pc' = "replay"
  /\ to' = 0 /\ batch' = {}
  /\ UNCHANGED <<head, rows, linked, cursor, goal, todo, history>>

CompleteBackfillJob ==
  /\ pc = "replay" /\ last >= goal
  /\ job' = NoJob
  /\ pc' = "finish"
  /\ UNCHANGED <<head, rows, linked, cursor, last, to, goal, todo, batch,
                 history>>

\* The cursor is set, not raised; BACKFILL_ONLY ends the process here.
BackfillCursor ==
  /\ pc = "finish"
  /\ cursor' = goal
  /\ \/ /\ pc' = "boot"
        /\ UNCHANGED <<last, to, goal, todo, batch, base>>
     \/ Exit
  /\ UNCHANGED <<head, rows, linked, job, fanned>>

\* An error ends the process; the job is marked failed, and never resumed,
\* unless that write fails too.
BackfillFails ==
  /\ pc \in Backfilling
  /\ job' \in {NoJob, job}
  /\ Exit
  /\ UNCHANGED <<head, rows, linked, cursor, fanned>>

\* A kill, or the end of Run when its context is cancelled.
Crash ==
  /\ pc # "down"
  /\ Exit
  /\ UNCHANGED <<head, db, fanned>>

-----------------------------------------------------------------------------

LiveStep ==
  \/ Start \/ LoadCursor \/ LoadCursorFails \/ Poll \/ Collected
  \/ AdvanceCursor \/ BatchFails
  \/ \E i \in Logs : Collect(i)

BackfillStep ==
  \/ BackfillResume \/ BackfillCreate \/ BackfillNextBatch
  \/ UpdateBackfillProgress \/ CompleteBackfillJob \/ BackfillCursor
  \/ BackfillFails

Next == NewBlock \/ LiveStep \/ Publish \/ BackfillStep \/ Crash

(***************************************************************************)
(* The loop runs whenever it can, and a statement or a request tried again *)
(* and again succeeds in the end (the 5 s and poll-interval retries assume *)
(* it).  Nothing is assumed of crashes, restarts or of the chain.          *)
(***************************************************************************)
Fairness ==
  /\ SF_vars(Poll) /\ WF_vars(Collected) /\ WF_vars(Publish)
  /\ SF_vars(AdvanceCursor)
  /\ \A i \in 1 .. NumLogs : SF_vars(Collect(i))

Spec == Init /\ [][Next]_vars
FairSpec == Spec /\ Fairness

-----------------------------------------------------------------------------
(***************************************************************************)
(* The cursor never claims a block whose usable logs are not all in the    *)
(* tables, through retries, statements that failed after taking effect,    *)
(* lagging heads, crashes and backfills abandoned at any point: what makes *)
(* restarting from the cursor safe (processor.go ProcessBatch, backfill.go *)
(* run).                                                                   *)
(***************************************************************************)
Indexed(b) ==
  \A i \in Logs : StartBlock < BlockOf[i] /\ BlockOf[i] <= b /\ Usable(i)
                    => i \in rows

CursorCovered == cursor # NoRow => Indexed(cursor)

(***************************************************************************)
(* No consumer is ever handed an event whose row failed to persist (the    *)
(* package comment of processor.go, "i9 ordering"), and never one above    *)
(* the cursor of the time: the hand-over follows the cursor write.         *)
(***************************************************************************)
FannedPersisted ==
  /\ fanned \subseteq rows
  /\ pc = "publish" => batch \subseteq rows /\ cursor = to

(***************************************************************************)
(* A swap is stored without its pool's address only when the pool's        *)
(* creation lies at or below StartBlock (or is not usable): the row is     *)
(* written once, ON CONFLICT DO NOTHING, so an empty address would stay.   *)
(***************************************************************************)
SwapsLinked ==
  \A i \in rows, m \in Logs :
    /\ Kind[i] = "Swap" /\ Kind[m] = "MarketCreated"
    /\ PoolOf[m] = PoolOf[i] /\ m < i /\ StartBlock < BlockOf[m]
    => i \in linked

(***************************************************************************)
(* From the block it started at, the live loop hands over every usable log *)
(* of every block it has passed: a failed batch is retried, never skipped. *)
(***************************************************************************)
NothingSkipped ==
  pc \in Live =>
    \A i \in Logs : base < BlockOf[i] /\ BlockOf[i] <= last /\ Usable(i)
                      => i \in fanned

(***************************************************************************)
(* A process that stays in the live loop indexes every usable log of the   *)
(* chain above StartBlock, however often its statements fail on the way.   *)
(***************************************************************************)
EventuallyIndexed ==
  <>[](pc \in Live) =>
    \A i \in 1 .. NumLogs :
      (BlockOf[i] <= head /\ StartBlock < BlockOf[i] /\ Usable(i))
        ~> (i \in rows)
=============================================================================
