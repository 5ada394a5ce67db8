--------------------------- MODULE CandlesProofs ---------------------------
(***************************************************************************)
(* Theorems about the candle builder, for every list of swaps, timeframes  *)
(* and webhook handlers, every size of the pool and every bound.           *)
(*                                                                         *)
(* A candle that is committed, written by a transaction or about to be     *)
(* written folds no swap twice and none that is not claimed, or being      *)
(* claimed by that transaction.  What a transaction writes also has the    *)
(* claimed swaps of its candle that met no other writer: a swap that is    *)
(* claimed while another transaction is open is one that met it.           *)
(*                                                                         *)
(* Every transaction locks its rows in the order of the timeframes, so     *)
(* that one of those that hold a row always finds its next row free.       *)
(***************************************************************************)
EXTENDS Candles, Sums, SequenceTheorems

Points == {"idle", "begin", "claim", "read", "update", "close", "cursor",
           "insert", "upsert", "commit"}
Table == UNION {[D -> Candle] : D \in SUBSET Rows}
Cursors == UNION {[D -> Cursor] : D \in SUBSET Frames}
Jobs == [pc : Points, swap : 0 .. Len(At), frame : Frames,
         row : {<<>>} \cup Candle, cands : Table, curs : Cursors]
Fills == [pc : {"idle", "frame", "insert", "advance"}, snap : Cursors,
          until : 0 .. MaxNow, frame : Frames, row : {<<>>} \cup Candle,
          filled : 0 .. MaxGaps]

\* The row a worker carries is a candle when it is to be written, and so is the
\* gap filler's, which stays before the last candle that is over.
RowTyped(w) == job[w].pc \in {"update", "insert", "upsert"} => job[w].row \in Candle
FillTyped ==
  /\ fill.pc = "frame" => fill.filled = 0
  /\ fill.pc \in {"insert", "advance"} =>
       fill.row \in Candle /\ fill.row.folds = <<>> /\ fill.frame \in DOMAIN fill.snap
  /\ fill.pc = "insert" => fill.filled < MaxGaps /\ FillAt < FillEnd
  /\ fill.pc = "advance" => FillAt - Interval[fill.frame] \in 0 .. MaxNow

Types ==
  /\ TypeOK
  /\ candle \in Table /\ cursor \in Cursors
  /\ job \in [Workers -> Jobs] /\ fill \in Fills
  /\ \A w \in Workers : RowTyped(w)
  /\ FillTyped

-----------------------------------------------------------------------------
(* The invariant *)

Place(f, s) == <<f, Start(f, At[s])>>
Folded(c, s) == \E i \in DOMAIN c.folds : c.folds[i] = s

\* c folds swaps of S only, each at most once.
Clean(c, S) ==
  /\ \A i \in DOMAIN c.folds : c.folds[i] \in S
  /\ \A i, j \in DOMAIN c.folds : c.folds[i] = c.folds[j] => i = j

\* c, for the candle k, lost none of the swaps that met no other writer.
Full(c, k) ==
  \A s \in claims \ crossed, f \in Frames : Place(f, s) = k => Folded(c, s)

\* The frames a call is through with.
Done(j) == {f \in Frames : \/ f < j.frame
                           \/ f = j.frame /\ j.pc \in {"close", "upsert", "commit"}}

\* What holds of a call that has its claim.
Claimed(j) ==
  LET s == j.swap
      k == Place(j.frame, s)
      own == claims \cup {s}
  IN
  /\ s \in Swaps \ claims
  /\ \A l \in DOMAIN j.cands : Clean(j.cands[l], own) /\ Full(j.cands[l], l)
  /\ j.pc = "update" => Clean(j.row, own) /\ Full(j.row, k) /\ Folded(j.row, s)
  /\ j.pc = "insert" => j.row.folds = <<s>>
  /\ j.pc = "commit" => j.frame = Len(Interval)
  /\ s \notin crossed =>
       /\ \A f \in Done(j) :
            Place(f, s) \in DOMAIN j.cands /\ Folded(j.cands[Place(f, s)], s)
       /\ j.pc \in {"cursor", "insert"} => k \notin DOMAIN candle

\* What holds of one that does not.
Fresh(j) == DOMAIN j.cands = {} /\ j.frame = 1

JobOK(w) == IF HasClaim(w) THEN Claimed(job[w]) ELSE Fresh(job[w])

\* Two transactions never hold the same claim, and have met.
Apart ==
  \A v, w \in Workers : v # w =>
    /\ HasClaim(v) /\ HasClaim(w) => job[v].swap # job[w].swap
    /\ InTx(v) /\ InTx(w) => job[v].swap \in crossed

Committed ==
  /\ \A k \in DOMAIN candle : Clean(candle[k], claims)
  /\ \A s \in claims \ crossed, f \in Frames :
       Place(f, s) \in DOMAIN candle /\ Folded(candle[Place(f, s)], s)

JobsOK == \A w \in Workers : JobOK(w)
IInv == Types /\ JobsOK /\ Apart /\ Committed /\ SeenIsClaimed

-----------------------------------------------------------------------------
(* Constants, tables *)

\* What the assumption on the constants gives, fact by fact.
LEMMA Constants ==
  /\ At \in Seq(0 .. MaxNow) /\ Interval \in Seq(Nat \ {0}) /\ Len(Interval) \in Nat
  /\ Len(Interval) > 0 /\ MaxGaps \in Nat \ {0} /\ MaxNow \in Nat /\ MaxPosts \in Nat
  /\ 1 \in Frames /\ Workers = {"redis"} \cup Hooks /\ Len(At) \in Nat
  /\ Frames = 1 .. Len(Interval) /\ Swaps = 1 .. Len(At)
<1>1. /\ At \in Seq(0 .. MaxNow) /\ Interval \in Seq(Nat \ {0}) /\ Interval # <<>>
      /\ MaxGaps \in Nat \ {0} /\ MaxNow \in Nat /\ MaxPosts \in Nat
  BY CandlesAssumption
<1>2. Len(Interval) \in Nat /\ Len(Interval) > 0 /\ Len(At) \in Nat
  BY <1>1
<1> QED
  BY <1>1, <1>2 DEF Frames, Swaps, Workers

\* A swap's candle starts at a time of the clock.
LEMMA StartType ==
  ASSUME NEW f \in Frames, NEW t \in 0 .. MaxNow
  PROVE  Interval[f] \in Nat \ {0} /\ Start(f, t) \in 0 .. t /\ Start(f, t) \in 0 .. MaxNow
<1>1. Interval[f] \in Nat \ {0} /\ MaxNow \in Nat
  BY Constants
<1>2. t \div Interval[f] \in Nat /\ Interval[f] * (t \div Interval[f]) <= t
  BY <1>1
<1>3. (t \div Interval[f]) * Interval[f] = Interval[f] * (t \div Interval[f])
  BY <1>1, <1>2
<1>4. (t \div Interval[f]) * Interval[f] \in Nat
  BY <1>1, <1>2
<1> QED
  BY <1>1, <1>2, <1>3, <1>4 DEF Start

\* The candle a swap belongs to in a timeframe is a row.
LEMMA PlaceType ==
  ASSUME NEW f \in Frames, NEW s \in Swaps
  PROVE  /\ Place(f, s) \in Rows /\ Place(f, s)[1] = f
         /\ At[s] \in 0 .. MaxNow /\ Start(f, At[s]) \in 0 .. MaxNow
<1>1. At[s] \in 0 .. MaxNow
  BY Constants
<1>2. Start(f, At[s]) \in 0 .. MaxNow
  BY <1>1, StartType
<1> QED
  BY <1>1, <1>2 DEF Place, Rows

\* A table is a function on rows to candles.
LEMMA TableFacts ==
  ASSUME NEW t \in Table
  PROVE  DOMAIN t \subseteq Rows /\ \A k \in DOMAIN t : t[k] \in Candle
  BY DEF Table

\* A function on rows to candles is a table.
LEMMA TableOf ==
  ASSUME NEW D \in SUBSET Rows, NEW t \in [D -> Candle]
  PROVE  t \in Table /\ DOMAIN t = D
  BY DEF Table

\* A table with one more row.
LEMMA TablePut ==
  ASSUME NEW t \in Table, NEW k \in Rows, NEW c \in Candle
  PROVE  /\ Put(t, k, c) \in Table /\ DOMAIN Put(t, k, c) = DOMAIN t \cup {k}
         /\ Put(t, k, c)[k] = c
         /\ \A j \in DOMAIN t \ {k} : Put(t, k, c)[j] = t[j]
<1>1. DOMAIN t \cup {k} \in SUBSET Rows /\ \A j \in DOMAIN t : t[j] \in Candle
  BY TableFacts
<1>2. Put(t, k, c) \in [DOMAIN t \cup {k} -> Candle]
  BY <1>1 DEF Put
<1>3. Put(t, k, c) \in Table
  BY <1>1, <1>2, TableOf
<1> QED
  BY <1>3 DEF Put

\* A table that is laid over another.
LEMMA TableMerge ==
  ASSUME NEW a \in Table, NEW b \in Table
  PROVE  /\ Over(a, b) \in Table /\ DOMAIN Over(a, b) = DOMAIN a \cup DOMAIN b
         /\ \A k \in DOMAIN a : Over(a, b)[k] = a[k]
         /\ \A k \in DOMAIN b \ DOMAIN a : Over(a, b)[k] = b[k]
<1>1. DOMAIN a \cup DOMAIN b \in SUBSET Rows
  BY TableFacts
<1>2. Over(a, b) \in [DOMAIN a \cup DOMAIN b -> Candle]
  BY TableFacts DEF Over
<1>3. Over(a, b) \in Table
  BY <1>1, <1>2, TableOf
<1> QED
  BY <1>3 DEF Over

\* The same of the cursors.
LEMMA CursorsFacts ==
  ASSUME NEW t \in Cursors
  PROVE  DOMAIN t \subseteq Frames /\ \A k \in DOMAIN t : t[k] \in Cursor
  BY DEF Cursors

\* A function on timeframes to cursors is a set of cursors.
LEMMA CursorsOf ==
  ASSUME NEW D \in SUBSET Frames, NEW t \in [D -> Cursor]
  PROVE  t \in Cursors /\ DOMAIN t = D
  BY DEF Cursors

\* The cursors with one of them written.
LEMMA CursorPut ==
  ASSUME NEW t \in Cursors, NEW f \in Frames, NEW c \in Cursor
  PROVE  Put(t, f, c) \in Cursors
<1>1. DOMAIN t \cup {f} \in SUBSET Frames
  BY CursorsFacts
<1>2. Put(t, f, c) \in [DOMAIN t \cup {f} -> Cursor]
  BY CursorsFacts DEF Put
<1> QED
  BY <1>1, <1>2, CursorsOf

\* Cursors laid over others.
LEMMA CursorMerge ==
  ASSUME NEW a \in Cursors, NEW b \in Cursors
  PROVE  Over(a, b) \in Cursors /\ DOMAIN b \subseteq DOMAIN Over(a, b)
<1>1. DOMAIN a \cup DOMAIN b \in SUBSET Frames
  BY CursorsFacts
<1>2. Over(a, b) \in [DOMAIN a \cup DOMAIN b -> Cursor]
  BY CursorsFacts DEF Over
<1> QED
  BY <1>1, <1>2, CursorsOf DEF Over

\* Nothing is a table, and no cursors.
LEMMA EmptyTable == <<>> \in Table /\ <<>> \in Cursors /\ DOMAIN <<>> = {}
<1>1. <<>> \in [{} -> Candle] /\ <<>> \in [{} -> Cursor] /\ DOMAIN <<>> = {}
  OBVIOUS
<1> QED
  BY <1>1, TableOf, CursorsOf

-----------------------------------------------------------------------------
(* Types, in parts *)

DataTypes ==
  /\ claims \subseteq Swaps /\ seen \subseteq Swaps /\ crossed \subseteq Swaps
  /\ heard \in 0 .. Len(At) /\ posts \in [Swaps -> 0 .. MaxPosts] /\ now \in 0 .. MaxNow

TableTypes == candle \in Table /\ cursor \in Cursors

JobTyped(j) ==
  /\ j.pc # "idle" => j.swap \in Swaps
  /\ j.pc \in {"update", "insert", "upsert"} => j.row \in Candle

JobTypes == job \in [Workers -> Jobs] /\ \A w \in Workers : JobTyped(job[w])
FillTypes == fill \in Fills /\ FillTyped

\* The types of the state, split by what a step can disturb.
LEMMA TypesParts == Types <=> DataTypes /\ TableTypes /\ JobTypes /\ FillTypes
<1>1. Types => DataTypes /\ TableTypes /\ JobTypes /\ FillTypes
  BY DEF Types, TypeOK, DataTypes, TableTypes, JobTypes, FillTypes, JobTyped, RowTyped
<1>2. ASSUME TableTypes
      PROVE  /\ DOMAIN candle \subseteq Rows /\ \A k \in DOMAIN candle : candle[k] \in Candle
             /\ DOMAIN cursor \subseteq Frames /\ \A f \in DOMAIN cursor : cursor[f] \in Cursor
  BY <1>2, TableFacts, CursorsFacts DEF TableTypes
<1>3. ASSUME JobTypes, NEW w \in Workers
      PROVE  /\ job[w].frame \in Frames /\ (job[w].pc # "idle" => job[w].swap \in Swaps)
             /\ RowTyped(w)
  BY <1>3 DEF JobTypes, JobTyped, Jobs, RowTyped
<1>4. ASSUME FillTypes PROVE fill.frame \in Frames /\ fill.filled \in 0 .. MaxGaps
  BY <1>4 DEF FillTypes, Fills
<1>5. ASSUME DataTypes, TableTypes, JobTypes, FillTypes PROVE TypeOK
  BY <1>2, <1>3, <1>4, <1>5 DEF TypeOK, DataTypes
<1>6. ASSUME DataTypes, TableTypes, JobTypes, FillTypes PROVE Types
  BY <1>3, <1>5, <1>6 DEF Types, TableTypes, JobTypes, FillTypes
<1> QED
  BY <1>1, <1>6

\* A worker's call, field by field.
LEMMA JobFacts ==
  ASSUME JobTypes, NEW w \in Workers
  PROVE  /\ job[w] \in Jobs /\ JobTyped(job[w]) /\ job[w].pc \in Points
         /\ job[w].frame \in Frames /\ job[w].cands \in Table /\ job[w].curs \in Cursors
         /\ job[w].row \in {<<>>} \cup Candle
         /\ Key(w) = Place(job[w].frame, job[w].swap)
         /\ job[w].pc # "idle" =>
              /\ job[w].swap \in Swaps /\ Key(w) \in Rows
              /\ Key(w)[2] \in 0 .. MaxNow
<1>1. job[w] \in Jobs /\ JobTyped(job[w])
  BY DEF JobTypes
<1>2. /\ job[w].pc \in Points
      /\ job[w].frame \in Frames /\ job[w].cands \in Table /\ job[w].curs \in Cursors
      /\ job[w].row \in {<<>>} \cup Candle
  BY <1>1 DEF Jobs
<1>3. Key(w) = Place(job[w].frame, job[w].swap)
  BY DEF Key, Place
<1>4. ASSUME job[w].pc # "idle" 
      PROVE  /\ job[w].swap \in Swaps /\ Key(w) \in Rows /\ Key(w)[2] \in 0 .. MaxNow
  <2>1. job[w].swap \in Swaps
    BY <1>1, <1>4 DEF JobTyped
  <2>2. Place(job[w].frame, job[w].swap) \in Rows
    BY <1>2, <2>1, PlaceType
  <2>3. Start(job[w].frame, At[job[w].swap]) \in 0 .. MaxNow
    BY <1>2, <2>1, PlaceType
  <2>4. Key(w)[2] = Start(job[w].frame, At[job[w].swap])
    BY DEF Key
  <2> QED
    BY <1>3, <2>1, <2>2, <2>3, <2>4
<1> QED
  BY <1>1, <1>2, <1>3, <1>4

\* A call that moves on leaves the others where they are.
LEMMA JobMove ==
  ASSUME JobTypes, NEW w \in Workers, NEW new \in Jobs, JobTyped(new),
         job' = [job EXCEPT ![w] = new]
  PROVE  /\ JobTypes' /\ job'[w] = new
         /\ \A v \in Workers \ {w} : job'[v] = job[v]
<1>1. job' \in [Workers -> Jobs]
  BY DEF JobTypes
<1>2. job'[w] = new /\ \A v \in Workers \ {w} : job'[v] = job[v]
  BY DEF JobTypes
<1>3. ASSUME NEW v \in Workers PROVE JobTyped(job'[v])
  BY <1>2 DEF JobTypes
<1> QED
  BY <1>1, <1>2, <1>3 DEF JobTypes

\* A call that rests and a pass that rests have their types.
LEMMA IdleType == Idle \in Jobs /\ JobTyped(Idle) /\ Resting \in Fills
<1>1. 1 \in Frames /\ 0 \in 0 .. Len(At) /\ 0 \in 0 .. MaxNow /\ 0 \in 0 .. MaxGaps
  BY Constants
<1>2. Idle \in Jobs
  BY <1>1, EmptyTable DEF Idle, Jobs, Points
<1>3. Resting \in Fills
  BY <1>1, EmptyTable DEF Resting, Fills
<1> QED
  BY <1>2, <1>3 DEF JobTyped, Idle

-----------------------------------------------------------------------------
(* What the moves of a call do to it *)

\* The next timeframe, or the end of the call.
Onward(j, new) ==
  /\ new.swap = j.swap /\ new.cands = j.cands
  /\ \/ j.frame < Len(Interval) /\ new.frame = j.frame + 1 /\ new.pc = "read"
     \/ j.frame = Len(Interval) /\ new.frame = j.frame /\ new.pc = "commit"

\* The end of one timeframe leads to the next, or to the commit.
LEMMA NextFrameType ==
  ASSUME NEW j \in Jobs, j.swap \in Swaps
  PROVE  NextFrame(j) \in Jobs /\ JobTyped(NextFrame(j)) /\ Onward(j, NextFrame(j))
<1>1. /\ j.frame \in 1 .. Len(Interval) /\ Frames = 1 .. Len(Interval)
      /\ Len(Interval) \in Nat
  BY Constants DEF Jobs
<1>2. CASE j.frame < Len(Interval)
  <2> DEFINE new == [j EXCEPT !.pc = "read", !.frame = j.frame + 1, !.row = <<>>]
  <2>1. NextFrame(j) = new
    BY <1>2 DEF NextFrame
  <2>2. j.frame + 1 \in Frames
    BY <1>1, <1>2
  <2>3. new \in Jobs /\ new.pc = "read" /\ new.swap = j.swap /\ new.cands = j.cands
        /\ new.frame = j.frame + 1
    BY <2>2 DEF Jobs, Points
  <2> QED
    BY <1>2, <2>1, <2>3 DEF JobTyped, Onward
<1>3. CASE ~(j.frame < Len(Interval))
  <2> DEFINE new == [j EXCEPT !.pc = "commit", !.row = <<>>]
  <2>1. NextFrame(j) = new
    BY <1>3 DEF NextFrame
  <2>2. j.frame = Len(Interval)
    BY <1>1, <1>3
  <2>3. new \in Jobs /\ new.pc = "commit" /\ new.swap = j.swap /\ new.cands = j.cands
        /\ new.frame = j.frame
    BY DEF Jobs, Points
  <2> QED
    BY <2>1, <2>2, <2>3 DEF JobTyped, Onward
<1> QED
  BY <1>2, <1>3

\* The call goes on with new.
Goes(w, new) ==
  /\ new \in Jobs /\ JobTyped(new) /\ JobStep(w, new)
  /\ new.swap = job[w].swap /\ job[w].swap \in Swaps

\* After the SELECT a call updates the candle it read, or looks for the cursor.
LEMMA ReadMove ==
  ASSUME Types, NEW w \in Workers, ReadCandle(w)
  PROVE  \E new : /\ Goes(w, new) /\ job[w].pc = "read"
                  /\ new.frame = job[w].frame /\ new.cands = job[w].cands
                  /\ \/ /\ new.pc = "update" /\ Key(w) \in DOMAIN candle
                        /\ new.row.folds = Append(candle[Key(w)].folds, job[w].swap)
                     \/ new.pc = "cursor" /\ Key(w) \notin DOMAIN candle
<1> DEFINE k == Key(w)
           s == job[w].swap
<1>1. job[w].pc = "read" /\ JobTypes /\ TableTypes
  BY TypesParts DEF ReadCandle
<1>2. job[w] \in Jobs /\ s \in Swaps
  BY <1>1, JobFacts
<1> HIDE DEF k
<1>3. CASE k \in DOMAIN candle
  <2> DEFINE row == [candle[k] EXCEPT !.folds = Append(candle[k].folds, s)]
             new == [job[w] EXCEPT !.pc = "update", !.row = row]
  <2>1. candle[k] \in Candle
    BY <1>1, <1>3, TableFacts DEF TableTypes
  <2>2. row \in Candle /\ row.folds = Append(candle[k].folds, s)
    <3>1. candle[k].folds \in Seq(Swaps)
      BY <2>1 DEF Candle
    <3>2. Append(candle[k].folds, s) \in Seq(Swaps)
      BY <1>2, <3>1
    <3> DEFINE folds == Append(candle[k].folds, s)
    <3>3. folds \in Seq(Swaps)
      BY <3>2
    <3> HIDE DEF folds
    <3>4. /\ [candle[k] EXCEPT !.folds = folds] \in Candle
          /\ [candle[k] EXCEPT !.folds = folds].folds = folds
      BY <2>1, <3>3 DEF Candle
    <3> QED
      BY <3>4 DEF folds
  <2>3. JobStep(w, new)
    BY <1>3 DEF ReadCandle, k
  <2> HIDE DEF row
  <2>4. /\ new \in Jobs /\ new.pc = "update" /\ new.row = row /\ new.swap = s
        /\ new.frame = job[w].frame /\ new.cands = job[w].cands
    BY <1>2, <2>2 DEF Jobs, Points
  <2>5. JobTyped(new)
    BY <1>2, <2>2, <2>4 DEF JobTyped
  <2> HIDE DEF new
  <2>6. Goes(w, new)
    BY <1>2, <2>3, <2>4, <2>5 DEF Goes
  <2> QED
    BY <1>1, <1>3, <2>2, <2>4, <2>6 DEF k
<1>4. CASE k \notin DOMAIN candle
  <2> DEFINE new == [job[w] EXCEPT !.pc = "cursor"]
  <2>1. JobStep(w, new)
    BY <1>4 DEF ReadCandle, k
  <2>2. /\ new \in Jobs /\ new.pc = "cursor" /\ new.swap = s
        /\ new.frame = job[w].frame /\ new.cands = job[w].cands
    BY <1>2 DEF Jobs, Points
  <2>3. JobTyped(new)
    BY <1>2, <2>2 DEF JobTyped
  <2> HIDE DEF new
  <2>4. Goes(w, new)
    BY <1>2, <2>1, <2>2, <2>3 DEF Goes
  <2> QED
    BY <1>1, <1>4, <2>2, <2>4 DEF k
<1> QED
  BY <1>3, <1>4

\* The UPDATE adds the row that was computed to the writes of the call.
LEMMA UpdateMove ==
  ASSUME Types, NEW w \in Workers, UpdateCandle(w)
  PROVE  \E new : /\ Goes(w, new) /\ job[w].pc = "update" /\ new.pc = "close"
                  /\ new.frame = job[w].frame
                  /\ new.cands = Put(job[w].cands, Key(w), job[w].row)
<1> DEFINE k == Key(w)
           new == [job[w] EXCEPT !.pc = "close", !.cands = Put(job[w].cands, k, job[w].row)]
<1>1. job[w].pc = "update" /\ JobTypes
  BY TypesParts DEF UpdateCandle
<1>2. /\ job[w] \in Jobs /\ job[w].swap \in Swaps /\ k \in Rows /\ job[w].row \in Candle
      /\ job[w].cands \in Table
  BY <1>1, JobFacts DEF JobTyped
<1>3. JobStep(w, new)
  BY DEF UpdateCandle
<1> HIDE DEF k
<1>4. Put(job[w].cands, k, job[w].row) \in Table
  BY <1>2, TablePut
<1>5. /\ new \in Jobs /\ new.pc = "close" /\ new.swap = job[w].swap
      /\ new.frame = job[w].frame /\ new.cands = Put(job[w].cands, k, job[w].row)
  BY <1>2, <1>4 DEF Jobs, Points
<1>6. JobTyped(new)
  BY <1>2, <1>5 DEF JobTyped
<1> HIDE DEF new
<1>7. Goes(w, new)
  BY <1>2, <1>3, <1>5, <1>6 DEF Goes
<1> QED
  BY <1>1, <1>5, <1>7 DEF k

\* A candle that was not there starts with the swap alone.
LEMMA CursorMove ==
  ASSUME Types, NEW w \in Workers, GetCursor(w)
  PROVE  \E new : /\ Goes(w, new) /\ job[w].pc = "cursor" /\ new.pc = "insert"
                  /\ new.frame = job[w].frame /\ new.cands = job[w].cands
                  /\ new.row.folds = <<job[w].swap>>
<1> DEFINE f == job[w].frame
           s == job[w].swap
           row == IF f \in DOMAIN cursor
                  THEN [open |-> cursor[f].close, folds |-> <<s>>, seq |-> cursor[f].seq + 1]
                  ELSE [open |-> s, folds |-> <<s>>, seq |-> 0]
           new == [job[w] EXCEPT !.pc = "insert", !.row = row]
<1>1. job[w].pc = "cursor" /\ JobTypes /\ TableTypes
  BY TypesParts DEF GetCursor
<1>2. job[w] \in Jobs /\ s \in Swaps
  BY <1>1, JobFacts
<1>3. JobStep(w, new)
  BY DEF GetCursor
<1>4. row \in Candle /\ row.folds = <<s>>
  <2>1. <<s>> \in Seq(Swaps)
    BY <1>2
  <2>2. CASE f \in DOMAIN cursor
    <3>1. cursor[f] \in Cursor
      BY <1>1, <2>2, CursorsFacts DEF TableTypes
    <3>2. cursor[f].close \in Swaps /\ cursor[f].seq + 1 \in Nat
      BY <3>1 DEF Cursor
    <3> QED
      BY <2>1, <2>2, <3>2 DEF Candle
  <2>3. CASE f \notin DOMAIN cursor
    BY <1>2, <2>1, <2>3 DEF Candle
  <2> QED
    BY <2>2, <2>3
<1> HIDE DEF row
<1>5. /\ new \in Jobs /\ new.pc = "insert" /\ new.swap = s /\ new.row = row
      /\ new.frame = job[w].frame /\ new.cands = job[w].cands
  BY <1>2, <1>4 DEF Jobs, Points
<1>6. JobTyped(new)
  BY <1>2, <1>4, <1>5 DEF JobTyped
<1> HIDE DEF new
<1>7. Goes(w, new)
  BY <1>2, <1>3, <1>5, <1>6 DEF Goes
<1> QED
  BY <1>1, <1>4, <1>5, <1>7

\* The INSERT adds the row unless a candle has been committed since.
LEMMA InsertMove ==
  ASSUME Types, NEW w \in Workers, InsertCandle(w)
  PROVE  \E new : /\ Goes(w, new) /\ job[w].pc = "insert" /\ new.pc = "upsert"
                  /\ new.frame = job[w].frame
                  /\ \/ Key(w) \in DOMAIN candle /\ new.cands = job[w].cands
                     \/ /\ Key(w) \notin DOMAIN candle
                        /\ new.cands = Put(job[w].cands, Key(w), job[w].row)
<1> DEFINE k == Key(w)
           cands == IF k \in DOMAIN candle THEN job[w].cands
                    ELSE Put(job[w].cands, k, job[w].row)
           new == [job[w] EXCEPT !.pc = "upsert", !.cands = cands]
<1>1. job[w].pc = "insert" /\ JobTypes
  BY TypesParts DEF InsertCandle
<1>2. /\ job[w] \in Jobs /\ job[w].swap \in Swaps /\ k \in Rows /\ job[w].row \in Candle
      /\ job[w].cands \in Table
  BY <1>1, JobFacts DEF JobTyped
<1>3. JobStep(w, new)
  BY DEF InsertCandle
<1> HIDE DEF k
<1>4. cands \in Table
  BY <1>2, TablePut
<1>5. \/ k \in DOMAIN candle /\ cands = job[w].cands
      \/ k \notin DOMAIN candle /\ cands = Put(job[w].cands, k, job[w].row)
  OBVIOUS
<1> HIDE DEF cands
<1>6. /\ new \in Jobs /\ new.pc = "upsert" /\ new.swap = job[w].swap
      /\ new.frame = job[w].frame /\ new.cands = cands /\ new.row = job[w].row
  BY <1>2, <1>4 DEF Jobs, Points
<1>7. JobTyped(new)
  BY <1>2, <1>6 DEF JobTyped
<1> HIDE DEF new
<1>8. Goes(w, new)
  BY <1>2, <1>3, <1>6, <1>7 DEF Goes
<1> QED
  BY <1>1, <1>5, <1>6, <1>8 DEF k

\* The cursor's own write changes neither candles nor place.
LEMMA CursMove ==
  ASSUME Types, NEW w \in Workers, job[w].pc \in {"close", "upsert"},
         NEW curs \in Cursors, JobStep(w, NextFrame([job[w] EXCEPT !.curs = curs]))
  PROVE  \E new : Goes(w, new) /\ Onward(job[w], new)
<1> DEFINE j == [job[w] EXCEPT !.curs = curs]
<1>1. job[w] \in Jobs /\ job[w].swap \in Swaps
  BY TypesParts, JobFacts
<1>2. /\ j \in Jobs /\ j.swap = job[w].swap /\ j.cands = job[w].cands
      /\ j.frame = job[w].frame
  BY <1>1 DEF Jobs
<1> HIDE DEF j
<1>3. NextFrame(j) \in Jobs /\ JobTyped(NextFrame(j)) /\ Onward(j, NextFrame(j))
  BY <1>1, <1>2, NextFrameType
<1>4. JobStep(w, NextFrame(j))
  BY DEF j
<1>5. Goes(w, NextFrame(j)) /\ Onward(job[w], NextFrame(j))
  BY <1>1, <1>2, <1>3, <1>4 DEF Goes, Onward
<1> QED
  BY <1>5

\* Writing the close, or finding the cursor ahead, ends the timeframe.
LEMMA CloseMove ==
  ASSUME Types, NEW w \in Workers, UpdateCursorClose(w)
  PROVE  job[w].pc = "close" /\ \E new : Goes(w, new) /\ Onward(job[w], new)
<1> DEFINE f == job[w].frame
<1>1. job[w].pc = "close" /\ JobTypes /\ TableTypes
  BY TypesParts DEF UpdateCursorClose
<1>2. /\ job[w] \in Jobs /\ job[w].swap \in Swaps /\ f \in Frames
      /\ job[w].curs \in Cursors
  BY <1>1, JobFacts
<1>3. CASE JobStep(w, NextFrame(job[w]))
  <2>1. /\ NextFrame(job[w]) \in Jobs /\ JobTyped(NextFrame(job[w]))
        /\ Onward(job[w], NextFrame(job[w]))
    BY <1>2, NextFrameType
  <2>2. Goes(w, NextFrame(job[w]))
    BY <1>2, <1>3, <2>1 DEF Goes, Onward
  <2> QED
    BY <1>1, <2>1, <2>2
<1>4. CASE /\ f \in DOMAIN cursor
           /\ JobStep(w, NextFrame([job[w] EXCEPT !.curs =
                Put(job[w].curs, f, [cursor[f] EXCEPT !.close = job[w].swap])]))
  <2>1. cursor[f] \in Cursor
    BY <1>1, <1>4, CursorsFacts DEF TableTypes
  <2>2. [cursor[f] EXCEPT !.close = job[w].swap] \in Cursor
    BY <1>2, <2>1 DEF Cursor
  <2>3. Put(job[w].curs, f, [cursor[f] EXCEPT !.close = job[w].swap]) \in Cursors
    BY <1>2, <2>2, CursorPut
  <2> QED
    BY <1>1, <1>4, <2>3, CursMove
<1> QED
  BY <1>3, <1>4 DEF UpdateCursorClose

\* Writing the cursor ends the timeframe.
LEMMA UpsertMove ==
  ASSUME Types, NEW w \in Workers, UpsertCursor(w)
  PROVE  job[w].pc = "upsert" /\ \E new : Goes(w, new) /\ Onward(job[w], new)
<1> DEFINE f == job[w].frame
           c == [close |-> job[w].swap, start |-> Key(w)[2], seq |-> job[w].row.seq]
<1>1. job[w].pc = "upsert" /\ JobTypes
  BY TypesParts DEF UpsertCursor
<1>2. /\ job[w].swap \in Swaps /\ f \in Frames /\ Key(w)[2] \in 0 .. MaxNow
      /\ job[w].curs \in Cursors /\ job[w].row \in Candle
  BY <1>1, JobFacts DEF JobTyped
<1>3. c \in Cursor
  BY <1>2 DEF Candle, Cursor
<1>4. JobStep(w, NextFrame([job[w] EXCEPT !.curs = Put(job[w].curs, f, c)]))
  BY DEF UpsertCursor
<1> HIDE DEF c
<1>5. Put(job[w].curs, f, c) \in Cursors
  BY <1>2, <1>3, CursorPut
<1> QED
  BY <1>1, <1>4, <1>5, CursMove

-----------------------------------------------------------------------------
(* Types are kept *)

\* The split of the types, in the next state.
LEMMA TypesNext ==
  /\ Types' <=> (DataTypes /\ TableTypes /\ JobTypes /\ FillTypes)'
  BY TypesParts, PTL

\* The service starts with everything empty.
LEMMA InitTypes == Init => Types
<1> SUFFICES ASSUME Init PROVE Types
  OBVIOUS
<1>1. DataTypes
  BY Constants DEF Init, DataTypes
<1>2. TableTypes
  BY EmptyTable DEF Init, TableTypes
<1>3. JobTypes
  BY IdleType DEF Init, JobTypes
<1>4. FillTypes
  BY IdleType DEF Init, FillTypes, FillTyped, Resting
<1> QED
  BY <1>1, <1>2, <1>3, <1>4, TypesParts

\* A call that goes on, or ends, and leaves everything else alone.
LEMMA CallTypes ==
  ASSUME Types, NEW w \in Workers, NEW new \in Jobs, JobTyped(new), JobStep(w, new)
  PROVE  Types' /\ job'[w] = new /\ \A v \in Workers \ {w} : job'[v] = job[v]
<1>1. DataTypes /\ TableTypes /\ JobTypes /\ FillTypes
  BY TypesParts
<1>2. JobTypes' /\ job'[w] = new /\ \A v \in Workers \ {w} : job'[v] = job[v]
  BY <1>1, JobMove DEF JobStep
<1>3. DataTypes' /\ TableTypes'
  BY <1>1 DEF JobStep, DataTypes, TableTypes, database
<1>4. FillTypes'
  BY <1>1 DEF JobStep, FillTypes, FillTyped, FillAt, FillEnd
<1> QED
  BY <1>2, <1>3, <1>4, TypesNext

\* A swap that is delivered.
LEMMA TakeTypes ==
  ASSUME Types, NEW w \in Workers, NEW s \in Swaps, Take(w, s)
  PROVE  /\ Types' /\ job[w].pc = "idle" /\ \A v \in Workers \ {w} : job'[v] = job[v]
         /\ \/ job' = job
            \/ /\ job'[w].pc = "begin" /\ job'[w].swap = s
               /\ job'[w].frame = job[w].frame /\ job'[w].cands = job[w].cands
<1> DEFINE new == [job[w] EXCEPT !.pc = "begin", !.swap = s]
<1>1. DataTypes /\ TableTypes /\ JobTypes /\ FillTypes
  BY TypesParts
<1>2. job[w].pc = "idle" /\ job[w] \in Jobs
  BY <1>1, JobFacts DEF Take
<1>3. /\ new \in Jobs /\ new.pc = "begin" /\ new.swap = s
      /\ new.frame = job[w].frame /\ new.cands = job[w].cands
  <2>1. s \in 0 .. Len(At)
    BY Constants
  <2> QED
    BY <1>2, <2>1 DEF Jobs, Points
<1>4. JobTyped(new)
  BY <1>3 DEF JobTyped
<1>5. job' = job \/ job' = [job EXCEPT ![w] = new]
  BY DEF Take
<1> HIDE DEF new
<1>6. /\ JobTypes' /\ \A v \in Workers \ {w} : job'[v] = job[v]
      /\ job' = job \/ job'[w] = new
  <2>1. CASE job' = job
    BY <1>1, <2>1 DEF JobTypes
  <2>2. CASE job' = [job EXCEPT ![w] = new]
    BY <1>1, <1>3, <1>4, <2>2, JobMove
  <2> QED
    BY <1>5, <2>1, <2>2
<1>7. DataTypes'
  <2>1. heard' \in 0 .. Len(At)
    BY <1>1, Constants DEF Take, Hear, Post, DataTypes
  <2>2. posts' \in [Swaps -> 0 .. MaxPosts]
    <3>1. CASE UNCHANGED posts
      BY <1>1, <3>1 DEF DataTypes
    <3>2. CASE Post(s)
      <4>1. posts[s] \in 0 .. MaxPosts /\ posts[s] < MaxPosts /\ MaxPosts \in Nat
        BY <1>1, <3>2, Constants DEF Post, DataTypes
      <4>2. posts[s] + 1 \in 0 .. MaxPosts
        BY ONLY <4>1
      <4> QED
        BY <1>1, <3>2, <4>2 DEF Post, DataTypes
    <3> QED
      BY <3>1, <3>2 DEF Take, Hear
  <2> QED
    BY <1>1, <2>1, <2>2 DEF Take, DataTypes, database
<1>8. TableTypes'
  BY <1>1 DEF Take, TableTypes, database
<1>9. FillTypes'
  BY <1>1 DEF Take, FillTypes, FillTyped, FillAt, FillEnd
<1> QED
  BY <1>2, <1>3, <1>6, <1>7, <1>8, <1>9, TypesNext

\* The swaps of the open transactions are swaps.
LEMMA OpenSwaps ==
  ASSUME Types, NEW w \in Workers, InTx(w)
  PROVE  job[w].swap \in Swaps
<1>1. JobTypes
  BY TypesParts
<1> QED
  BY <1>1, JobFacts DEF InTx

\* A transaction that starts.
LEMMA BeginTypes ==
  ASSUME Types, NEW w \in Workers, Begin(w)
  PROVE  /\ Types' /\ job[w].pc = "begin" /\ \A v \in Workers \ {w} : job'[v] = job[v]
         /\ job'[w].pc = "claim" /\ job'[w].swap = job[w].swap
         /\ job'[w].frame = job[w].frame /\ job'[w].cands = job[w].cands
         /\ crossed \subseteq crossed' /\ claims' = claims /\ candle' = candle
         /\ \A v \in Workers \ {w} :
              InTx(v) => job[v].swap \in crossed' /\ job[w].swap \in crossed'
<1> DEFINE new == [job[w] EXCEPT !.pc = "claim"]
           met == {v \in Others(w) : InTx(v)}
<1>1. DataTypes /\ TableTypes /\ JobTypes /\ FillTypes
  BY TypesParts
<1>2. job[w].pc = "begin" /\ job[w] \in Jobs /\ job[w].swap \in Swaps
  BY <1>1, JobFacts DEF Begin
<1>3. /\ new \in Jobs /\ new.pc = "claim" /\ new.swap = job[w].swap
      /\ new.frame = job[w].frame /\ new.cands = job[w].cands
  BY <1>2 DEF Jobs, Points
<1>4. JobTyped(new)
  BY <1>2, <1>3 DEF JobTyped
<1>5. job' = [job EXCEPT ![w] = new]
  BY DEF Begin
<1> HIDE DEF new
<1>6. JobTypes' /\ job'[w] = new /\ \A v \in Workers \ {w} : job'[v] = job[v]
  BY <1>1, <1>3, <1>4, <1>5, JobMove
<1>7. crossed' = IF met = {} THEN crossed
                 ELSE crossed \cup {job[v].swap : v \in met \cup {w}}
  BY DEF Begin
<1>8. \A v \in met \cup {w} : job[v].swap \in Swaps
  BY <1>2, OpenSwaps DEF Others
<1>9. /\ crossed \subseteq crossed' /\ crossed' \subseteq crossed \cup Swaps
      /\ \A v \in met : job[v].swap \in crossed' /\ job[w].swap \in crossed'
  BY <1>7, <1>8
<1>10. claims' = claims /\ candle' = candle /\ cursor' = cursor /\ seen' = seen
       /\ heard' = heard /\ posts' = posts /\ fill' = fill /\ now' = now
  BY DEF Begin, database
<1>11. DataTypes' /\ TableTypes'
  BY <1>1, <1>9, <1>10 DEF DataTypes, TableTypes
<1>12. FillTypes'
  BY <1>1, <1>10 DEF FillTypes, FillTyped, FillAt, FillEnd
<1>13. \A v \in Workers \ {w} : InTx(v) => v \in met
  BY DEF Others
<1> HIDE DEF met
<1> QED
  BY <1>2, <1>3, <1>6, <1>9, <1>10, <1>11, <1>12, <1>13, TypesNext

\* A call whose transaction is rolled back.
LEMMA RollTypes ==
  ASSUME Types, NEW w \in Workers, JobStep(w, Idle)
  PROVE  Types' /\ job'[w] = Idle /\ \A v \in Workers \ {w} : job'[v] = job[v]
  BY IdleType, CallTypes

\* The insert of the claim.
LEMMA ClaimTypes ==
  ASSUME Types, NEW w \in Workers, Claim(w)
  PROVE  /\ Types' /\ job[w].pc = "claim" /\ ~ClaimLocked(w, job[w].swap)
         /\ \A v \in Workers \ {w} : job'[v] = job[v]
         /\ UNCHANGED <<claims, candle, crossed>>
         /\ \/ /\ job[w].swap \in claims /\ job'[w] = Idle
               /\ seen' = seen \cup {job[w].swap}
            \/ /\ job[w].swap \notin claims /\ seen' = seen
               /\ job'[w].pc = "read" /\ job'[w].swap = job[w].swap
               /\ job'[w].frame = job[w].frame /\ job'[w].cands = job[w].cands
<1> DEFINE s == job[w].swap
           new == [job[w] EXCEPT !.pc = "read"]
<1>1. DataTypes /\ TableTypes /\ JobTypes /\ FillTypes
  BY TypesParts
<1>2. job[w].pc = "claim" /\ job[w] \in Jobs /\ s \in Swaps
  BY <1>1, JobFacts DEF Claim
<1>3. /\ new \in Jobs /\ new.pc = "read" /\ new.swap = s
      /\ new.frame = job[w].frame /\ new.cands = job[w].cands
  BY <1>2 DEF Jobs, Points
<1>4. JobTyped(new)
  BY <1>2, <1>3 DEF JobTyped
<1>5. \/ s \in claims /\ job' = [job EXCEPT ![w] = Idle] /\ seen' = seen \cup {s}
      \/ s \notin claims /\ job' = [job EXCEPT ![w] = new] /\ seen' = seen
  BY DEF Claim
<1> HIDE DEF new
<1>6. /\ JobTypes' /\ \A v \in Workers \ {w} : job'[v] = job[v]
      /\ \/ s \in claims /\ job'[w] = Idle /\ seen' = seen \cup {s}
         \/ s \notin claims /\ job'[w] = new /\ seen' = seen
  BY <1>1, <1>3, <1>4, <1>5, JobMove, IdleType
<1>7. claims' = claims /\ candle' = candle /\ cursor' = cursor /\ crossed' = crossed
      /\ heard' = heard /\ posts' = posts /\ fill' = fill /\ now' = now
  BY DEF Claim, database
<1>8. DataTypes' /\ TableTypes'
  BY <1>1, <1>2, <1>6, <1>7 DEF DataTypes, TableTypes
<1>9. FillTypes'
  BY <1>1, <1>7 DEF FillTypes, FillTyped, FillAt, FillEnd
<1>10. ~ClaimLocked(w, s)
  BY DEF Claim
<1> QED
  BY <1>2, <1>3, <1>6, <1>7, <1>8, <1>9, <1>10, TypesNext

\* The commit.
LEMMA CommitTypes ==
  ASSUME Types, NEW w \in Workers, Commit(w)
  PROVE  /\ Types' /\ job[w].pc = "commit" /\ job'[w] = Idle
         /\ \A v \in Workers \ {w} : job'[v] = job[v]
         /\ claims' = claims \cup {job[w].swap} /\ candle' = Over(job[w].cands, candle)
         /\ crossed' = crossed /\ seen' \subseteq seen \cup {job[w].swap}
<1>1. DataTypes /\ TableTypes /\ JobTypes /\ FillTypes
  BY TypesParts
<1>2. /\ job[w].pc = "commit" /\ job[w].swap \in Swaps
      /\ job[w].cands \in Table /\ job[w].curs \in Cursors
  BY <1>1, JobFacts DEF Commit
<1>3. /\ job' = [job EXCEPT ![w] = Idle] /\ crossed' = crossed
      /\ heard' = heard /\ posts' = posts /\ fill' = fill /\ now' = now
      /\ claims' = claims \cup {job[w].swap} /\ seen' \subseteq seen \cup {job[w].swap}
      /\ candle' = Over(job[w].cands, candle) /\ cursor' = Over(job[w].curs, cursor)
  BY DEF Commit
<1>4. JobTypes' /\ job'[w] = Idle /\ \A v \in Workers \ {w} : job'[v] = job[v]
  BY <1>1, <1>3, JobMove, IdleType
<1>5. DataTypes'
  BY <1>1, <1>2, <1>3 DEF DataTypes
<1>6. TableTypes'
  BY <1>1, <1>2, <1>3, TableMerge, CursorMerge DEF TableTypes
<1>7. FillTypes'
  BY <1>1, <1>3 DEF FillTypes, FillTyped, FillAt, FillEnd
<1> QED
  BY <1>2, <1>3, <1>4, <1>5, <1>6, <1>7, TypesNext

\* The cache forgets, the clock ticks, the service restarts.
LEMMA RestTypes ==
  ASSUME Types, (\E s \in Swaps : Forget(s)) \/ Tick \/ Crash
  PROVE  /\ Types' /\ UNCHANGED <<claims, candle, crossed>> /\ seen' \subseteq seen
         /\ job' = job \/ \A w \in Workers : job'[w] = Idle
<1>1. DataTypes /\ TableTypes /\ JobTypes /\ FillTypes
  BY TypesParts
<1>2. CASE \E s \in Swaps : Forget(s)
  <2>1. /\ claims' = claims /\ candle' = candle /\ cursor' = cursor /\ crossed' = crossed
        /\ heard' = heard /\ posts' = posts /\ fill' = fill /\ now' = now /\ job' = job
        /\ seen' \subseteq seen
    BY <1>2 DEF Forget, database
  <2>2. DataTypes' /\ TableTypes' /\ JobTypes'
    BY <1>1, <2>1 DEF DataTypes, TableTypes, JobTypes
  <2>3. FillTypes'
    BY <1>1, <2>1 DEF FillTypes, FillTyped, FillAt, FillEnd
  <2> QED
    BY <2>1, <2>2, <2>3, TypesNext
<1>3. CASE Tick
  <2>1. /\ claims' = claims /\ candle' = candle /\ cursor' = cursor /\ crossed' = crossed
        /\ heard' = heard /\ posts' = posts /\ fill' = fill /\ job' = job /\ seen' = seen
    BY <1>3 DEF Tick, database
  <2>2. now' \in 0 .. MaxNow
    <3>1. now' = now + 1 /\ now < MaxNow /\ now \in 0 .. MaxNow /\ MaxNow \in Nat
      BY <1>1, <1>3, Constants DEF Tick, DataTypes
    <3> QED
      BY ONLY <3>1
  <2>3. DataTypes' /\ TableTypes' /\ JobTypes'
    BY <1>1, <2>1, <2>2 DEF DataTypes, TableTypes, JobTypes
  <2>4. FillTypes'
    BY <1>1, <2>1 DEF FillTypes, FillTyped, FillAt, FillEnd
  <2> QED
    BY <2>1, <2>3, <2>4, TypesNext
<1>4. CASE Crash
  <2>1. /\ claims' = claims /\ candle' = candle /\ cursor' = cursor /\ crossed' = crossed
        /\ heard' = heard /\ posts' = posts /\ now' = now
        /\ fill' = Resting /\ job' = [w \in Workers |-> Idle] /\ seen' = {}
    BY <1>4 DEF Crash, database
  <2>2. DataTypes' /\ TableTypes'
    BY <1>1, <2>1 DEF DataTypes, TableTypes
  <2>3. JobTypes' /\ FillTypes'
    BY <2>1, IdleType DEF JobTypes, FillTypes, FillTyped, Resting
  <2> QED
    BY <2>1, <2>2, <2>3, TypesNext
<1> QED
  BY <1>2, <1>3, <1>4

-----------------------------------------------------------------------------
(* Types of the gap filler *)

\* The times the filler computes.
LEMMA GapTimes ==
  ASSUME Types
  PROVE  /\ fill \in Fills /\ FillTyped /\ fill.frame \in Frames
         /\ fill.filled \in 0 .. MaxGaps /\ Interval[fill.frame] \in Nat \ {0}
         /\ FillEnd \in 0 .. MaxNow
         /\ fill.frame \in DOMAIN fill.snap =>
              fill.snap[fill.frame].start \in 0 .. MaxNow /\ FillAt \in Nat
<1>1. fill \in Fills /\ FillTyped
  BY TypesParts DEF FillTypes
<1>2. /\ fill.frame \in Frames /\ fill.filled \in 0 .. MaxGaps /\ fill.until \in 0 .. MaxNow
      /\ fill.snap \in Cursors
  BY <1>1 DEF Fills
<1>3. Interval[fill.frame] \in Nat \ {0} /\ FillEnd \in 0 .. MaxNow
  BY <1>2, StartType DEF FillEnd
<1>4. ASSUME fill.frame \in DOMAIN fill.snap
      PROVE  fill.snap[fill.frame].start \in 0 .. MaxNow /\ FillAt \in Nat
  <2>1. fill.snap[fill.frame].start \in 0 .. MaxNow
    BY <1>2, <1>4, CursorsFacts DEF Cursor
  <2> DEFINE a == fill.snap[fill.frame].start
             n == fill.filled + 1
             i == Interval[fill.frame]
  <2>2. a \in Nat /\ n \in Nat /\ i \in Nat
    <3>1. MaxNow \in Nat /\ MaxGaps \in Nat
      BY Constants
    <3>2. a \in Nat
      BY <2>1, <3>1
    <3>3. n \in Nat
      BY <1>2, <3>1
    <3> QED
      BY <1>3, <3>2, <3>3
  <2>3. a + n * i \in Nat
    <3> HIDE DEF a, n, i
    <3>1. n * i \in Nat
      BY <2>2
    <3> QED
      BY <2>2, <3>1
  <2> QED
    BY <2>1, <2>3 DEF FillAt
<1> QED
  BY <1>1, <1>2, <1>3, <1>4

\* A step of the filler that leaves the database in its types.
LEMMA FillKeeps ==
  ASSUME Types, NEW new, FillStep(new), (fill \in Fills /\ FillTyped)', TableTypes',
         crossed' \subseteq Swaps
  PROVE  Types' /\ job' = job /\ claims' = claims /\ seen' = seen
<1>1. DataTypes /\ JobTypes
  BY TypesParts
<1>2. claims' = claims /\ seen' = seen /\ heard' = heard /\ posts' = posts /\ now' = now
      /\ job' = job
  BY DEF FillStep
<1>3. DataTypes' /\ JobTypes' /\ FillTypes'
  BY <1>1, <1>2 DEF DataTypes, JobTypes, FillTypes
<1> QED
  BY <1>2, <1>3, TypesNext

\* The next timeframe of the pass, or its end.
LEMMA FillNextType ==
  ASSUME Types
  PROVE  FillNext \in Fills /\ (FillNext.pc = "frame" => FillNext.filled = 0)
         /\ FillNext.pc \in {"idle", "frame"}
<1>1. fill \in Fills /\ fill.frame \in Frames
  BY GapTimes
<1>2. CASE fill.frame < Len(Interval)
  <2> DEFINE new == [fill EXCEPT !.pc = "frame", !.frame = fill.frame + 1,
                                 !.row = <<>>, !.filled = 0]
  <2>1. FillNext = new
    BY <1>2 DEF FillNext
  <2>2. fill.frame + 1 \in Frames /\ 0 \in 0 .. MaxGaps
    <3>1. /\ fill.frame \in 1 .. Len(Interval) /\ Len(Interval) \in Nat /\ MaxGaps \in Nat
          /\ Frames = 1 .. Len(Interval)
      BY <1>1, Constants
    <3> QED
      BY <1>2, <3>1
  <2>3. new \in Fills /\ new.pc = "frame" /\ new.filled = 0
    BY <1>1, <2>2 DEF Fills
  <2> QED
    BY <2>1, <2>3
<1>3. CASE ~(fill.frame < Len(Interval))
  BY <1>3, IdleType DEF FillNext, Resting
<1> QED
  BY <1>2, <1>3

\* The steps of the filler that write nothing.
LEMMA FillQuiet ==
  ASSUME Types, NEW new \in Fills, new.pc = "frame" => new.filled = 0,
         new.pc \in {"idle", "frame"}, FillStep(new), UNCHANGED <<candle, cursor, crossed>>
  PROVE  Types'
<1>1. DataTypes /\ TableTypes
  BY TypesParts
<1>2. fill' = new
  BY DEF FillStep
<1>3. (fill \in Fills /\ FillTyped)'
  BY <1>2 DEF FillTyped
<1>4. TableTypes' /\ crossed' \subseteq Swaps
  BY <1>1 DEF TableTypes, DataTypes
<1> QED
  BY <1>3, <1>4, FillKeeps

\* A scan, and what it reads of each cursor.
LEMMA ScanTypes ==
  ASSUME Types, FillScan PROVE Types'
<1> DEFINE new == [Resting EXCEPT !.pc = "frame", !.snap = cursor, !.until = now]
<1>1. cursor \in Cursors /\ now \in 0 .. MaxNow
  BY TypesParts DEF DataTypes, TableTypes
<1>2. new \in Fills /\ new.pc = "frame" /\ new.filled = 0
  BY <1>1, IdleType DEF Fills, Resting
<1>3. FillStep(new) /\ UNCHANGED <<candle, cursor, crossed>>
  BY DEF FillScan
<1> HIDE DEF new
<1> QED
  BY <1>2, <1>3, FillQuiet

\* What the filler reads gives the next empty candle.
LEMMA FillReadTypes ==
  ASSUME Types, FillRead PROVE Types'
<1>0. fill \in Fills /\ FillTyped /\ fill.pc = "frame"
  <2>1. fill.pc = "frame"
    BY DEF FillRead
  <2>2. fill \in Fills /\ FillTyped
    BY GapTimes
  <2> QED
    BY <2>1, <2>2
<1> DEFINE f == fill.frame
           due == f \in DOMAIN fill.snap /\ FillAt < FillEnd
           k == <<f, fill.snap[f].start>>
           c == [open |-> Close(candle[k]), folds |-> <<>>, seq |-> candle[k].seq]
           new == [fill EXCEPT !.pc = "insert", !.row = c]
<1>1. fill \in Fills /\ FillTyped /\ fill.pc = "frame" /\ fill.filled = 0
  BY <1>0 DEF FillTyped
<1>2. UNCHANGED <<candle, cursor, crossed>>
  BY DEF FillRead
<1>3. CASE FillStep(FillNext)
  BY <1>2, <1>3, FillNextType, FillQuiet
<1>4. CASE f \in DOMAIN fill.snap /\ FillAt < FillEnd /\ k \in DOMAIN candle /\ FillStep(new)
  <2>1. DataTypes /\ TableTypes
    BY TypesParts
  <2>2. candle[k] \in Candle
    BY <1>4, <2>1, TableFacts DEF TableTypes
  <2> HIDE DEF k
  <2>3. Close(candle[k]) \in Swaps
    <3>1. candle[k].open \in Swaps /\ candle[k].folds \in Seq(Swaps)
      BY <2>2 DEF Candle
    <3>2. CASE candle[k].folds = <<>>
      BY <3>1, <3>2 DEF Close
    <3>3. CASE candle[k].folds # <<>>
      <4>1. Last(candle[k].folds) \in Swaps
        BY <3>1, <3>3 DEF Last
      <4> QED
        BY <3>3, <4>1 DEF Close
    <3> QED
      BY <3>2, <3>3
  <2>4. c \in Candle /\ c.folds = <<>>
    <3>1. <<>> \in Seq(Swaps) /\ candle[k].seq \in Nat
      BY <2>2 DEF Candle
    <3> QED
      BY <2>3, <3>1 DEF Candle
  <2> HIDE DEF c
  <2>5. /\ new \in Fills /\ new.pc = "insert" /\ new.row = c /\ new.frame = f
        /\ new.snap = fill.snap /\ new.filled = fill.filled /\ new.until = fill.until
    BY <1>1, <2>4 DEF Fills
  <2>6. fill' = new
    BY <1>4 DEF FillStep
  <2> HIDE DEF new
  <2>7. FillAt' = FillAt /\ FillEnd' = FillEnd
    BY <2>5, <2>6 DEF FillAt, FillEnd
  <2>8. 0 < MaxGaps
    BY Constants
  <2>9. (fill \in Fills /\ FillTyped)'
    BY <1>1, <1>4, <2>4, <2>5, <2>6, <2>7, <2>8 DEF FillTyped
  <2>10. TableTypes' /\ crossed' \subseteq Swaps
    BY <1>2, <2>1 DEF TableTypes, DataTypes
  <2> QED
    BY <1>4, <2>9, <2>10, FillKeeps
<1> QED
  BY <1>3, <1>4 DEF FillRead

\* The candle that carries the close of the one before it.
LEMMA NextEmpty ==
  ASSUME NEW c \in Candle
  PROVE  /\ [c EXCEPT !.seq = c.seq + 1] \in Candle
         /\ [c EXCEPT !.seq = c.seq + 1].folds = c.folds
  BY DEF Candle

\* The filler's insert adds an empty candle or none, and meets who is open.
LEMMA FillInsertTypes ==
  ASSUME Types, FillInsert
  PROVE  /\ Types' /\ job' = job /\ UNCHANGED <<claims, seen>>
         /\ crossed \subseteq crossed'
         /\ \A w \in Workers : InTx(w) => job[w].swap \in crossed'
         /\ \E k \in Rows, c \in Candle :
              /\ candle' = candle \/ (k \notin DOMAIN candle /\ candle' = Put(candle, k, c))
              /\ c.folds = <<>>
<1> DEFINE f == fill.frame
           k == <<f, FillAt>>
           c == [fill.row EXCEPT !.seq = fill.row.seq + 1]
           more == FillAt + Interval[f] < FillEnd /\ fill.filled + 1 < MaxGaps
           new == [fill EXCEPT !.row = c, !.filled = fill.filled + 1,
                               !.pc = IF more THEN "insert" ELSE "advance"]
<1>1. /\ fill \in Fills /\ FillTyped /\ f \in Frames /\ Interval[f] \in Nat \ {0}
      /\ fill.filled \in 0 .. MaxGaps /\ FillEnd \in 0 .. MaxNow /\ fill.pc = "insert"
  BY GapTimes DEF FillInsert
<1>2. /\ fill.row \in Candle /\ fill.row.folds = <<>> /\ f \in DOMAIN fill.snap
      /\ fill.filled < MaxGaps /\ FillAt < FillEnd
  BY <1>1 DEF FillTyped
<1>3. fill.snap[f].start \in 0 .. MaxNow /\ FillAt \in Nat
  BY <1>2, GapTimes
<1>4. MaxNow \in Nat /\ MaxGaps \in Nat /\ FillAt \in 0 .. MaxNow
  <2>1. MaxNow \in Nat /\ MaxGaps \in Nat
    BY Constants
  <2> QED
    BY <1>1, <1>2, <1>3, <2>1
<1>5. c \in Candle /\ c.folds = <<>>
  BY <1>2, NextEmpty
<1>6. k \in Rows
  BY <1>1, <1>4 DEF Rows
<1>7. FillStep(new) /\ UNCHANGED cursor
  BY DEF FillInsert
<1>8. candle' = candle \/ (k \notin DOMAIN candle /\ candle' = Put(candle, k, c))
  BY DEF FillInsert
<1>9. crossed' = crossed \cup {job[w].swap : w \in {v \in Workers : InTx(v)}}
  BY DEF FillInsert
<1> HIDE DEF c
<1>10. more \in BOOLEAN
  OBVIOUS
<1>11. fill.filled + 1 \in 0 .. MaxGaps
  BY <1>1, <1>2, <1>4
<1>12. /\ new \in Fills /\ new.pc = (IF more THEN "insert" ELSE "advance")
       /\ new.row = c /\ new.frame = f /\ new.snap = fill.snap
       /\ new.filled = fill.filled + 1 /\ new.until = fill.until
  <2> HIDE DEF more
  <2> QED
    BY <1>1, <1>5, <1>11 DEF Fills
<1>13. fill' = new
  BY <1>7 DEF FillStep
<1> HIDE DEF new
<1>14. FillAt' = FillAt + Interval[f] /\ FillEnd' = FillEnd
  <2>1. FillEnd' = FillEnd
    BY <1>12, <1>13 DEF FillEnd
  <2> DEFINE a == fill.snap[f].start
             n == fill.filled
             i == Interval[f]
  <2>2. FillAt = a + (n + 1) * i /\ FillAt' = a + (n + 1 + 1) * i
    BY <1>12, <1>13 DEF FillAt
  <2>3. a \in Nat /\ n \in Nat /\ i \in Nat
    BY <1>1, <1>3, <1>4
  <2> HIDE DEF a, n, i
  <2>4. (n + 1 + 1) * i = (n + 1) * i + i
    BY <2>3
  <2>5. (n + 1) * i \in Nat
    BY <2>3
  <2>6. FillAt' = FillAt + i
    BY <2>2, <2>3, <2>4, <2>5
  <2> QED
    BY <2>1, <2>6 DEF i
<1>15. (fill \in Fills /\ FillTyped)'
  <2>1. fill' \in Fills /\ fill'.row \in Candle /\ fill'.row.folds = <<>>
        /\ fill'.frame \in DOMAIN fill'.snap
        /\ fill'.pc \in {"insert", "advance"}
    BY <1>2, <1>5, <1>12, <1>13
  <2>2. ASSUME fill'.pc = "insert" PROVE fill'.filled < MaxGaps /\ FillAt' < FillEnd'
    <3>1. more
      BY <1>12, <1>13, <2>2
    <3> QED
      BY <1>12, <1>13, <1>14, <3>1
  <2>3. FillAt' - Interval[fill'.frame] \in 0 .. MaxNow
    <3>1. (FillAt + Interval[f]) - Interval[f] = FillAt
      BY <1>1, <1>3
    <3>2. fill'.frame = f
      BY <1>12, <1>13
    <3>3. FillAt' - Interval[f] = FillAt
      BY Zenon, <1>14, <3>1
    <3>4. FillAt' - Interval[fill'.frame] = FillAt
      BY Zenon, <3>2, <3>3
    <3> QED
      BY <1>4, <3>4
  <2> QED
    BY <2>1, <2>2, <2>3 DEF FillTyped
<1>16. DataTypes /\ TableTypes
  BY TypesParts
<1>17. TableTypes'
  <2>1. candle' \in Table
    <3> HIDE DEF k
    <3>1. Put(candle, k, c) \in Table
      BY <1>5, <1>6, <1>16, TablePut DEF TableTypes
    <3> QED
      BY <1>8, <1>16, <3>1 DEF TableTypes
  <2> QED
    BY <1>7, <1>16, <2>1 DEF TableTypes
<1>18. \A w \in Workers : InTx(w) => job[w].swap \in Swaps
  BY OpenSwaps
<1>19. crossed' \subseteq Swaps
  BY <1>9, <1>16, <1>18 DEF DataTypes
<1>20. Types' /\ job' = job /\ claims' = claims /\ seen' = seen
  BY <1>7, <1>15, <1>17, <1>19, FillKeeps
<1>21. crossed \subseteq crossed' /\ \A w \in Workers : InTx(w) => job[w].swap \in crossed'
  BY <1>9
<1> HIDE DEF k
<1> QED
  BY <1>2, <1>5, <1>6, <1>8, <1>20, <1>21

\* A candle that could not be written is counted, and its time is still over.
LEMMA FillFailsTypes ==
  ASSUME Types, FillInsertFails PROVE Types'
<1> DEFINE f == fill.frame
           c == [fill.row EXCEPT !.seq = fill.row.seq + 1]
           new == [fill EXCEPT !.row = c, !.filled = fill.filled + 1, !.pc = "advance"]
<1>1. /\ fill \in Fills /\ FillTyped /\ f \in Frames /\ Interval[f] \in Nat \ {0}
      /\ fill.filled \in 0 .. MaxGaps /\ FillEnd \in 0 .. MaxNow /\ fill.pc = "insert"
  BY GapTimes DEF FillInsertFails
<1>2. /\ fill.row \in Candle /\ fill.row.folds = <<>> /\ f \in DOMAIN fill.snap
      /\ fill.filled < MaxGaps /\ FillAt < FillEnd
  BY <1>1 DEF FillTyped
<1>3. fill.snap[f].start \in 0 .. MaxNow /\ FillAt \in Nat
  BY <1>2, GapTimes
<1>4. MaxNow \in Nat /\ MaxGaps \in Nat /\ FillAt \in 0 .. MaxNow
  <2>1. MaxNow \in Nat /\ MaxGaps \in Nat
    BY Constants
  <2> QED
    BY <1>1, <1>2, <1>3, <2>1
<1>5. c \in Candle /\ c.folds = <<>>
  BY <1>2, NextEmpty
<1>6. fill' = new /\ UNCHANGED <<candle, cursor, crossed>>
  BY DEF FillInsertFails, FillStep
<1> HIDE DEF c
<1>7. fill.filled + 1 \in 0 .. MaxGaps
  BY <1>1, <1>2, <1>4
<1>8. /\ new \in Fills /\ new.pc = "advance" /\ new.row = c /\ new.frame = f
      /\ new.snap = fill.snap /\ new.filled = fill.filled + 1 /\ new.until = fill.until
  BY <1>1, <1>5, <1>7 DEF Fills
<1> HIDE DEF new
<1>9. FillAt' = FillAt + Interval[f]
  <2> DEFINE a == fill.snap[f].start
             n == fill.filled
             i == Interval[f]
  <2>2. FillAt = a + (n + 1) * i /\ FillAt' = a + (n + 1 + 1) * i
    BY <1>6, <1>8 DEF FillAt
  <2>3. a \in Nat /\ n \in Nat /\ i \in Nat
    BY <1>1, <1>3, <1>4
  <2> HIDE DEF a, n, i
  <2>4. (n + 1 + 1) * i = (n + 1) * i + i
    BY <2>3
  <2>5. (n + 1) * i \in Nat
    BY <2>3
  <2>6. FillAt' = FillAt + i
    BY <2>2, <2>3, <2>4, <2>5
  <2> QED
    BY <2>6 DEF i
<1>10. (fill \in Fills /\ FillTyped)'
  <2>1. (FillAt + Interval[f]) - Interval[f] = FillAt
    BY <1>1, <1>3
  <2>2. fill'.frame = f
    BY <1>6, <1>8
  <2>3. FillAt' - Interval[f] = FillAt
    BY Zenon, <1>9, <2>1
  <2>4. FillAt' - Interval[fill'.frame] = FillAt
    BY Zenon, <2>2, <2>3
  <2> QED
    BY <1>2, <1>4, <1>5, <1>6, <1>8, <2>4 DEF FillTyped
<1>11. TableTypes' /\ crossed' \subseteq Swaps
  <2>1. DataTypes /\ TableTypes
    BY TypesParts
  <2> QED
    BY <1>6, <2>1 DEF DataTypes, TableTypes
<1>12. FillStep(fill')
  BY DEF FillInsertFails, FillStep
<1> QED
  BY <1>10, <1>11, <1>12, FillKeeps

\* The filler's cursor stays on the clock.
LEMMA FillAdvanceTypes ==
  ASSUME Types, FillAdvance
  PROVE  Types' /\ UNCHANGED <<candle, crossed>>
<1> DEFINE f == fill.frame
           start == FillAt - Interval[f]
           seq == fill.row.seq
<1>1. fill \in Fills /\ FillTyped /\ fill.pc = "advance"
  BY GapTimes DEF FillAdvance
<1>2. start \in 0 .. MaxNow /\ seq \in Nat
  BY <1>1 DEF FillTyped, Candle
<1>3. cursor' = [cursor EXCEPT ![f].start = start, ![f].seq = seq]
  BY DEF FillAdvance
<1>4. FillStep(FillNext) /\ UNCHANGED <<candle, crossed>>
  BY DEF FillAdvance
<1>5. DataTypes /\ TableTypes
  BY TypesParts
<1> HIDE DEF start, seq, f
<1>6. cursor' \in Cursors
  <2>1. CASE f \in DOMAIN cursor
    <3>1. cursor[f] \in Cursor
      BY <1>5, <2>1, CursorsFacts DEF TableTypes
    <3>2. DOMAIN cursor' = DOMAIN cursor
      BY <1>3
    <3>3. cursor'[f] \in Cursor
      <4>1. cursor'[f] = [[cursor[f] EXCEPT !.start = start] EXCEPT !.seq = seq]
        BY <1>3, <2>1
      <4> QED
        BY <1>2, <3>1, <4>1 DEF Cursor
    <3>4. \A g \in DOMAIN cursor \ {f} : cursor'[g] = cursor[g]
      BY <1>3
    <3>5. DOMAIN cursor \in SUBSET Frames /\ \A g \in DOMAIN cursor : cursor[g] \in Cursor
      BY <1>5, CursorsFacts DEF TableTypes
    <3>6. \A g \in DOMAIN cursor : cursor'[g] \in Cursor
      BY <3>3, <3>4, <3>5
    <3>7. cursor' = [g \in DOMAIN cursor' |-> cursor'[g]]
      BY <1>3
    <3>8. cursor' \in [DOMAIN cursor -> Cursor]
      BY <3>2, <3>6, <3>7
    <3> QED
      BY <3>5, <3>8, CursorsOf
  <2>2. CASE f \notin DOMAIN cursor
    <3>1. cursor' = cursor
      <4>1. cursor = [g \in DOMAIN cursor |-> cursor[g]]
        BY <1>5 DEF TableTypes, Cursors
      <4> QED
        BY <1>3, <2>2, <4>1
    <3> QED
      BY <1>5, <3>1 DEF TableTypes
  <2> QED
    BY <2>1, <2>2
<1>7. TableTypes' /\ crossed' \subseteq Swaps
  BY <1>4, <1>5, <1>6 DEF TableTypes, DataTypes
<1>8. (fill \in Fills /\ FillTyped)'
  <2>1. fill' = FillNext
    BY <1>4 DEF FillStep
  <2> QED
    BY <2>1, FillNextType DEF FillTyped
<1>9. Types'
  BY <1>4, <1>7, <1>8, FillKeeps
<1> QED
  BY <1>4, <1>9

\* Every step of the filler but its insert leaves candles, calls and cache alone.
FillOther == FillScan \/ FillRead \/ FillAdvance \/ FillInsertFails \/ FillAdvanceFails

\* The steps of FillOther keep the types and write no candle.
LEMMA FillTypesKept ==
  ASSUME Types, FillOther
  PROVE  Types' /\ UNCHANGED <<job, claims, candle, crossed, seen>>
<1>1. Types'
  <2>1. CASE FillAdvanceFails
    <3>1. FillStep(FillNext) /\ UNCHANGED <<candle, cursor, crossed>>
      BY <2>1 DEF FillAdvanceFails
    <3> QED
      BY <3>1, FillNextType, FillQuiet
  <2> QED
    BY <2>1, ScanTypes, FillReadTypes, FillAdvanceTypes, FillFailsTypes DEF FillOther
<1>2. UNCHANGED <<job, claims, candle, crossed, seen>>
  BY DEF FillOther, FillScan, FillRead, FillAdvance, FillInsertFails, FillAdvanceFails,
         FillStep
<1> QED
  BY <1>1, <1>2

-----------------------------------------------------------------------------
(* The calls that do not move *)

\* What holds of a call is kept while others claim and commit, provided that no
\* swap becomes claimed that met no other writer, and that no candle appears
\* for a call that met none.
LEMMA Carried ==
  ASSUME NEW w \in Workers, JobOK(w), job'[w] = job[w],
         claims \subseteq claims', crossed \subseteq crossed',
         HasClaim(w) => /\ claims' \ crossed' \subseteq claims \ crossed
                        /\ job[w].swap \notin claims'
                        /\ job[w].swap \notin crossed' => candle' = candle
  PROVE  JobOK(w)'
<1>1. CASE ~HasClaim(w)
  BY <1>1 DEF JobOK, HasClaim, InTx, Fresh
<1>2. CASE HasClaim(w)
  <2> DEFINE j == job[w]
             s == j.swap
  <2>1. Claimed(j)
    BY <1>2 DEF JobOK
  <2>2. ASSUME NEW c, NEW k, Full(c, k)
        PROVE  \A r \in claims' \ crossed', f \in Frames : Place(f, r) = k => Folded(c, r)
    BY <1>2, <2>2 DEF Full
  <2>3. ASSUME NEW c, Clean(c, claims \cup {s})
        PROVE  Clean(c, claims' \cup {s})
    BY <2>3 DEF Clean
  <2>4. \A l \in DOMAIN j.cands :
          /\ Clean(j.cands[l], claims' \cup {s})
          /\ \A r \in claims' \ crossed', f \in Frames : Place(f, r) = l => Folded(j.cands[l], r)
    BY <2>1, <2>2, <2>3 DEF Claimed
  <2>5. j.pc = "update" =>
          /\ Clean(j.row, claims' \cup {s}) /\ Folded(j.row, s)
          /\ \A r \in claims' \ crossed', f \in Frames :
               Place(f, r) = Place(j.frame, s) => Folded(j.row, r)
    BY <2>1, <2>2, <2>3 DEF Claimed
  <2>6. s \in Swaps \ claims'
    BY <1>2, <2>1 DEF Claimed
  <2>7. /\ j.pc = "insert" => j.row.folds = <<s>>
        /\ j.pc = "commit" => j.frame = Len(Interval)
        /\ s \notin crossed' =>
             /\ \A f \in Done(j) :
                  Place(f, s) \in DOMAIN j.cands /\ Folded(j.cands[Place(f, s)], s)
             /\ j.pc \in {"cursor", "insert"} => Place(j.frame, s) \notin DOMAIN candle'
    BY <1>2, <2>1 DEF Claimed
  <2>8. Claimed(job[w])'
    <3>1. job'[w] = j
      OBVIOUS
    <3> HIDE DEF j
    <3> QED
      BY <2>4, <2>5, <2>6, <2>7, <3>1 DEF Claimed, Full
  <2> QED
    BY <1>2, <2>8 DEF JobOK, HasClaim, InTx
<1> QED
  BY <1>1, <1>2

\* Calls stay apart when none starts a transaction or claims.
LEMMA ApartKept ==
  ASSUME Apart, crossed \subseteq crossed', NEW w \in Workers,
         \A v \in Workers \ {w} : job'[v] = job[v],
         InTx(w)' => InTx(w) /\ job'[w].swap = job[w].swap,
         HasClaim(w)' => HasClaim(w)
  PROVE  Apart'
<1>1. ASSUME NEW v \in Workers, NEW x \in Workers, v # x
      PROVE  /\ HasClaim(v)' /\ HasClaim(x)' => job'[v].swap # job'[x].swap
             /\ InTx(v)' /\ InTx(x)' => job'[v].swap \in crossed'
  <2>1. \A y \in Workers : /\ InTx(y)' => InTx(y) /\ job'[y].swap = job[y].swap
                           /\ HasClaim(y)' => HasClaim(y)
    BY DEF HasClaim, InTx
  <2>2. HasClaim(v)' => InTx(v)'
    BY DEF HasClaim
  <2>3. HasClaim(x)' => InTx(x)'
    BY DEF HasClaim
  <2> QED
    BY <1>1, <2>1, <2>2, <2>3 DEF Apart
<1> QED
  BY <1>1 DEF Apart

\* What has been committed stays right while nothing is committed.
LEMMA CommittedKept ==
  ASSUME Committed, UNCHANGED <<claims, candle, crossed>>
  PROVE  Committed'
  BY DEF Committed

\* A step of one call that leaves claims, candles and meetings alone, and is
\* right for the call itself, keeps the invariant.
LEMMA Alone ==
  ASSUME IInv, NEW w \in Workers, Types', JobOK(w)', SeenIsClaimed',
         \A v \in Workers \ {w} : job'[v] = job[v],
         UNCHANGED <<claims, candle, crossed>>,
         InTx(w)' => InTx(w) /\ job'[w].swap = job[w].swap,
         HasClaim(w)' => HasClaim(w)
  PROVE  IInv'
<1>1. ASSUME NEW v \in Workers \ {w}
      PROVE  JobOK(v)'
  <2>1. JobOK(v) /\ job'[v] = job[v]
    BY DEF IInv, JobsOK
  <2>2. HasClaim(v) => job[v].swap \notin claims
    BY <2>1 DEF JobOK, Claimed
  <2> QED
    BY <2>1, <2>2, Carried
<1>2. JobsOK'
  BY <1>1 DEF JobsOK
<1>3. Apart'
  BY ApartKept DEF IInv
<1>4. Committed'
  BY CommittedKept DEF IInv
<1> QED
  BY <1>2, <1>3, <1>4 DEF IInv

\* A call that has its claim goes on.
LEMMA GoesKeeps ==
  ASSUME IInv, NEW w \in Workers, NEW new, Goes(w, new), HasClaim(w),
         new.pc \notin {"idle", "begin", "claim"}, Claimed(new)
  PROVE  IInv'
<1>1. new \in Jobs /\ JobTyped(new) /\ JobStep(w, new) /\ new.swap = job[w].swap
  BY DEF Goes
<1>2. Types' /\ job'[w] = new /\ \A v \in Workers \ {w} : job'[v] = job[v]
  BY <1>1, CallTypes DEF IInv
<1>3. UNCHANGED <<claims, candle, crossed>> /\ UNCHANGED seen
  BY <1>1 DEF JobStep, database
<1>4. HasClaim(w)' /\ InTx(w)'
  BY <1>2 DEF HasClaim, InTx
<1>5. Claimed(job[w])'
  BY <1>2, <1>3 DEF Claimed, Full
<1>6. JobOK(w)'
  BY <1>4, <1>5 DEF JobOK
<1>7. SeenIsClaimed'
  BY <1>3 DEF IInv, SeenIsClaimed
<1>8. InTx(w)' => InTx(w) /\ job'[w].swap = job[w].swap
  BY <1>1, <1>2 DEF HasClaim
<1> QED
  BY <1>2, <1>3, <1>6, <1>7, <1>8, Alone

\* A call that is rolled back.
LEMMA IdleFresh == ASSUME NEW w \in Workers, job[w] = Idle PROVE JobOK(w) /\ ~InTx(w) /\ ~HasClaim(w)
  BY EmptyTable DEF JobOK, HasClaim, InTx, Fresh, Idle

\* The same in the next state.
LEMMA IdleFreshNext ==
  (\A w \in Workers : job[w] = Idle => JobOK(w) /\ ~InTx(w) /\ ~HasClaim(w))'
<1>1. \A w \in Workers : job[w] = Idle => JobOK(w) /\ ~InTx(w) /\ ~HasClaim(w)
  BY IdleFresh
<1> QED
  BY <1>1, PTL

\* A call that is rolled back leaves the rest as it was.
LEMMA RollKeeps ==
  ASSUME IInv, NEW w \in Workers, JobStep(w, Idle)
  PROVE  IInv'
<1>1. Types' /\ job'[w] = Idle /\ \A v \in Workers \ {w} : job'[v] = job[v]
  BY RollTypes DEF IInv
<1>2. UNCHANGED <<claims, candle, crossed>> /\ UNCHANGED seen
  BY DEF JobStep, database
<1>3. JobOK(w)' /\ ~InTx(w)' /\ ~HasClaim(w)'
  BY <1>1, IdleFreshNext
<1>4. SeenIsClaimed'
  BY <1>2 DEF IInv, SeenIsClaimed
<1> QED
  BY <1>1, <1>2, <1>3, <1>4, Alone

\* A delivery takes no connection yet.
LEMMA TakeKeeps ==
  ASSUME IInv, NEW w \in Workers, NEW s \in Swaps, Take(w, s)
  PROVE  IInv'
<1>1. /\ Types' /\ job[w].pc = "idle" /\ \A v \in Workers \ {w} : job'[v] = job[v]
      /\ \/ job' = job
         \/ /\ job'[w].pc = "begin" /\ job'[w].swap = s
            /\ job'[w].frame = job[w].frame /\ job'[w].cands = job[w].cands
  BY TakeTypes DEF IInv
<1>2. UNCHANGED <<claims, candle, crossed>> /\ UNCHANGED seen
  BY DEF Take, database
<1>3. Fresh(job[w]) /\ ~HasClaim(w)
  <2>1. JobOK(w)
    BY DEF IInv, JobsOK
  <2> QED
    BY <1>1, <2>1 DEF JobOK, HasClaim, InTx
<1>4. Fresh(job[w])' /\ ~InTx(w)' /\ ~HasClaim(w)'
  BY <1>1, <1>3 DEF Fresh, HasClaim, InTx
<1>5. JobOK(w)'
  BY <1>4 DEF JobOK
<1>6. SeenIsClaimed'
  BY <1>2 DEF IInv, SeenIsClaimed
<1> QED
  BY <1>1, <1>2, <1>4, <1>5, <1>6, Alone

\* A transaction that starts meets those that are open.
LEMMA BeginKeeps ==
  ASSUME IInv, NEW w \in Workers, Begin(w)
  PROVE  IInv'
<1>1. /\ Types' /\ job[w].pc = "begin" /\ \A v \in Workers \ {w} : job'[v] = job[v]
      /\ job'[w].pc = "claim" /\ job'[w].swap = job[w].swap
      /\ job'[w].frame = job[w].frame /\ job'[w].cands = job[w].cands
      /\ crossed \subseteq crossed' /\ claims' = claims /\ candle' = candle
      /\ \A v \in Workers \ {w} :
           InTx(v) => job[v].swap \in crossed' /\ job[w].swap \in crossed'
  BY BeginTypes DEF IInv
<1>2. \A v \in Workers : JobOK(v)
  BY DEF IInv, JobsOK
<1>3. JobOK(w)'
  BY <1>1, <1>2 DEF JobOK, HasClaim, InTx, Fresh
<1>4. ASSUME NEW v \in Workers \ {w} PROVE JobOK(v)'
  <2>1. HasClaim(v) => job[v].swap \notin claims
    BY <1>2 DEF JobOK, Claimed
  <2> QED
    BY <1>1, <1>2, <2>1, Carried
<1>5. JobsOK'
  BY <1>3, <1>4 DEF JobsOK
<1>6. Apart'
  <2>1. ~HasClaim(w)'
    BY <1>1 DEF HasClaim
  <2>2. \A v \in Workers \ {w} : /\ InTx(v)' => InTx(v) /\ job'[v] = job[v]
                                 /\ HasClaim(v)' => HasClaim(v)
    BY <1>1 DEF HasClaim, InTx
  <2>3. ASSUME NEW v \in Workers, NEW x \in Workers, v # x
        PROVE  /\ HasClaim(v)' /\ HasClaim(x)' => job'[v].swap # job'[x].swap
               /\ InTx(v)' /\ InTx(x)' => job'[v].swap \in crossed'
    <3>1. CASE v = w
      BY <1>1, <2>1, <2>2, <2>3, <3>1
    <3>2. CASE x = w
      BY <1>1, <2>1, <2>2, <2>3, <3>2
    <3>3. CASE v # w /\ x # w
      BY <1>1, <2>2, <2>3, <3>3 DEF IInv, Apart
    <3> QED
      BY <3>1, <3>2, <3>3
  <2> QED
    BY <2>3 DEF Apart
<1>7. Committed'
  BY <1>1 DEF IInv, Committed
<1>8. SeenIsClaimed'
  BY <1>1 DEF IInv, SeenIsClaimed, Begin
<1> QED
  BY <1>1, <1>5, <1>6, <1>7, <1>8 DEF IInv

-----------------------------------------------------------------------------
(* The steps of a call *)

\* The claim: nobody else holds it, and nothing is written yet.
LEMMA ClaimKeeps ==
  ASSUME IInv, NEW w \in Workers, Claim(w)
  PROVE  IInv'
<1> DEFINE s == job[w].swap
<1>1. /\ Types' /\ job[w].pc = "claim" /\ ~ClaimLocked(w, s)
      /\ \A v \in Workers \ {w} : job'[v] = job[v]
      /\ UNCHANGED <<claims, candle, crossed>>
      /\ \/ s \in claims /\ job'[w] = Idle /\ seen' = seen \cup {s}
         \/ /\ s \notin claims /\ seen' = seen
            /\ job'[w].pc = "read" /\ job'[w].swap = s
            /\ job'[w].frame = job[w].frame /\ job'[w].cands = job[w].cands
  BY ClaimTypes DEF IInv
<1>2. JobOK(w) /\ Types
  BY DEF IInv, JobsOK
<1>3. s \in Swaps /\ InTx(w) /\ Fresh(job[w])
  <2>1. InTx(w)
    BY <1>1 DEF InTx
  <2>2. Fresh(job[w])
    BY <1>1, <1>2 DEF JobOK, HasClaim
  <2> QED
    BY <1>2, <2>1, <2>2, OpenSwaps
<1>4. SeenIsClaimed'
  BY <1>1 DEF IInv, SeenIsClaimed
<1>5. CASE s \in claims
  <2>1. JobOK(w)' /\ ~InTx(w)' /\ ~HasClaim(w)'
    BY <1>1, <1>5, IdleFreshNext
  <2> QED
    BY <1>1, <1>4, <2>1, Alone
<1>6. CASE s \notin claims
  <2>1. /\ job'[w].pc = "read" /\ job'[w].swap = s /\ job'[w].frame = 1
        /\ DOMAIN job'[w].cands = {} /\ claims' = claims /\ crossed' = crossed
    BY <1>1, <1>3, <1>6 DEF Fresh
  <2>2. {f \in Frames : f < 1} = {}
    BY Constants
  <2>3. Done(job'[w]) = {}
    BY <2>1, <2>2 DEF Done
  <2>4. Claimed(job[w])'
    <3> HIDE DEF s
    <3>1. Done(job[w])' = {}
      BY <2>3 DEF Done
    <3> QED
      BY <1>3, <1>6, <2>1, <3>1 DEF Claimed
  <2>5. JobOK(w)'
    BY <2>1, <2>4 DEF JobOK, HasClaim, InTx
  <2>6. ASSUME NEW v \in Workers \ {w} PROVE JobOK(v)'
    <3>1. JobOK(v)
      BY DEF IInv, JobsOK
    <3>2. HasClaim(v) => job[v].swap \notin claims
      BY <3>1 DEF JobOK, Claimed
    <3> QED
      BY <1>1, <3>1, <3>2, Carried
  <2>7. JobsOK'
    BY <2>5, <2>6 DEF JobsOK
  <2>8. \A v \in Workers \ {w} : HasClaim(v) => job[v].swap # s
    BY <1>1 DEF ClaimLocked
  <2>9. \A v \in Workers : /\ InTx(v)' => InTx(v)
                           /\ v # w => (HasClaim(v)' => HasClaim(v))
                           /\ job'[v].swap = job[v].swap
    BY <1>1, <1>3, <2>1 DEF HasClaim, InTx
  <2>10. ASSUME NEW v \in Workers, NEW x \in Workers, v # x
         PROVE  /\ HasClaim(v)' /\ HasClaim(x)' => job'[v].swap # job'[x].swap
                /\ InTx(v)' /\ InTx(x)' => job'[v].swap \in crossed'
    <3>1. InTx(v)' /\ InTx(x)' => job'[v].swap \in crossed'
      BY <2>1, <2>9, <2>10 DEF IInv, Apart
    <3>2. ASSUME HasClaim(v)', HasClaim(x)' PROVE job'[v].swap # job'[x].swap
      <4>1. CASE v = w
        BY <2>8, <2>9, <2>10, <3>2, <4>1
      <4>2. CASE x = w
        BY <2>8, <2>9, <2>10, <3>2, <4>2
      <4>3. CASE v # w /\ x # w
        BY <2>9, <2>10, <3>2, <4>3 DEF IInv, Apart
      <4> QED
        BY <4>1, <4>2, <4>3
    <3> QED
      BY <3>1, <3>2
  <2>11. Apart'
    BY <2>10 DEF Apart
  <2>12. Committed'
    BY <1>1, CommittedKept DEF IInv
  <2> QED
    BY <1>1, <1>4, <2>7, <2>11, <2>12 DEF IInv
<1> QED
  BY <1>5, <1>6

\* What a call that has its claim may rely on.
LEMMA Holder ==
  ASSUME IInv, NEW w \in Workers, job[w].pc \notin {"idle", "begin", "claim"}
  PROVE  /\ HasClaim(w) /\ Claimed(job[w]) /\ Types /\ Committed
         /\ Key(w) = Place(job[w].frame, job[w].swap) /\ job[w] \in Jobs
         /\ job[w].frame \in Frames /\ job[w].cands \in Table
<1>1. HasClaim(w) /\ JobOK(w) /\ Types /\ Committed
  BY DEF HasClaim, InTx, IInv, JobsOK
<1>2. JobTypes
  BY <1>1, TypesParts
<1> QED
  BY <1>1, <1>2, JobFacts DEF JobOK

\* A candle with one more swap.
LEMMA FoldOne ==
  ASSUME NEW c \in Candle, NEW d \in Candle, NEW s \in Swaps,
         d.folds = Append(c.folds, s)
  PROVE  /\ Folded(d, s) /\ \A r \in Swaps : Folded(c, r) => Folded(d, r)
         /\ \A S \in SUBSET Swaps : s \notin S /\ Clean(c, S) => Clean(d, S \cup {s})
<1>1. /\ c.folds \in Seq(Swaps) /\ Len(c.folds) \in Nat /\ Len(d.folds) = Len(c.folds) + 1
      /\ d.folds[Len(c.folds) + 1] = s
      /\ \A i \in 1 .. Len(c.folds) : d.folds[i] = c.folds[i]
      /\ DOMAIN c.folds = 1 .. Len(c.folds) /\ DOMAIN d.folds = 1 .. Len(c.folds) + 1
  BY DEF Candle
<1> DEFINE n == Len(c.folds)
<1>2. /\ DOMAIN c.folds = 1 .. n /\ DOMAIN d.folds = 1 .. n + 1 /\ n \in Nat
      /\ d.folds[n + 1] = s /\ \A i \in 1 .. n : d.folds[i] = c.folds[i]
  BY <1>1
<1> HIDE DEF n
<1>3. 1 .. n + 1 = 1 .. n \cup {n + 1}
  BY <1>2
<1>4. Folded(d, s) /\ \A r \in Swaps : Folded(c, r) => Folded(d, r)
  BY <1>2, <1>3 DEF Folded
<1>5. ASSUME NEW S \in SUBSET Swaps, s \notin S, Clean(c, S)
      PROVE  Clean(d, S \cup {s})
  <2>1. \A i \in 1 .. n : d.folds[i] \in S
    BY <1>2, <1>5 DEF Clean
  <2>2. \A i, j \in 1 .. n : d.folds[i] = d.folds[j] => i = j
    BY <1>2, <1>5 DEF Clean
  <2> QED
    BY <1>2, <1>3, <1>5, <2>1, <2>2 DEF Clean
<1> QED
  BY <1>4, <1>5

\* What is written of a candle is what has been committed of it, and this swap.
LEMMA ReadKeeps ==
  ASSUME IInv, NEW w \in Workers, ReadCandle(w)
  PROVE  IInv'
<1> DEFINE j == job[w]
           s == job[w].swap
           k == Place(job[w].frame, job[w].swap)
<1>1. Types
  BY DEF IInv
<1>2. PICK new : /\ Goes(w, new) /\ j.pc = "read" /\ new.frame = j.frame
                 /\ new.cands = j.cands
                 /\ \/ /\ new.pc = "update" /\ Key(w) \in DOMAIN candle
                       /\ new.row.folds = Append(candle[Key(w)].folds, s)
                    \/ new.pc = "cursor" /\ Key(w) \notin DOMAIN candle
  BY <1>1, ReadMove
<1>3. HasClaim(w) /\ Claimed(j) /\ Committed /\ Key(w) = k
  BY <1>2, Holder
<1>4. new.swap = s /\ s \in Swaps \ claims /\ new.pc \in {"update", "cursor"}
  BY <1>2, <1>3 DEF Goes, Claimed
<1>5. Done(new) = Done(j)
  BY <1>2 DEF Done
<1>6. new.pc = "update" =>
        Clean(new.row, claims \cup {s}) /\ Full(new.row, k) /\ Folded(new.row, s)
  <2> SUFFICES ASSUME new.pc = "update"
               PROVE  Clean(new.row, claims \cup {s}) /\ Full(new.row, k) /\ Folded(new.row, s)
    OBVIOUS
  <2>1. k \in DOMAIN candle /\ new.row.folds = Append(candle[k].folds, s)
    BY <1>2, <1>3
  <2> HIDE DEF k
  <2>2. candle[k] \in Candle /\ new.row \in Candle /\ claims \subseteq Swaps
    <3>1. candle \in Table /\ claims \subseteq Swaps
      BY <1>1 DEF Types, TypeOK
    <3>2. new.row \in Candle
      BY <1>2 DEF Goes, JobTyped
    <3> QED
      BY <2>1, <3>1, <3>2, TableFacts
  <2>3. Clean(candle[k], claims)
    BY <1>3, <2>1 DEF Committed
  <2>4. /\ Folded(new.row, s) /\ \A r \in Swaps : Folded(candle[k], r) => Folded(new.row, r)
        /\ \A S \in SUBSET Swaps : s \notin S /\ Clean(candle[k], S) => Clean(new.row, S \cup {s})
    BY <1>4, <2>1, <2>2, FoldOne
  <2>5. Clean(new.row, claims \cup {s})
    BY <1>4, <2>2, <2>3, <2>4
  <2>6. Full(new.row, k)
    BY <1>3, <2>2, <2>4 DEF Full, Committed
  <2> QED
    BY <2>4, <2>5, <2>6
<1>7. new.pc = "cursor" => k \notin DOMAIN candle
  BY <1>2, <1>3
<1>8. Claimed(new)
  BY <1>2, <1>3, <1>4, <1>5, <1>6, <1>7 DEF Claimed
<1> QED
  BY <1>2, <1>3, <1>4, <1>8, GoesKeeps

\* A candle that joins those the call has written.
LEMMA WriteClaimed ==
  ASSUME NEW j, NEW new, Claimed(j), j.cands \in Table, j.frame \in Frames,
         new.swap = j.swap, new.frame = j.frame, new.pc \in {"close", "upsert"},
         NEW c \in Candle, new.cands = Put(j.cands, Place(j.frame, j.swap), c),
         Clean(c, claims \cup {j.swap}), Full(c, Place(j.frame, j.swap)), Folded(c, j.swap)
  PROVE  Claimed(new)
<1> DEFINE s == j.swap
           k == Place(j.frame, s)
<1>1. s \in Swaps /\ new.swap = s
  BY DEF Claimed
<1>2. k \in Rows
  BY <1>1, PlaceType
<1>3. /\ DOMAIN new.cands = DOMAIN j.cands \cup {k} /\ new.cands[k] = c
      /\ \A l \in DOMAIN j.cands \ {k} : new.cands[l] = j.cands[l]
  <2> DEFINE t == j.cands
  <2>1. new.cands = Put(t, k, c) /\ t \in Table
    OBVIOUS
  <2> HIDE DEF t, k
  <2>2. /\ DOMAIN Put(t, k, c) = DOMAIN t \cup {k} /\ Put(t, k, c)[k] = c
        /\ \A l \in DOMAIN t \ {k} : Put(t, k, c)[l] = t[l]
    BY <1>2, <2>1, TablePut
  <2> QED
    BY <2>1, <2>2 DEF t
<1>4. \A l \in DOMAIN new.cands :
        Clean(new.cands[l], claims \cup {s}) /\ Full(new.cands[l], l)
  BY <1>3 DEF Claimed
<1>5. \A f \in Done(new) : f \in Done(j) \/ f = j.frame
  BY DEF Done
<1>6. ASSUME s \notin crossed, NEW f \in Done(new)
      PROVE  Place(f, s) \in DOMAIN new.cands /\ Folded(new.cands[Place(f, s)], s)
  <2>1. CASE Place(f, s) = k
    BY <1>3, <2>1
  <2>2. CASE Place(f, s) # k
    <3>1. f \in Done(j)
      BY <1>5, <1>6, <2>2
    <3>2. Place(f, s) \in DOMAIN j.cands /\ Folded(j.cands[Place(f, s)], s)
      BY <1>6, <3>1 DEF Claimed
    <3> QED
      BY <1>3, <2>2, <3>2
  <2> QED
    BY <2>1, <2>2
<1> QED
  BY <1>1, <1>4, <1>6 DEF Claimed

\* The UPDATE writes the row the call computed from what was committed.
LEMMA UpdateKeeps ==
  ASSUME IInv, NEW w \in Workers, UpdateCandle(w)
  PROVE  IInv'
<1> DEFINE j == job[w]
<1>1. Types
  BY DEF IInv
<1>2. PICK new : /\ Goes(w, new) /\ j.pc = "update" /\ new.pc = "close"
                 /\ new.frame = j.frame /\ new.cands = Put(j.cands, Key(w), j.row)
  BY <1>1, UpdateMove
<1>3. /\ HasClaim(w) /\ Claimed(j) /\ Key(w) = Place(j.frame, j.swap)
      /\ j.frame \in Frames /\ j.cands \in Table
  BY <1>2, Holder
<1>4. j.row \in Candle /\ new.swap = j.swap
  BY <1>1, <1>2 DEF Types, RowTyped, Goes
<1>5. /\ Clean(j.row, claims \cup {j.swap}) /\ Full(j.row, Place(j.frame, j.swap))
      /\ Folded(j.row, j.swap)
  BY <1>2, <1>3 DEF Claimed
<1>6. Claimed(new)
  BY <1>2, <1>3, <1>4, <1>5, WriteClaimed
<1> QED
  BY <1>2, <1>3, <1>6, GoesKeeps

\* Reading the cursor makes a candle of the swap alone.
LEMMA CursorKeeps ==
  ASSUME IInv, NEW w \in Workers, GetCursor(w)
  PROVE  IInv'
<1> DEFINE j == job[w]
<1>1. Types
  BY DEF IInv
<1>2. PICK new : /\ Goes(w, new) /\ j.pc = "cursor" /\ new.pc = "insert"
                 /\ new.frame = j.frame /\ new.cands = j.cands
                 /\ new.row.folds = <<j.swap>>
  BY <1>1, CursorMove
<1>3. HasClaim(w) /\ Claimed(j)
  BY <1>2, Holder
<1>4. Done(new) = Done(j) /\ new.swap = j.swap
  BY <1>2 DEF Done, Goes
<1>5. Claimed(new)
  BY <1>2, <1>3, <1>4 DEF Claimed
<1> QED
  BY <1>2, <1>3, <1>5, GoesKeeps

\* A candle that is new holds every swap of its own that met no other writer,
\* since there is none.
LEMMA InsertKeeps ==
  ASSUME IInv, NEW w \in Workers, InsertCandle(w)
  PROVE  IInv'
<1> DEFINE j == job[w]
           s == job[w].swap
           k == Place(job[w].frame, job[w].swap)
<1>1. Types
  BY DEF IInv
<1>2. PICK new : /\ Goes(w, new) /\ j.pc = "insert" /\ new.pc = "upsert"
                 /\ new.frame = j.frame
                 /\ \/ Key(w) \in DOMAIN candle /\ new.cands = j.cands
                    \/ /\ Key(w) \notin DOMAIN candle
                       /\ new.cands = Put(j.cands, Key(w), j.row)
  BY <1>1, InsertMove
<1>3. /\ HasClaim(w) /\ Claimed(j) /\ Key(w) = k /\ Committed
      /\ j.frame \in Frames /\ j.cands \in Table
  BY <1>2, Holder
<1>4. j.row \in Candle /\ new.swap = s /\ j.row.folds = <<s>>
  BY <1>1, <1>2, <1>3 DEF Types, RowTyped, Goes, Claimed
<1>5. CASE k \in DOMAIN candle /\ new.cands = j.cands
  <2>1. s \in crossed
    BY <1>2, <1>3, <1>5 DEF Claimed
  <2> QED
    <3> HIDE DEF k
    <3>1. Claimed(new)
      BY <1>2, <1>3, <1>4, <1>5, <2>1 DEF Claimed
    <3> QED
      BY <1>2, <1>3, <3>1, GoesKeeps
<1>6. CASE k \notin DOMAIN candle /\ new.cands = Put(j.cands, k, j.row)
  <2>1. DOMAIN j.row.folds = {1} /\ j.row.folds[1] = s
    BY <1>4
  <2>2. Clean(j.row, claims \cup {s}) /\ Folded(j.row, s)
    BY <2>1 DEF Clean, Folded
  <2>3. Full(j.row, k)
    BY <1>3, <1>6 DEF Full, Committed
  <2>4. Claimed(new)
    BY <1>2, <1>3, <1>4, <1>6, <2>2, <2>3, WriteClaimed
  <2> QED
    BY <1>2, <1>3, <2>4, GoesKeeps
<1> QED
  BY <1>2, <1>3, <1>5, <1>6

\* The next timeframe: what is done with is written.
LEMMA OnwardKeeps ==
  ASSUME IInv, NEW w \in Workers, NEW new, Goes(w, new), Onward(job[w], new),
         job[w].pc \in {"close", "upsert"}
  PROVE  IInv'
<1> DEFINE j == job[w]
<1>1. HasClaim(w) /\ Claimed(j) /\ j.frame \in Frames
  BY Holder
<1>2. new.swap = j.swap /\ new.cands = j.cands /\ new.pc \in {"read", "commit"}
      /\ (new.pc = "commit" => new.frame = Len(Interval))
  BY DEF Onward
<1>3. Done(new) \subseteq Done(j)
  <2>1. j.frame \in Nat /\ Frames = 1 .. Len(Interval) /\ Len(Interval) \in Nat
    BY <1>1, Constants
  <2>2. CASE new.frame = j.frame + 1 /\ new.pc = "read"
    <3>1. \A f \in Frames : f < j.frame + 1 => f < j.frame \/ f = j.frame
      BY <2>1
    <3> QED
      BY <2>2, <3>1 DEF Done
  <2>3. CASE new.frame = j.frame
    BY <2>3 DEF Done
  <2> QED
    BY <2>2, <2>3 DEF Onward
<1>4. Claimed(new)
  BY <1>1, <1>2, <1>3 DEF Claimed
<1> QED
  BY <1>1, <1>2, <1>4, GoesKeeps

\* The commit: what the call has written holds what has been committed of those
\* candles and met no other writer, and the calls that are open have met it.
LEMMA CommitKeeps ==
  ASSUME IInv, NEW w \in Workers, Commit(w)
  PROVE  IInv'
<1> DEFINE j == job[w]
           s == job[w].swap
<1>1. /\ Types' /\ j.pc = "commit" /\ job'[w] = Idle
      /\ \A v \in Workers \ {w} : job'[v] = job[v]
      /\ claims' = claims \cup {s} /\ candle' = Over(j.cands, candle)
      /\ crossed' = crossed /\ seen' \subseteq seen \cup {s}
  BY CommitTypes DEF IInv
<1>2. /\ HasClaim(w) /\ Claimed(j) /\ Committed /\ j.cands \in Table /\ candle \in Table
      /\ Apart
  BY <1>1, Holder DEF IInv, Types
<1>3. /\ DOMAIN candle' = DOMAIN j.cands \cup DOMAIN candle
      /\ \A k \in DOMAIN j.cands : candle'[k] = j.cands[k]
      /\ \A k \in DOMAIN candle \ DOMAIN j.cands : candle'[k] = candle[k]
  BY <1>1, <1>2, TableMerge
<1>4. Frames \subseteq Done(j) /\ s \in Swaps \ claims
  <2>1. j.frame = Len(Interval) /\ s \in Swaps \ claims
    BY <1>1, <1>2 DEF Claimed
  <2>2. \A f \in Frames : f < Len(Interval) \/ f = Len(Interval)
    BY Constants
  <2> QED
    BY <1>1, <2>1, <2>2 DEF Done
<1>5. Committed'
  <2>1. ASSUME NEW k \in DOMAIN candle' PROVE Clean(candle'[k], claims')
    <3>1. CASE k \in DOMAIN j.cands
      BY <1>1, <1>2, <1>3, <3>1 DEF Claimed
    <3>2. CASE k \in DOMAIN candle \ DOMAIN j.cands
      <4>1. Clean(candle[k], claims)
        BY <1>2, <3>2 DEF Committed
      <4>2. Clean(candle[k], claims')
        BY <1>1, <4>1 DEF Clean
      <4> QED
        BY <1>3, <3>2, <4>2
    <3> QED
      BY <1>3, <3>1, <3>2
  <2>2. ASSUME NEW r \in claims' \ crossed', NEW f \in Frames
        PROVE  Place(f, r) \in DOMAIN candle' /\ Folded(candle'[Place(f, r)], r)
    <3>1. CASE r = s
      <4>1. Place(f, s) \in DOMAIN j.cands /\ Folded(j.cands[Place(f, s)], s)
        BY <1>1, <1>2, <1>4, <2>2, <3>1 DEF Claimed
      <4> QED
        BY <1>3, <3>1, <4>1
    <3>2. CASE r # s
      <4>1. r \in claims \ crossed
        BY <1>1, <2>2, <3>2
      <4>2. Place(f, r) \in DOMAIN candle /\ Folded(candle[Place(f, r)], r)
        BY <1>2, <4>1 DEF Committed
      <4>3. CASE Place(f, r) \in DOMAIN j.cands
        <5>1. Full(j.cands[Place(f, r)], Place(f, r))
          BY <1>2, <4>3 DEF Claimed
        <5>2. Folded(j.cands[Place(f, r)], r)
          BY <4>1, <5>1 DEF Full
        <5> QED
          BY <1>3, <4>3, <5>2
      <4>4. CASE Place(f, r) \notin DOMAIN j.cands
        BY <1>3, <4>2, <4>4
      <4> QED
        BY <4>3, <4>4
    <3> QED
      BY <3>1, <3>2
  <2> QED
    BY <2>1, <2>2 DEF Committed
<1>6. ASSUME NEW v \in Workers \ {w} PROVE JobOK(v)'
  <2>1. JobOK(v)
    BY DEF IInv, JobsOK
  <2>2. HasClaim(v) =>
          /\ s \in crossed /\ job[v].swap # s /\ job[v].swap \in crossed
          /\ job[v].swap \notin claims
    <3>1. ASSUME HasClaim(v) PROVE s \in crossed /\ job[v].swap # s /\ job[v].swap \in crossed
      <4>1. InTx(v) /\ InTx(w)
        BY <1>2, <3>1 DEF HasClaim
      <4> QED
        BY <1>2, <3>1, <4>1 DEF Apart
    <3>2. HasClaim(v) => job[v].swap \notin claims
      BY <2>1 DEF JobOK, Claimed
    <3> QED
      BY <3>1, <3>2
  <2> QED
    BY <1>1, <2>1, <2>2, Carried
<1>7. JobOK(w)' /\ ~InTx(w)' /\ ~HasClaim(w)'
  BY <1>1, IdleFreshNext
<1>8. JobsOK'
  BY <1>6, <1>7 DEF JobsOK
<1>9. Apart'
  BY <1>1, <1>2, <1>7, ApartKept
<1>10. SeenIsClaimed'
  BY <1>1 DEF IInv, SeenIsClaimed
<1> QED
  BY <1>1, <1>5, <1>8, <1>9, <1>10 DEF IInv

\* The filler's candle is empty, and every call that is open has met it.
LEMMA FillKeepsAll ==
  ASSUME IInv, FillInsert
  PROVE  IInv'
<1>1. Types /\ Committed /\ Apart /\ JobsOK
  BY DEF IInv
<1>2. /\ Types' /\ job' = job /\ UNCHANGED <<claims, seen>>
      /\ crossed \subseteq crossed'
      /\ \A w \in Workers : InTx(w) => job[w].swap \in crossed'
  BY <1>1, FillInsertTypes
<1>3. PICK k \in Rows, c \in Candle :
        /\ candle' = candle \/ (k \notin DOMAIN candle /\ candle' = Put(candle, k, c))
        /\ c.folds = <<>>
  BY <1>1, FillInsertTypes
<1>4. /\ DOMAIN candle \subseteq DOMAIN candle'
      /\ \A l \in DOMAIN candle : candle'[l] = candle[l]
      /\ \A l \in DOMAIN candle' \ DOMAIN candle : candle'[l] = c
  <2>1. candle \in Table
    BY <1>1 DEF Types
  <2>2. /\ DOMAIN Put(candle, k, c) = DOMAIN candle \cup {k} /\ Put(candle, k, c)[k] = c
        /\ \A l \in DOMAIN candle \ {k} : Put(candle, k, c)[l] = candle[l]
    BY <2>1, TablePut
  <2> QED
    BY <1>3, <2>2
<1>5. Clean(c, claims)
  <2>1. DOMAIN c.folds = {}
    BY <1>3
  <2> QED
    BY <2>1 DEF Clean
<1>6. Committed'
  BY <1>1, <1>2, <1>4, <1>5 DEF Committed
<1>7. ASSUME NEW w \in Workers PROVE JobOK(w)'
  <2>1. JobOK(w)
    BY <1>1 DEF JobsOK
  <2>2. HasClaim(w) => job[w].swap \notin claims /\ job[w].swap \in crossed'
    BY <1>2, <2>1 DEF JobOK, Claimed, HasClaim
  <2> QED
    BY <1>2, <2>1, <2>2, Carried
<1>8. JobsOK'
  BY <1>7 DEF JobsOK
<1>9. Apart'
  BY <1>1, <1>2 DEF Apart, HasClaim, InTx
<1>10. SeenIsClaimed'
  BY <1>2 DEF IInv, SeenIsClaimed
<1> QED
  BY <1>2, <1>6, <1>8, <1>9, <1>10 DEF IInv

\* Nothing that the calls and the candles depend on moves.
LEMMA RestKeeps ==
  ASSUME IInv, FillOther \/ (\E s \in Swaps : Forget(s)) \/ Tick \/ Crash \/ UNCHANGED vars
  PROVE  IInv'
<1>1. Types /\ Committed /\ Apart /\ JobsOK /\ SeenIsClaimed
  BY DEF IInv
<1>2. /\ Types' /\ UNCHANGED <<claims, candle, crossed>> /\ seen' \subseteq seen
      /\ job' = job \/ \A w \in Workers : job'[w] = Idle
  <2>1. CASE UNCHANGED vars
    <3>1. /\ claims' = claims /\ candle' = candle /\ cursor' = cursor /\ crossed' = crossed
          /\ heard' = heard /\ posts' = posts /\ fill' = fill /\ now' = now /\ job' = job
          /\ seen' = seen
      BY <2>1 DEF vars
    <3>2. DataTypes /\ TableTypes /\ JobTypes /\ FillTypes
      BY <1>1, TypesParts
    <3>3. DataTypes' /\ TableTypes' /\ JobTypes'
      BY <3>1, <3>2 DEF DataTypes, TableTypes, JobTypes
    <3>4. FillTypes'
      BY <3>1, <3>2 DEF FillTypes, FillTyped, FillAt, FillEnd
    <3> QED
      BY <3>1, <3>3, <3>4, TypesNext
  <2>2. CASE FillOther
    BY <1>1, <2>2, FillTypesKept
  <2> QED
    BY <1>1, <2>1, <2>2, RestTypes
<1>3. Committed'
  BY <1>1, <1>2, CommittedKept
<1>4. SeenIsClaimed'
  BY <1>1, <1>2 DEF SeenIsClaimed
<1>5. CASE job' = job
  <2>1. ASSUME NEW w \in Workers PROVE JobOK(w)'
    <3>1. JobOK(w)
      BY <1>1 DEF JobsOK
    <3>2. HasClaim(w) => job[w].swap \notin claims
      BY <3>1 DEF JobOK, Claimed
    <3> QED
      BY <1>2, <1>5, <3>1, <3>2, Carried
  <2>2. Apart'
    BY <1>1, <1>2, <1>5 DEF Apart, HasClaim, InTx
  <2> QED
    BY <1>2, <1>3, <1>4, <2>1, <2>2 DEF IInv, JobsOK
<1>6. CASE \A w \in Workers : job'[w] = Idle
  <2>1. \A w \in Workers : JobOK(w)' /\ ~InTx(w)' /\ ~HasClaim(w)'
    BY <1>6, IdleFreshNext
  <2>2. JobsOK' /\ Apart'
    BY <2>1 DEF JobsOK, Apart
  <2> QED
    BY <1>2, <1>3, <1>4, <2>2 DEF IInv
<1> QED
  BY <1>2, <1>5, <1>6

-----------------------------------------------------------------------------
(* Theorems *)

\* Every step keeps the invariant.
LEMMA Inductive == IInv /\ [Next]_vars => IInv'
<1> SUFFICES ASSUME IInv, [Next]_vars PROVE IInv'
  OBVIOUS
<1>1. CASE \E w \in Workers :
             \/ \E s \in Swaps : Take(w, s)
             \/ Step(w) \/ ClientGivesUp(w) \/ StatementTimesOut(w) \/ SwapFails(w)
  <2>1. PICK w \in Workers :
          \/ \E s \in Swaps : Take(w, s)
          \/ Step(w) \/ ClientGivesUp(w) \/ StatementTimesOut(w) \/ SwapFails(w)
    BY <1>1
  <2>2. CASE \E s \in Swaps : Take(w, s)
    BY <2>2, TakeKeeps
  <2>3. CASE ClientGivesUp(w) \/ StatementTimesOut(w) \/ SwapFails(w)
    <3>1. JobStep(w, Idle)
      BY <2>3 DEF ClientGivesUp, StatementTimesOut, SwapFails
    <3> QED
      BY <3>1, RollKeeps
  <2>4. CASE UpdateCursorClose(w)
    <3>1. Types
      BY DEF IInv
    <3>2. job[w].pc = "close" /\ \E new : Goes(w, new) /\ Onward(job[w], new)
      BY <2>4, <3>1, CloseMove
    <3> QED
      BY <3>2, OnwardKeeps
  <2>5. CASE UpsertCursor(w)
    <3>1. Types
      BY DEF IInv
    <3>2. job[w].pc = "upsert" /\ \E new : Goes(w, new) /\ Onward(job[w], new)
      BY <2>5, <3>1, UpsertMove
    <3> QED
      BY <3>2, OnwardKeeps
  <2>6. CASE Begin(w) \/ Claim(w) \/ Commit(w)
    BY <2>6, BeginKeeps, ClaimKeeps, CommitKeeps
  <2>7. CASE ReadCandle(w) \/ UpdateCandle(w)
    BY <2>7, ReadKeeps, UpdateKeeps
  <2>8. CASE GetCursor(w) \/ InsertCandle(w)
    BY <2>8, CursorKeeps, InsertKeeps
  <2> QED
    BY <2>1, <2>2, <2>3, <2>4, <2>5, <2>6, <2>7, <2>8 DEF Step
<1>2. CASE FillInsert
  BY <1>2, FillKeepsAll
<1>3. CASE FillOther \/ (\E s \in Swaps : Forget(s)) \/ Tick \/ Crash \/ UNCHANGED vars
  BY <1>3, RestKeeps
<1> QED
  BY <1>1, <1>2, <1>3 DEF Next, FillOther

\* The candle builder starts with nothing claimed and nothing folded.
LEMMA InitInv == Init => IInv
<1> SUFFICES ASSUME Init PROVE IInv
  OBVIOUS
<1>1. claims = {} /\ candle = <<>> /\ seen = {}
  BY DEF Init
<1>2. \A w \in Workers : job[w] = Idle
  BY DEF Init
<1>3. \A w \in Workers : JobOK(w) /\ ~InTx(w) /\ ~HasClaim(w)
  BY <1>2, IdleFresh
<1>4. JobsOK /\ Apart
  BY <1>3 DEF JobsOK, Apart
<1>5. Committed /\ SeenIsClaimed
  BY <1>1, EmptyTable DEF Committed, SeenIsClaimed
<1> QED
  BY <1>4, <1>5, InitTypes DEF IInv

\* The inductive invariant of ProcessSwap and the gap filler, over every
\* interleaving of the two and every failure.
THEOREM Invariant == Spec => []IInv
  BY InitInv, Inductive, PTL DEF Spec

\* A candle that folds a swap at most once counts it once or not at all.
LEMMA CountOne ==
  ASSUME NEW c \in Candle, NEW S, Clean(c, S), NEW s
  PROVE  LET hits == {i \in DOMAIN c.folds : c.folds[i] = s} IN
         /\ Cardinality(hits) <= 1
         /\ Cardinality(hits) = 1 <=> Folded(c, s)
         /\ Folded(c, s) => s \in S
<1> DEFINE hits == {i \in DOMAIN c.folds : c.folds[i] = s}
<1>1. CASE Folded(c, s)
  <2>1. PICK i \in DOMAIN c.folds : c.folds[i] = s
    BY <1>1 DEF Folded
  <2>2. hits = {i}
    BY <2>1 DEF Clean
  <2>3. Cardinality(hits) = 1
    BY <2>2, FS_Singleton
  <2>4. s \in S
    BY <2>1 DEF Clean
  <2> QED
    BY <1>1, <2>3, <2>4
<1>2. CASE ~Folded(c, s)
  <2>1. hits = {}
    BY <1>2 DEF Folded
  <2>2. Cardinality(hits) = 0
    BY <2>1, FS_EmptySet
  <2> QED
    BY <1>2, <2>2
<1> QED
  BY <1>1, <1>2

\* The invariant gives the promise about lost swaps.
LEMMA InvLost == IInv => LostOnlyByOverlap
<1> SUFFICES ASSUME IInv, NEW s \in Swaps, NEW f \in Frames
             PROVE  /\ FoldsOf(f, s) <= 1
                    /\ FoldsOf(f, s) = 1 => s \in claims
                    /\ s \in claims \ crossed => FoldsOf(f, s) = 1
  BY DEF LostOnlyByOverlap
<1> DEFINE k == Place(f, s)
<1>1. candle \in Table /\ Committed
  BY DEF IInv, Types
<1>2. CASE k \in DOMAIN candle
  <2> DEFINE c == candle[k]
             n == Cardinality({i \in DOMAIN c.folds : c.folds[i] = s})
  <2>1. c \in Candle /\ Clean(c, claims)
    BY <1>1, <1>2, TableFacts DEF Committed
  <2>2. FoldsOf(f, s) = n
    BY <1>2 DEF FoldsOf, Place
  <2>3. s \in claims \ crossed => Folded(c, s)
    BY <1>1 DEF Committed
  <2> HIDE DEF c
  <2>4. n <= 1 /\ (n = 1 <=> Folded(c, s)) /\ (Folded(c, s) => s \in claims)
    BY <2>1, CountOne
  <2> HIDE DEF n
  <2> QED
    BY <2>2, <2>3, <2>4
<1>3. CASE k \notin DOMAIN candle
  <2>1. FoldsOf(f, s) = 0
    BY <1>3 DEF FoldsOf, Place
  <2>2. s \notin claims \ crossed
    BY <1>1, <1>3 DEF Committed
  <2> QED
    BY <2>1, <2>2
<1> QED
  BY <1>2, <1>3

\* Every variable keeps its type, in every state of the candle builder.
THEOREM TypeCorrect == Spec => []TypeOK
<1>1. IInv => TypeOK
  BY DEF IInv, Types
<1> QED
  BY <1>1, Invariant, PTL

\* The dedup cache answers only for swaps whose claim is committed, whatever
\* fails between the claim and the commit.
THEOREM CacheAfterCommit == Spec => []SeenIsClaimed
<1>1. IInv => SeenIsClaimed
  BY DEF IInv
<1> QED
  BY <1>1, Invariant, PTL

\* No candle counts a swap twice or one that is not claimed, and the only way a
\* claimed swap is missing from a candle is a transaction that met another writer.
THEOREM LossNeedsOverlap == Spec => []LostOnlyByOverlap
  BY Invariant, InvLost, PTL

-----------------------------------------------------------------------------
(* Row locks are taken in one order *)

\* A call has written, and holds locked, the candles of the timeframes before
\* the one it is at and that one's once it is past it; and the cursors likewise.
LockOrder(j) ==
  /\ \A k \in DOMAIN j.cands :
       k[1] < j.frame \/ (k[1] = j.frame /\ j.pc \in {"close", "upsert", "commit"})
  /\ \A f \in DOMAIN j.curs : f < j.frame \/ (f = j.frame /\ j.pc = "commit")

LocksOrdered == \A w \in Workers : LockOrder(job[w])

\* While transactions are open, one of them waits for no row: it executes its
\* statement, or waits for a connection.
SomeoneGoesOn ==
  (\E w \in Workers : InTx(w)) => \E w \in Workers : InTx(w) /\ ~Blocked(w)

\* A call that moves on leaves what the others hold.
LEMMA LocksMove ==
  ASSUME Types, LocksOrdered, NEW w \in Workers, NEW new,
         job' = [job EXCEPT ![w] = new], LockOrder(new)
  PROVE  LocksOrdered'
<1>1. job \in [Workers -> Jobs]
  BY DEF Types
<1>2. \A v \in Workers : job'[v] = IF v = w THEN new ELSE job[v]
  BY <1>1
<1> QED
  BY <1>2 DEF LocksOrdered

\* A call that ends holds nothing.
LEMMA IdleHoldsNothing == LockOrder(Idle)
  BY EmptyTable DEF LockOrder, Idle

\* A call that is through with a timeframe holds that one's rows and those of
\* the timeframes before it.
LEMMA FrameHeld ==
  ASSUME NEW j \in Jobs,
         \A k \in DOMAIN j.cands : k[1] < j.frame \/ k[1] = j.frame,
         \A f \in DOMAIN j.curs : f < j.frame \/ f = j.frame
  PROVE  LockOrder(NextFrame(j))
<1>1. /\ j.frame \in Nat /\ Len(Interval) \in Nat
      /\ \A k \in DOMAIN j.cands : k[1] \in Nat
      /\ \A f \in DOMAIN j.curs : f \in Nat
  <2>1. Frames \subseteq Nat /\ Len(Interval) \in Nat
    BY Constants
  <2>2. j.frame \in Frames /\ j.cands \in Table /\ j.curs \in Cursors
    BY DEF Jobs
  <2>3. DOMAIN j.cands \subseteq Rows /\ DOMAIN j.curs \subseteq Frames
    BY <2>2, TableFacts, CursorsFacts
  <2> QED
    BY <2>1, <2>2, <2>3 DEF Rows
<1>2. CASE j.frame < Len(Interval)
  <2>1. PICK new : new = NextFrame(j)
    OBVIOUS
  <2>2. /\ new.frame = j.frame + 1
        /\ new.cands = j.cands /\ new.curs = j.curs
    BY <1>2, <2>1 DEF NextFrame, Jobs
  <2>3. \A x \in Nat : x < j.frame \/ x = j.frame => x < j.frame + 1
    BY <1>1
  <2> QED
    BY <1>1, <2>1, <2>2, <2>3 DEF LockOrder
<1>3. CASE ~(j.frame < Len(Interval))
  <2>1. PICK new : new = NextFrame(j)
    OBVIOUS
  <2>2. /\ new.frame = j.frame /\ new.pc = "commit"
        /\ new.cands = j.cands /\ new.curs = j.curs
    BY <1>3, <2>1 DEF NextFrame, Jobs
  <2> QED
    BY <2>1, <2>2 DEF LockOrder
<1> QED
  BY <1>2, <1>3

\* The statements before the cursor is written take the candle's lock only.
LEMMA LocksInFrame ==
  ASSUME IInv, LocksOrdered, NEW w \in Workers,
         ReadCandle(w) \/ UpdateCandle(w) \/ GetCursor(w) \/ InsertCandle(w)
  PROVE  LocksOrdered'
<1>1. Types /\ LockOrder(job[w]) /\ job[w] \in Jobs
  BY DEF IInv, LocksOrdered, Types
<1> PICK j : j = job[w]
  OBVIOUS
<1>2. Key(w)[1] = j.frame
  BY DEF Key
<1>3. CASE ReadCandle(w) \/ GetCursor(w)
  <2>1. j.pc \in {"read", "cursor"}
    BY <1>3 DEF ReadCandle, GetCursor
  <2>2. PICK new : /\ job' = [job EXCEPT ![w] = new]
                   /\ new.frame = j.frame /\ new.cands = j.cands /\ new.curs = j.curs
    <3> DEFINE NextJob(x, row) == [j EXCEPT !.pc = x, !.row = row]
    <3>1. \A x, row : /\ NextJob(x, row).frame = j.frame /\ NextJob(x, row).cands = j.cands
                      /\ NextJob(x, row).curs = j.curs
      BY <1>1 DEF Jobs
    <3>2. [j EXCEPT !.pc = "cursor"] = NextJob("cursor", j.row)
      BY <1>1 DEF Jobs
    <3>3. CASE ReadCandle(w)
      <4>1. CASE Key(w) \in DOMAIN candle
        <5>1. PICK row :
                row = [candle[Key(w)] EXCEPT !.folds =
                         Append(candle[Key(w)].folds, job[w].swap)]
          OBVIOUS
        <5>2. job' = [job EXCEPT ![w] = [job[w] EXCEPT !.pc = "update", !.row = row]]
          BY <3>3, <4>1, <5>1 DEF ReadCandle, JobStep
        <5>3. job' = [job EXCEPT ![w] = NextJob("update", row)]
          BY <5>2
        <5> HIDE DEF NextJob
        <5> QED
          BY <3>1, <5>3
      <4>2. CASE Key(w) \notin DOMAIN candle
        <5>1. job' = [job EXCEPT ![w] = [job[w] EXCEPT !.pc = "cursor"]]
          BY <3>3, <4>2 DEF ReadCandle, JobStep
        <5>2. job' = [job EXCEPT ![w] = NextJob("cursor", j.row)]
          BY <3>2, <5>1
        <5>3. PICK row : row = j.row
          OBVIOUS
        <5>4. job' = [job EXCEPT ![w] = NextJob("cursor", row)]
          BY <5>2, <5>3
        <5> HIDE DEF NextJob
        <5> QED
          BY <3>1, <5>4
      <4> QED
        BY <4>1, <4>2
    <3>4. CASE GetCursor(w)
      <4>1. PICK row : row =
              IF job[w].frame \in DOMAIN cursor
              THEN [open |-> cursor[job[w].frame].close, folds |-> <<job[w].swap>>,
                    seq |-> cursor[job[w].frame].seq + 1]
              ELSE [open |-> job[w].swap, folds |-> <<job[w].swap>>, seq |-> 0]
        OBVIOUS
      <4>2. job' = [job EXCEPT ![w] = [job[w] EXCEPT !.pc = "insert", !.row = row]]
        BY <3>4, <4>1 DEF GetCursor, JobStep
      <4>3. job' = [job EXCEPT ![w] = NextJob("insert", row)]
        BY <4>2
      <4> HIDE DEF NextJob
      <4> QED
        BY <3>1, <4>3
    <3> QED
      BY <1>3, <3>3, <3>4
  <2>3. LockOrder(new)
    BY <1>1, <2>1, <2>2 DEF LockOrder
  <2> QED
    BY <1>1, <2>2, <2>3, LocksMove
<1>4. CASE UpdateCandle(w) \/ InsertCandle(w)
  <2>1. j.pc \in {"update", "insert"}
    BY <1>4 DEF UpdateCandle, InsertCandle
  <2>2. PICK new :
          /\ job' = [job EXCEPT ![w] = new]
          /\ \E pc \in {"close", "upsert"}, cands \in {j.cands, Put(j.cands, Key(w), j.row)} :
               new = [j EXCEPT !.pc = pc, !.cands = cands]
    <3>1. CASE UpdateCandle(w)
      BY <1>1, <3>1 DEF UpdateCandle, JobStep, Jobs
    <3>2. CASE InsertCandle(w)
      BY <1>1, <3>2 DEF InsertCandle, JobStep, Jobs
    <3> QED
      BY <1>4, <3>1, <3>2
  <2>3. DOMAIN Put(j.cands, Key(w), j.row) = DOMAIN j.cands \cup {Key(w)}
    BY DEF Put
  <2>4. /\ new.pc \in {"close", "upsert"} /\ new.frame = j.frame /\ new.curs = j.curs
        /\ \A k \in DOMAIN new.cands : k \in DOMAIN j.cands \/ k = Key(w)
    BY <1>1, <2>2, <2>3 DEF Jobs
  <2>5. LockOrder(new)
    BY <1>1, <1>2, <2>1, <2>4 DEF LockOrder
  <2> QED
    BY <1>1, <2>2, <2>5, LocksMove
<1> QED
  BY <1>3, <1>4

\* A call that ends a timeframe, having written its cursor or not.
LEMMA LocksEnd ==
  ASSUME IInv, LocksOrdered, NEW w \in Workers, job[w].pc \in {"close", "upsert"},
         NEW d \in Cursors, DOMAIN d \subseteq DOMAIN job[w].curs \cup {job[w].frame},
         NEW j, j = [job[w] EXCEPT !.curs = d],
         job' = [job EXCEPT ![w] = NextFrame(j)]
  PROVE  LocksOrdered'
<1>1. Types /\ LockOrder(job[w]) /\ job[w] \in Jobs
  BY DEF IInv, LocksOrdered, Types
<1>2. j \in Jobs /\ j.frame = job[w].frame /\ j.cands = job[w].cands /\ j.curs = d
  BY <1>1 DEF Jobs
<1>3. \A k \in DOMAIN j.cands : k[1] < j.frame \/ k[1] = j.frame
  BY <1>1, <1>2 DEF LockOrder
<1>4. \A f \in DOMAIN j.curs : f < j.frame \/ f = j.frame
  BY <1>1, <1>2 DEF LockOrder
<1>5. LockOrder(NextFrame(j))
  BY <1>2, <1>3, <1>4, FrameHeld
<1> QED
  BY <1>1, <1>5, LocksMove

\* The last statement of a timeframe takes its cursor's lock, or none.
LEMMA LocksOnward ==
  ASSUME IInv, LocksOrdered, NEW w \in Workers, UpdateCursorClose(w) \/ UpsertCursor(w)
  PROVE  LocksOrdered'
<1> PICK f, d : f = job[w].frame /\ d = job[w].curs
  OBVIOUS
<1>1. /\ Types /\ JobTypes /\ TableTypes /\ job[w] \in Jobs /\ f \in Frames /\ d \in Cursors
      /\ job[w].pc \in {"close", "upsert"}
  BY TypesParts, JobFacts DEF IInv, UpdateCursorClose, UpsertCursor
<1>2. job[w].swap \in Swaps /\ Key(w)[2] \in 0 .. MaxNow
  BY <1>1, JobFacts
<1>3. CASE job' = [job EXCEPT ![w] = NextFrame(job[w])]
  <2>1. job[w] = [job[w] EXCEPT !.curs = d]
    BY <1>1 DEF Jobs
  <2> QED
    BY <1>1, <1>3, <2>1, LocksEnd
<1>4. ASSUME NEW c \in Cursor,
             job' = [job EXCEPT ![w] = NextFrame([job[w] EXCEPT !.curs = Put(d, f, c)])]
      PROVE  LocksOrdered'
  <2>1. Put(d, f, c) \in Cursors
    BY <1>1, CursorPut
  <2>2. DOMAIN Put(d, f, c) = DOMAIN d \cup {f}
    BY DEF Put
  <2> PICK j : j = [job[w] EXCEPT !.curs = Put(d, f, c)]
    OBVIOUS
  <2> QED
    BY <1>1, <1>4, <2>1, <2>2, LocksEnd
<1>5. CASE UpdateCursorClose(w)
  <2>1. CASE JobStep(w, NextFrame(job[w]))
    BY <1>3, <2>1 DEF JobStep
  <2>2. CASE /\ f \in DOMAIN cursor
             /\ JobStep(w, NextFrame([job[w] EXCEPT !.curs =
                  Put(job[w].curs, f, [cursor[f] EXCEPT !.close = job[w].swap])]))
    <3>1. cursor[f] \in Cursor
      BY <1>1, <2>2, CursorsFacts DEF TableTypes
    <3>2. PICK c \in Cursor : c = [cursor[f] EXCEPT !.close = job[w].swap]
      BY <1>2, <3>1 DEF Cursor
    <3> QED
      BY <1>4, <2>2, <3>2 DEF JobStep
  <2> QED
    BY <1>5, <2>1, <2>2 DEF UpdateCursorClose
<1>6. CASE UpsertCursor(w)
  <2>1. job[w].row \in Candle
    BY <1>1, <1>6 DEF UpsertCursor, JobTypes, JobTyped
  <2>2. PICK c \in Cursor :
          c = [close |-> job[w].swap, start |-> Key(w)[2], seq |-> job[w].row.seq]
    BY <1>2, <2>1 DEF Candle, Cursor
  <2> QED
    BY <1>4, <1>6, <2>2 DEF UpsertCursor, JobStep
<1> QED
  BY <1>5, <1>6

\* No step takes a lock out of the order.
LEMMA LocksStep == IInv /\ LocksOrdered /\ [Next]_vars => LocksOrdered'
<1> SUFFICES ASSUME IInv, LocksOrdered, [Next]_vars PROVE LocksOrdered'
  OBVIOUS
<1>1. Types /\ job \in [Workers -> Jobs]
  BY DEF IInv, Types
<1>2. CASE UNCHANGED job
  BY <1>2 DEF LocksOrdered
<1>3. ASSUME NEW w \in Workers, job' = [job EXCEPT ![w] = Idle] PROVE LocksOrdered'
  BY <1>1, <1>3, IdleHoldsNothing, LocksMove
<1>4. ASSUME NEW w \in Workers, job[w].pc \in {"idle", "begin", "claim"},
             NEW pc \in {"begin", "claim", "read"}, NEW s, NEW next,
             next = [job[w] EXCEPT !.pc = pc, !.swap = s], job' = [job EXCEPT ![w] = next]
      PROVE  LocksOrdered'
  <2>1. next.frame = job[w].frame /\ next.cands = job[w].cands /\ next.curs = job[w].curs
    BY <1>1, <1>4 DEF Jobs
  <2>2. LockOrder(next)
    BY <1>4, <2>1 DEF LocksOrdered, LockOrder
  <2> QED
    BY <1>1, <1>4, <2>2, LocksMove
<1>5. ASSUME NEW w \in Workers, NEW s \in Swaps, Take(w, s) PROVE LocksOrdered'
  <2>1. CASE job' = [job EXCEPT ![w].pc = "begin", ![w].swap = s]
    <3>1. PICK next : next = [job[w] EXCEPT !.pc = "begin", !.swap = s]
      OBVIOUS
    <3>2. job' = [job EXCEPT ![w] = next] /\ job[w].pc = "idle"
      BY <1>1, <1>5, <2>1, <3>1 DEF Take, Jobs
    <3> QED
      BY <1>4, <3>1, <3>2
  <2> QED
    BY <1>2, <1>5, <2>1 DEF Take
<1>6. ASSUME NEW w \in Workers, Begin(w) \/ Claim(w) PROVE LocksOrdered'
  <2>1. CASE job' = [job EXCEPT ![w] = Idle]
    BY <1>3, <2>1
  <2>2. CASE /\ job[w].pc \in {"begin", "claim"}
             /\ \E pc \in {"claim", "read"} : job' = [job EXCEPT ![w].pc = pc]
    <3>1. PICK pc \in {"claim", "read"} : job' = [job EXCEPT ![w].pc = pc]
      BY <2>2
    <3>2. PICK next, s : s = job[w].swap /\ next = [job[w] EXCEPT !.pc = pc, !.swap = s]
      OBVIOUS
    <3>3. job' = [job EXCEPT ![w] = next]
      BY <1>1, <3>1, <3>2 DEF Jobs
    <3> QED
      BY <1>4, <2>2, <3>2, <3>3
  <2> QED
    BY <1>6, <2>1, <2>2 DEF Begin, Claim
<1>7. ASSUME NEW w \in Workers,
             ClientGivesUp(w) \/ StatementTimesOut(w) \/ SwapFails(w) \/ Commit(w)
      PROVE  LocksOrdered'
  BY <1>3, <1>7 DEF ClientGivesUp, StatementTimesOut, SwapFails, Commit, JobStep
<1>8. CASE Crash
  BY <1>8, IdleHoldsNothing DEF Crash, LocksOrdered
<1>9. CASE FillScan \/ FillRead \/ FillInsert \/ FillAdvance \/ FillInsertFails
           \/ FillAdvanceFails
  BY <1>2, <1>9 DEF FillScan, FillRead, FillInsert, FillAdvance, FillInsertFails,
                    FillAdvanceFails, FillStep
<1>10. CASE (\E s \in Swaps : Forget(s)) \/ Tick \/ UNCHANGED vars
  BY <1>2, <1>10 DEF Forget, Tick, vars
<1> QED
  BY <1>5, <1>6, <1>7, <1>8, <1>9, <1>10, LocksInFrame, LocksOnward DEF Next, Step

\* Where a call stands in the order in which all calls take their locks.
Stage(pc) == CASE pc \in {"update", "insert"} -> 1
               [] pc \in {"close", "upsert"} -> 2
               [] pc = "commit" -> 3
               [] OTHER -> 0
Rank(j) == IF j.pc = "claim" THEN 0 ELSE 4 * j.frame + Stage(j.pc)

\* Ranks are numbers, below a bound, and grow with the timeframe.
LEMMA RankType ==
  ASSUME Types, NEW w \in Workers
  PROVE  /\ Len(Interval) \in Nat
         /\ job[w].frame \in 1 .. Len(Interval) /\ Stage(job[w].pc) \in 0 .. 3
         /\ Rank(job[w]) \in 0 .. (4 * Len(Interval) + 3)
<1>1. job[w].frame \in 1 .. Len(Interval) /\ Len(Interval) \in Nat
  BY Constants DEF Types, Jobs
<1>2. Stage(job[w].pc) \in 0 .. 3
  BY DEF Stage
<1>3. \A n \in 0 .. 3 : 4 * job[w].frame + n \in 0 .. (4 * Len(Interval) + 3)
  BY <1>1
<1>4. 0 \in 0 .. (4 * Len(Interval) + 3)
  BY <1>1
<1> QED
  BY <1>1, <1>2, <1>3, <1>4 DEF Rank

\* Only an open transaction has a claim, and only one that has it holds rows.
LEMMA HoldersOpen ==
  ASSUME IInv, LocksOrdered, NEW v \in Workers,
         HasClaim(v) \/ DOMAIN job[v].cands # {} \/ DOMAIN job[v].curs # {}
  PROVE  InTx(v) /\ job[v].pc # "claim"
<1>1. /\ Types /\ JobOK(v) /\ LockOrder(job[v]) /\ job[v].frame \in Nat
      /\ \A f \in DOMAIN job[v].curs : f \in Nat /\ f >= 1
  <2>1. Frames \subseteq Nat /\ \A f \in Frames : f >= 1
    BY Constants
  <2>2. job[v].frame \in Frames /\ job[v].curs \in Cursors
    BY DEF IInv, Types, Jobs
  <2>3. DOMAIN job[v].curs \subseteq Frames
    BY <2>2, CursorsFacts
  <2> QED
    BY <2>1, <2>2, <2>3 DEF IInv, JobsOK, LocksOrdered
<1> SUFFICES ASSUME ~HasClaim(v) PROVE FALSE
  BY DEF HasClaim
<1>2. DOMAIN job[v].cands = {} /\ job[v].frame = 1
  BY <1>1 DEF JobOK, Fresh
<1>3. PICK f \in DOMAIN job[v].curs : TRUE
  BY <1>2
<1>4. job[v].pc # "commit"
  BY DEF HasClaim, InTx
<1>5. f < 1
  BY <1>1, <1>2, <1>4 DEF LockOrder
<1> QED
  BY <1>1, <1>5

\* Whoever holds the lock a call waits for is further on.
LEMMA HoldersAhead ==
  ASSUME IInv, LocksOrdered, NEW w \in Workers, Blocked(w)
  PROVE  InTx(w) /\ \E v \in Workers : InTx(v) /\ Rank(job[v]) > Rank(job[w])
<1>1. Types /\ \A v \in Workers : LockOrder(job[v])
  BY DEF IInv, LocksOrdered
<1>2. CASE job[w].pc = "claim" /\ ClaimLocked(w, job[w].swap)
  <2>1. PICK v \in Workers : HasClaim(v)
    BY <1>2 DEF ClaimLocked
  <2>2. InTx(v) /\ job[v].pc # "claim" /\ InTx(w)
    BY <1>2, <2>1, HoldersOpen DEF InTx
  <2>3. Rank(job[w]) = 0 /\ Rank(job[v]) = 4 * job[v].frame + Stage(job[v].pc)
    BY <1>2, <2>2 DEF Rank
  <2>4. job[v].frame \in Nat /\ job[v].frame >= 1 /\ Stage(job[v].pc) \in Nat
    BY <1>1, RankType
  <2>5. 4 * job[v].frame + Stage(job[v].pc) > 0
    BY ONLY <2>4
  <2> QED
    BY <2>2, <2>3, <2>5
<1>3. ASSUME NEW v \in Workers, NEW n \in {1, 2}, Stage(job[w].pc) = n, InTx(w),
             job[w].pc # "claim", job[v].pc # "claim",
             \/ job[w].frame < job[v].frame
             \/ job[w].frame = job[v].frame /\ Stage(job[v].pc) > n
      PROVE  Rank(job[v]) > Rank(job[w])
  <2>1. /\ Rank(job[w]) = 4 * job[w].frame + n
        /\ Rank(job[v]) = 4 * job[v].frame + Stage(job[v].pc)
    BY <1>3 DEF Rank
  <2>2. /\ job[w].frame \in Nat /\ job[v].frame \in Nat
        /\ Stage(job[v].pc) \in Nat /\ n \in Nat /\ n < 4
    BY <1>1, RankType
  <2>3. 4 * job[v].frame + Stage(job[v].pc) > 4 * job[w].frame + n
    BY ONLY <1>3, <2>2
  <2> QED
    BY <2>1, <2>3
<1>4. CASE /\ job[w].pc \in {"update", "insert"}
           /\ \E v \in Others(w) : CandleLocked(v, Key(w))
  <2>1. PICK v \in Workers : Key(w) \in DOMAIN job[v].cands
    BY <1>4 DEF Others, CandleLocked
  <2>2. Key(w)[1] = job[w].frame
    BY DEF Key
  <2>3. \/ job[w].frame < job[v].frame
        \/ job[w].frame = job[v].frame /\ job[v].pc \in {"close", "upsert", "commit"}
    BY <1>1, <2>1, <2>2 DEF LockOrder
  <2>4. Stage(job[w].pc) = 1 /\ InTx(w) /\ job[w].pc # "claim"
    BY <1>4 DEF Stage, InTx
  <2>5. job[v].pc \in {"close", "upsert", "commit"} => Stage(job[v].pc) > 1
    BY DEF Stage
  <2>6. InTx(v) /\ job[v].pc # "claim"
    BY <2>1, HoldersOpen
  <2> QED
    BY <1>3, <2>3, <2>4, <2>5, <2>6
<1>5. CASE /\ job[w].pc \in {"close", "upsert"}
           /\ \E v \in Others(w) : CursorLocked(v, job[w].frame)
  <2>1. PICK v \in Workers : job[w].frame \in DOMAIN job[v].curs
    BY <1>5 DEF Others, CursorLocked
  <2>2. \/ job[w].frame < job[v].frame
        \/ job[w].frame = job[v].frame /\ job[v].pc = "commit"
    BY <1>1, <2>1 DEF LockOrder
  <2>3. Stage(job[w].pc) = 2 /\ InTx(w) /\ job[w].pc # "claim"
    BY <1>5 DEF Stage, InTx
  <2>4. job[v].pc = "commit" => Stage(job[v].pc) > 2
    BY DEF Stage
  <2>5. InTx(v) /\ job[v].pc # "claim"
    BY <2>1, HoldersOpen
  <2> QED
    BY <1>3, <2>2, <2>3, <2>4, <2>5
<1> QED
  BY <1>2, <1>4, <1>5 DEF Blocked

\* Among the open transactions, the one that is furthest on waits for nobody.
LEMMA FurthestGoesOn == IInv /\ LocksOrdered => SomeoneGoesOn
<1> SUFFICES ASSUME IInv, LocksOrdered, NEW w0 \in Workers, InTx(w0),
                    \A w \in Workers : InTx(w) => Blocked(w)
             PROVE  FALSE
  BY DEF SomeoneGoesOn
<1> DEFINE bound == 4 * Len(Interval) + 3
           T == {n \in 0 .. bound : \E w \in Workers : InTx(w) /\ Rank(job[w]) = bound - n}
<1>1. bound \in Nat /\ \A w \in Workers : Rank(job[w]) \in 0 .. bound
  <2>1. Len(Interval) \in Nat
    BY Constants
  <2> QED
    BY <2>1, RankType DEF IInv
<1> HIDE DEF bound
<1>2. ASSUME NEW w \in Workers, InTx(w)
      PROVE  bound - Rank(job[w]) \in T
  <2>1. bound - Rank(job[w]) \in 0 .. bound
        /\ Rank(job[w]) = bound - (bound - Rank(job[w]))
    BY <1>1
  <2> QED
    BY <1>2, <2>1
<1>3. PICK m \in T : \A n \in T : m <= n
  <2>1. T \in SUBSET Nat /\ T # {}
    BY <1>1, <1>2
  <2> HIDE DEF T
  <2> QED
    BY <2>1, LeastNat
<1>4. PICK w \in Workers : InTx(w) /\ Rank(job[w]) = bound - m
  OBVIOUS
<1>5. PICK v \in Workers : InTx(v) /\ Rank(job[v]) > Rank(job[w])
  BY <1>4, HoldersAhead
<1>6. m <= bound - Rank(job[v])
  BY <1>2, <1>3, <1>5
<1>7. m \in Nat /\ Rank(job[v]) \in Nat /\ Rank(job[w]) \in Nat
  BY <1>1
<1> QED
  BY ONLY <1>1, <1>4, <1>5, <1>6, <1>7

\* However many webhook handlers and timeframes there are, the row locks of
\* overlapping transactions never close a circle: while any is open, one of
\* them waits for no row.  So a circle can only close through the pool, where
\* GetCursor asks for a second connection.
THEOREM RowLocksNeverDeadlock == Spec => []SomeoneGoesOn
<1>1. Init => LocksOrdered
  BY IdleHoldsNothing DEF Init, LocksOrdered
<1>2. Spec => []LocksOrdered
  BY <1>1, Invariant, LocksStep, PTL DEF Spec
<1> QED
  BY <1>2, Invariant, FurthestGoesOn, PTL
=============================================================================
