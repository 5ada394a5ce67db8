--------------------------- MODULE IndexerProofs ---------------------------
(***************************************************************************)
(* Theorems about the indexer's two halves, the fan-out (Publisher) and    *)
(* the loop that feeds it (Processor), each about its own specification.   *)
(*                                                                         *)
(* Fan-out: for every set of batches and targets, every capacity of the    *)
(* dead-letter queue and every number of attempts.  The types need that a  *)
(* delivery under way has attempts left; on them stand four invariants     *)
(* that need nothing of each other: where each fan-out stands in its       *)
(* batch, what the queue holds of the letters buried, which letters and    *)
(* acceptances each delivery has to show for itself, and which batches     *)
(* Redis still vouches for.                                                *)
(*                                                                         *)
(* Processor: for every chain, every batch size and every bound.  One      *)
(* inductive invariant carries all of it: at every point of a batch, what  *)
(* the local variables have passed over is in the tables and in the batch  *)
(* of envelopes, and everything the database claims (cursor, job) is       *)
(* indexed.                                                                *)
(***************************************************************************)
EXTENDS Publisher, Processor, Sums, SequenceTheorems

(***************************************************************************)
(*                              The fan-out                                *)
(***************************************************************************)

Fanout == [batch : Batches, toRedis : SUBSET Events, hook : [Targets -> Hooks]]

\* What subscribers have seen of a fan-out lies before what is still to go.
ChannelBehind ==
  \A i \in DOMAIN channel :
    /\ channel[i].by \in DOMAIN fanouts
    /\ \A e \in fanouts[channel[i].by].toRedis : channel[i].event < e

\* Redis vouches for every batch fanned out, or it is excused.
SentTracked == sent \subseteq reserved \cup excused

\* A delivery still under way has attempts left.
TriesLeft ==
  \A k \in DOMAIN fanouts, t \in Targets :
    fanouts[k].hook[t].st = "sending" => fanouts[k].hook[t].tries < Attempts

\* Letters and deliveries given up answer to each other one to one, an accepted
\* delivery is with its target, and one given up before its attempts were used
\* was so under a cancelled context, which no fan-out outlives.
Dead(k, t) == fanouts[k].hook[t].st = "dead"

LettersFromDead ==
  \A i \in DOMAIN deaths :
    /\ deaths[i].by \in DOMAIN fanouts
    /\ Dead(deaths[i].by, deaths[i].target)

LettersDistinct == \A i, j \in DOMAIN deaths : deaths[i] = deaths[j] => i = j

HooksBooked ==
  \A k \in DOMAIN fanouts, t \in Targets :
    /\ fanouts[k].hook[t].st = "delivered" => fanouts[k].batch \in received[t]
    /\ Dead(k, t) => \E i \in DOMAIN deaths : deaths[i] = [by |-> k, target |-> t]
    /\ Dead(k, t) /\ ctx = "up" => fanouts[k].hook[t].tries = Attempts

Booked == /\ ctx = "down" => fanouts = <<>>
          /\ LettersFromDead /\ LettersDistinct /\ HooksBooked

Types == PubTypeOK /\ Len(fanouts) <= MaxFanouts
Order == ChannelBehind /\ RedisOrdered
Letterbox == emptied <= Len(deaths) /\ DlqKeepsNewest

PubInv == Types /\ TriesLeft /\ Order /\ Letterbox /\ Booked /\ SentTracked

-----------------------------------------------------------------------------
(* Helpers *)

\* Events are natural numbers, so they can be put in order.
LEMMA EventsOrdered == Events \subseteq Nat /\ Channelled \subseteq Events
  BY PublisherAssumption

\* A batch is fanned out: a fan-out is added for it.
Fanned(b) ==
  /\ Len(fanouts) < MaxFanouts
  /\ PublishFresh(b) \/ PublishUnchecked(b)
  /\ UNCHANGED <<ctx, channel, received, dlq, deaths, emptied>>

\* A step of the process's life, or none: everything else stays.
Stays == /\ ctx' \in {"up", "cancelled", "drained", ctx}
         /\ ctx' = "up" => ctx \in {"up", "down"}
         /\ UNCHANGED <<reserved, fanouts, channel, received, dlq, pubHistory>>

\* A step is one of these; a property is preserved if each of them does it.
LEMMA StepCases ==
  ASSUME [PubNext]_pubVars
  PROVE  \/ \E b \in Batches : Fanned(b) \/ KeyExpires(b)
         \/ \E k \in DOMAIN fanouts, e \in Events : RedisStep(k, e)
         \/ \E k \in DOMAIN fanouts, t \in Targets :
              Delivered(k, t) \/ AttemptFails(k, t) \/ Aborted(k, t)
         \/ DrainDeadLetterQueue \/ Stop \/ Stays
<1>1. CASE UNCHANGED pubVars
  BY <1>1 DEF pubVars, Stays, pubHistory
<1>2. ASSUME NEW b \in Batches, PublishBatch(b) PROVE Fanned(b) \/ Stays
  BY <1>2, Zenon DEF PublishBatch, PublishDuplicate, Fanned, Stays, pubHistory
<1>3. CASE Cancel \/ Disconnect \/ Restart
  BY <1>3 DEF Cancel, Disconnect, Restart, Stays
<1> QED
  BY <1>1, <1>2, <1>3, Zenon DEF PubNext, Deliver

-----------------------------------------------------------------------------
(* Type correctness *)

\* Nothing is running, stored or queued before the process starts.
LEMMA PubInitInv == PubInit => PubInv
<1> SUFFICES ASSUME PubInit PROVE PubInv
  OBVIOUS
<1> USE PublisherAssumption DEF PubInit
<1>1. Types
  BY DEF Types, PubTypeOK
<1>2. Order
  BY DEF Order, ChannelBehind, RedisOrdered
<1>3. Letterbox
  <2>1. 0 - DlqCap \in Int
    OBVIOUS
  <2>2. Max({0, 0 - DlqCap}) = 0
    BY <2>1, MaxPair
  <2>3. Len(deaths) = 0 /\ emptied = 0 /\ dlq = <<>> /\ deaths = <<>>
    OBVIOUS
  <2>4. SubSeq(deaths, 0 + 1, 0) = <<>>
    OBVIOUS
  <2>5. Len(deaths) - DlqCap = 0 - DlqCap /\ Max({emptied, Len(deaths) - DlqCap}) = 0
    BY <2>2, <2>3
  <2>6. dlq = SubSeq(deaths, Max({emptied, Len(deaths) - DlqCap}) + 1, Len(deaths))
    <3> HIDE DEF PubInit
    <3> QED
      BY ONLY <2>3, <2>4, <2>5
  <2>7. DlqKeepsNewest
    BY ONLY <2>6, Zenon DEF DlqKeepsNewest
  <2> QED
    BY ONLY <2>3, <2>7 DEF Letterbox
<1>4. SentTracked
  BY DEF SentTracked
<1>5. TriesLeft
  BY DEF TriesLeft
<1>6. Booked
  BY DEF Booked, LettersFromDead, LettersDistinct, HooksBooked
<1> QED
  BY <1>1, <1>2, <1>3, <1>4, <1>5, <1>6 DEF PubInv

\* There is a target, so a fan-out has a hook.
LEMMA Targeted == \E t : t \in Targets
  BY PublisherAssumption

\* Whatever is buried, the queue keeps within its capacity.
LEMMA NewestType ==
  ASSUME NEW q \in Seq(Letters)
  PROVE  Newest(q) \in Seq(Letters) /\ Len(Newest(q)) <= DlqCap
  BY PublisherAssumption DEF Newest

\* A fan-out whose delivery to one target changes is still a fan-out.
LEMMA HookType ==
  ASSUME PubTypeOK, NEW k \in DOMAIN fanouts, NEW t \in Targets, NEW h \in Hooks
  PROVE  LET new == [fanouts EXCEPT ![k].hook[t] = h]
         IN  /\ new \in Seq(Fanout) /\ Len(new) = Len(fanouts)
             /\ \A j \in DOMAIN fanouts, u \in Targets :
                  /\ new[j].toRedis = fanouts[j].toRedis
                  /\ new[j].batch = fanouts[j].batch
                  /\ new[j].hook[u] = (IF j = k /\ u = t THEN h
                                       ELSE fanouts[j].hook[u])
<1>1. fanouts \in Seq(Fanout) /\ k \in 1 .. Len(fanouts)
  BY DEF PubTypeOK, Fanout
<1>2. fanouts[k] \in Fanout
  BY <1>1
<1> DEFINE one == [fanouts[k] EXCEPT !.hook = [fanouts[k].hook EXCEPT ![t] = h]]
           new == [fanouts EXCEPT ![k].hook[t] = h]
<1>3. /\ one \in Fanout /\ one.toRedis = fanouts[k].toRedis
      /\ one.batch = fanouts[k].batch
      /\ one.hook = [fanouts[k].hook EXCEPT ![t] = h]
      /\ fanouts[k].hook \in [Targets -> Hooks]
  BY <1>2 DEF Fanout
<1>4. new = [fanouts EXCEPT ![k] = one]
  BY <1>1
<1> HIDE DEF one, new
<1>5. new \in Seq(Fanout) /\ Len(new) = Len(fanouts)
  BY <1>1, <1>3, <1>4
<1>6. \A j \in DOMAIN fanouts : new[j] = IF j = k THEN one ELSE fanouts[j]
  BY <1>4
<1>7. \A u \in Targets : one.hook[u] = IF u = t THEN h ELSE fanouts[k].hook[u]
  BY <1>3
<1>8. ASSUME NEW j \in DOMAIN fanouts, NEW u \in Targets
      PROVE  /\ new[j].toRedis = fanouts[j].toRedis
             /\ new[j].batch = fanouts[j].batch
             /\ new[j].hook[u] = (IF j = k /\ u = t THEN h ELSE fanouts[j].hook[u])
  BY <1>3, <1>6, <1>7
<1> QED
  BY <1>5, <1>8 DEF new

\* The delivery of batch k to t as it stands.
LEMMA HookIsHook ==
  ASSUME PubTypeOK, NEW k \in DOMAIN fanouts, NEW t \in Targets
  PROVE  /\ k \in 1 .. Len(fanouts) /\ fanouts[k] \in Fanout
         /\ fanouts[k].batch \in Batches
         /\ fanouts[k].hook[t] \in Hooks
<1>1. fanouts \in Seq(Fanout) /\ k \in 1 .. Len(fanouts)
  BY DEF PubTypeOK, Fanout
<1>2. fanouts[k] \in Fanout
  BY <1>1
<1>3. fanouts[k].batch \in Batches /\ fanouts[k].hook \in [Targets -> Hooks]
  BY <1>2 DEF Fanout
<1> QED
  BY <1>1, <1>2, <1>3

\* A Redis publish takes one event off what one fan-out has to send.
LEMMA RedisMarks ==
  ASSUME PubTypeOK, NEW k \in DOMAIN fanouts, NEW e \in Events, RedisStep(k, e)
  PROVE  /\ fanouts' \in Seq(Fanout) /\ Len(fanouts') = Len(fanouts)
         /\ DOMAIN fanouts' = DOMAIN fanouts
         /\ \A j \in DOMAIN fanouts :
              /\ fanouts'[j].toRedis = (IF j = k THEN fanouts[k].toRedis \ {e}
                                        ELSE fanouts[j].toRedis)
              /\ fanouts'[j].hook = fanouts[j].hook
              /\ fanouts'[j].batch = fanouts[j].batch
<1> DEFINE less == [fanouts[k] EXCEPT !.toRedis = fanouts[k].toRedis \ {e}]
<1>1. fanouts \in Seq(Fanout) /\ k \in 1 .. Len(fanouts)
  BY DEF PubTypeOK, Fanout
<1>2. fanouts[k] \in Fanout
  BY <1>1
<1>3. /\ less \in Fanout /\ less.toRedis = fanouts[k].toRedis \ {e}
      /\ less.hook = fanouts[k].hook /\ less.batch = fanouts[k].batch
  BY <1>2 DEF Fanout
<1>4. fanouts' = [fanouts EXCEPT ![k] = less]
  BY <1>1 DEF RedisStep
<1> HIDE DEF less
<1>5. /\ fanouts' \in Seq(Fanout) /\ Len(fanouts') = Len(fanouts)
      /\ DOMAIN fanouts' = DOMAIN fanouts
  BY <1>1, <1>3, <1>4
<1>6. \A j \in DOMAIN fanouts :
        fanouts'[j] = IF j = k THEN less ELSE fanouts[j]
  BY <1>4
<1> QED
  BY <1>3, <1>5, <1>6

\* An acceptance adds a batch to what its target has.
LEMMA AcceptsType ==
  ASSUME PubTypeOK, NEW k \in DOMAIN fanouts, NEW t \in Targets,
         UNCHANGED received \/ Accepts(k, t)
  PROVE  /\ received' \in [Targets -> SUBSET Batches]
         /\ \A u \in Targets : received[u] \subseteq received'[u]
         /\ Accepts(k, t) => fanouts[k].batch \in received'[t]
  BY HookIsHook DEF Accepts, PubTypeOK

\* Burying a letter keeps queue and history sequences of letters.
LEMMA BuryType ==
  ASSUME Types, NEW k \in DOMAIN fanouts, NEW t \in Targets, Bury(k, t)
  PROVE  /\ dlq' \in Seq(Letters) /\ Len(dlq') <= DlqCap
         /\ deaths' \in Seq(Letters)
<1>1. k \in 1 .. MaxFanouts
  BY HookIsHook, PublisherAssumption DEF Types, PubTypeOK
<1>2. [by |-> k, target |-> t] \in Letters
  BY <1>1 DEF Letters
<1>3. dlq \in Seq(Letters) /\ deaths \in Seq(Letters)
  BY DEF Types, PubTypeOK
<1>4. Append(dlq, [by |-> k, target |-> t]) \in Seq(Letters)
  BY <1>2, <1>3
<1>5. /\ dlq' = Newest(Append(dlq, [by |-> k, target |-> t]))
      /\ deaths' = Append(deaths, [by |-> k, target |-> t])
  BY DEF Bury
<1>6. deaths' \in Seq(Letters)
  BY <1>2, <1>3, <1>5
<1> QED
  BY <1>4, <1>5, <1>6, NewestType

\* What an attempt that leaves the delivery as h has to show for it.
Shown(k, t, h) ==
  /\ h.st = "sending" => h.tries < Attempts /\ UNCHANGED deaths
  /\ h.st = "delivered" => Accepts(k, t) /\ UNCHANGED deaths
  /\ h.st = "dead" => /\ deaths' = Append(deaths, [by |-> k, target |-> t])
                      /\ ctx = "up" => h.tries = Attempts

\* An attempt is made under way, and changes its own delivery only.
LEMMA HookChanges ==
  ASSUME PubTypeOK, TriesLeft, NEW k \in DOMAIN fanouts, NEW t \in Targets,
         Delivered(k, t) \/ AttemptFails(k, t) \/ Aborted(k, t)
  PROVE  \E h \in Hooks :
           /\ fanouts[k].hook[t].st = "sending" /\ Shown(k, t, h)
           /\ h.st = "sending" => h.tries < Attempts
           /\ fanouts' = [fanouts EXCEPT ![k].hook[t] = h]
<1> DEFINE old == fanouts[k].hook[t]
           n == old.tries + 1
<1>1. old \in Hooks
  BY HookIsHook
<1>s. old.st = "sending"
  BY DEF Delivered, AttemptFails, Aborted, Sending
<1>2. CASE Delivered(k, t)
  <2>1. /\ [old EXCEPT !.st = "delivered"] \in Hooks
        /\ [old EXCEPT !.st = "delivered"].st = "delivered"
    BY <1>1 DEF Hooks
  <2>2. fanouts' = [fanouts EXCEPT ![k].hook[t] = [old EXCEPT !.st = "delivered"]]
    BY <1>2 DEF Delivered
  <2>3. Shown(k, t, [old EXCEPT !.st = "delivered"])
    BY <1>2, <2>1 DEF Shown, Delivered, pubHistory
  <2> QED
    BY <1>s, <2>1, <2>2, <2>3
<1>3. CASE Aborted(k, t)
  <2>1. /\ [old EXCEPT !.st = "dead"] \in Hooks
        /\ [old EXCEPT !.st = "dead"].st = "dead"
    BY <1>1 DEF Hooks
  <2>2. fanouts' = [fanouts EXCEPT ![k].hook[t] = [old EXCEPT !.st = "dead"]]
    BY <1>3 DEF Aborted
  <2>3. Shown(k, t, [old EXCEPT !.st = "dead"])
    BY <1>3, <2>1 DEF Shown, Aborted, Bury
  <2> QED
    BY <1>s, <2>1, <2>2, <2>3
<1>4. CASE AttemptFails(k, t)
  <2>2. n \in 0 .. Attempts
    BY <1>1, <1>s, PublisherAssumption DEF TriesLeft, Hooks
  <2>3. CASE n = Attempts
    <3>1. [st |-> "dead", tries |-> n] \in Hooks
      BY <2>2 DEF Hooks
    <3>2. fanouts' = [fanouts EXCEPT ![k].hook[t] = [st |-> "dead", tries |-> n]]
      BY <1>4, <2>3 DEF AttemptFails
    <3>3. Shown(k, t, [st |-> "dead", tries |-> n])
      BY <1>4, <2>3 DEF Shown, AttemptFails, Bury
    <3> QED
      BY <1>s, <3>1, <3>2, <3>3
  <2>4. CASE n # Attempts
    <3>1. /\ [old EXCEPT !.tries = n] \in Hooks
          /\ [old EXCEPT !.tries = n].tries = n
          /\ [old EXCEPT !.tries = n].st = "sending"
      BY <1>1, <1>s, <2>2 DEF Hooks
    <3>2. fanouts' = [fanouts EXCEPT ![k].hook[t] = [old EXCEPT !.tries = n]]
      BY <1>4, <2>4 DEF AttemptFails
    <3>3. n < Attempts
      BY <2>2, <2>4, PublisherAssumption
    <3>4. Shown(k, t, [old EXCEPT !.tries = n])
      BY <1>4, <2>4, <3>1, <3>3 DEF Shown, AttemptFails
    <3> QED
      BY <1>s, <3>1, <3>2, <3>3, <3>4
  <2> QED
    BY <2>3, <2>4
<1> QED
  BY <1>2, <1>3, <1>4

\* Every step keeps the types.
LEMMA PubTypeStep == Types /\ TriesLeft /\ [PubNext]_pubVars => Types'
<1> SUFFICES ASSUME Types, TriesLeft, [PubNext]_pubVars PROVE Types'
  OBVIOUS
<1>t. PubTypeOK /\ Len(fanouts) <= MaxFanouts
  BY DEF Types
<1>f. fanouts \in Seq(Fanout)
  BY <1>t DEF PubTypeOK, Fanout
<1>1. ASSUME NEW b \in Batches, Fanned(b) PROVE Types'
  <2> DEFINE new == [batch |-> b, toRedis |-> b,
                     hook |-> [t \in Targets |-> [st |-> "sending", tries |-> 0]]]
  <2>1. fanouts' = Append(fanouts, new) /\ sent' = sent \cup {b}
    BY <1>1 DEF Fanned, PublishFresh, PublishUnchecked, Schedule
  <2>2. new \in Fanout
    BY PublisherAssumption DEF Fanout, Hooks, Events
  <2>3. fanouts' \in Seq(Fanout) /\ Len(fanouts') <= MaxFanouts
    BY <1>1, <1>f, <1>t, <2>1, <2>2, PublisherAssumption DEF Fanned
  <2>4. reserved' \subseteq Batches /\ excused' \subseteq Batches
    BY <1>1, <1>t DEF Fanned, PublishFresh, PublishUnchecked, PubTypeOK
  <2> QED
    BY <1>1, <1>t, <2>1, <2>3, <2>4 DEF Types, PubTypeOK, Fanned, Fanout
<1>2. ASSUME NEW b \in Batches, KeyExpires(b) PROVE Types'
  BY <1>2, <1>t DEF KeyExpires, Types, PubTypeOK
<1>3. ASSUME NEW k \in DOMAIN fanouts, NEW e \in Events, RedisStep(k, e) PROVE Types'
  <2>1. k \in 1 .. Len(fanouts) /\ fanouts[k] \in Fanout
    BY <1>t, HookIsHook, Targeted
  <2>2. fanouts' \in Seq(Fanout) /\ Len(fanouts') = Len(fanouts)
    BY <1>3, <1>t, RedisMarks
  <2>3. k \in 1 .. MaxFanouts
    BY <2>1, <1>t, PublisherAssumption
  <2>4. channel' \in Seq([by : 1 .. MaxFanouts, event : Channelled])
    <3>1. channel \in Seq([by : 1 .. MaxFanouts, event : Channelled])
      BY <1>t DEF PubTypeOK
    <3>2. CASE channel' = channel
      BY <3>1, <3>2
    <3>3. CASE e \in Channelled /\ channel' = Append(channel, [by |-> k, event |-> e])
      BY <3>1, <3>3, <2>3
    <3> QED
      BY <1>3, <3>2, <3>3 DEF RedisStep
  <2> QED
    BY <1>3, <1>t, <2>2, <2>4 DEF RedisStep, pubHistory, Types, PubTypeOK, Fanout
<1>4. ASSUME NEW k \in DOMAIN fanouts, NEW t \in Targets,
             Delivered(k, t) \/ AttemptFails(k, t) \/ Aborted(k, t)
      PROVE  Types'
  <2>1. fanouts[k].hook[t] \in Hooks
    BY <1>t, HookIsHook
  <2>2. received' \in [Targets -> SUBSET Batches]
    BY <1>4, <1>t, AcceptsType DEF Delivered, AttemptFails, Aborted
  <2>3. PICK h \in Hooks : fanouts' = [fanouts EXCEPT ![k].hook[t] = h]
    BY <1>4, <1>t, HookChanges
  <2>4. fanouts' \in Seq(Fanout) /\ Len(fanouts') = Len(fanouts)
    BY <1>t, <2>3, HookType
  <2>5. /\ dlq' \in Seq(Letters) /\ Len(dlq') <= DlqCap
        /\ deaths' \in Seq(Letters)
    BY <1>4, <1>t, BuryType DEF Delivered, AttemptFails, Aborted, pubHistory, Types, PubTypeOK
  <2>6. UNCHANGED <<ctx, reserved, channel, emptied, sent, excused>>
    BY <1>4 DEF Delivered, AttemptFails, Aborted, pubHistory
  <2> QED
    BY <1>t, <2>2, <2>4, <2>5, <2>6 DEF Types, PubTypeOK, Fanout
<1>5. CASE DrainDeadLetterQueue
  BY <1>5, <1>t, PublisherAssumption DEF DrainDeadLetterQueue, Types, PubTypeOK
<1>6. CASE Stop
  BY <1>6, <1>t, PublisherAssumption DEF Stop, Types, PubTypeOK
<1>7. CASE Stays
  BY <1>7, <1>t DEF Stays, pubHistory, Types, PubTypeOK
<1> QED
  BY StepCases, <1>1, <1>2, <1>3, <1>4, <1>5, <1>6, <1>7

\* A delivery stops being under way with its last attempt.
LEMMA TriesStep == Types /\ TriesLeft /\ [PubNext]_pubVars => TriesLeft'
<1> SUFFICES ASSUME Types, TriesLeft, [PubNext]_pubVars PROVE TriesLeft'
  OBVIOUS
<1>t. PubTypeOK /\ fanouts \in Seq(Fanout)
  BY DEF Types, PubTypeOK, Fanout
<1>1. ASSUME NEW b \in Batches, Fanned(b) PROVE TriesLeft'
  <2> DEFINE new == [batch |-> b, toRedis |-> b,
                     hook |-> [t \in Targets |-> [st |-> "sending", tries |-> 0]]]
  <2>1. fanouts' = Append(fanouts, new)
    BY <1>1 DEF Fanned, PublishFresh, PublishUnchecked, Schedule
  <2>2. \A t \in Targets : new.hook[t].tries = 0
    OBVIOUS
  <2> HIDE DEF new
  <2>3. /\ DOMAIN fanouts' = DOMAIN fanouts \cup {Len(fanouts) + 1}
        /\ \A k \in DOMAIN fanouts : fanouts'[k] = fanouts[k]
        /\ fanouts'[Len(fanouts) + 1] = new
    BY <1>t, <2>1
  <2>4. ASSUME NEW k \in DOMAIN fanouts', NEW t \in Targets,
               fanouts'[k].hook[t].st = "sending"
        PROVE  fanouts'[k].hook[t].tries < Attempts
    <3>1. CASE k \in DOMAIN fanouts
      BY <2>3, <2>4, <3>1 DEF TriesLeft
    <3>2. CASE k = Len(fanouts) + 1
      BY <2>2, <2>3, <3>2, PublisherAssumption
    <3> QED
      BY <2>3, <3>1, <3>2
  <2> QED
    BY <2>4 DEF TriesLeft
<1>2. ASSUME NEW k \in DOMAIN fanouts, NEW e \in Events, RedisStep(k, e)
      PROVE  TriesLeft'
  BY <1>2, <1>t, RedisMarks DEF TriesLeft
<1>3. ASSUME NEW k \in DOMAIN fanouts, NEW t \in Targets,
             Delivered(k, t) \/ AttemptFails(k, t) \/ Aborted(k, t)
      PROVE  TriesLeft'
  <2>1. PICK h \in Hooks :
          /\ h.st = "sending" => h.tries < Attempts
          /\ fanouts' = [fanouts EXCEPT ![k].hook[t] = h]
    BY <1>3, <1>t, HookChanges
  <2>2. /\ Len(fanouts') = Len(fanouts) /\ fanouts' \in Seq(Fanout)
        /\ \A j \in DOMAIN fanouts, u \in Targets :
             fanouts'[j].hook[u] = (IF j = k /\ u = t THEN h
                                   ELSE fanouts[j].hook[u])
    BY <1>t, <2>1, HookType
  <2>3. DOMAIN fanouts' = DOMAIN fanouts
    BY <1>t, <2>2
  <2> QED
    BY <2>1, <2>2, <2>3 DEF TriesLeft
<1>4. ASSUME NEW b \in Batches, KeyExpires(b) PROVE TriesLeft'
  BY <1>4 DEF KeyExpires, TriesLeft
<1>5. CASE DrainDeadLetterQueue
  BY <1>5 DEF DrainDeadLetterQueue, TriesLeft
<1>6. CASE Stop
  BY <1>6 DEF Stop, TriesLeft
<1>7. CASE Stays
  BY <1>7 DEF Stays, TriesLeft
<1> QED
  BY StepCases, <1>1, <1>2, <1>3, <1>4, <1>5, <1>6, <1>7

-----------------------------------------------------------------------------
(* Fingerprints *)

\* Whatever was fanned out stays vouched for, or excused.
LEMMA SentStep == SentTracked /\ [PubNext]_pubVars => SentTracked'
<1> SUFFICES ASSUME SentTracked, [PubNext]_pubVars PROVE SentTracked'
  OBVIOUS
<1> USE DEF SentTracked
<1>1. ASSUME NEW b \in Batches, Fanned(b) PROVE SentTracked'
  BY <1>1 DEF Fanned, PublishFresh, PublishUnchecked, Schedule
<1>2. ASSUME NEW b \in Batches, KeyExpires(b) PROVE SentTracked'
  BY <1>2 DEF KeyExpires
<1>3. ASSUME NEW k \in DOMAIN fanouts, NEW e \in Events, RedisStep(k, e)
      PROVE  SentTracked'
  BY <1>3 DEF RedisStep, pubHistory
<1>4. ASSUME NEW k \in DOMAIN fanouts, NEW t \in Targets,
             Delivered(k, t) \/ AttemptFails(k, t) \/ Aborted(k, t)
      PROVE  SentTracked'
  BY <1>4 DEF Delivered, AttemptFails, Aborted, pubHistory
<1>5. CASE DrainDeadLetterQueue \/ Stop \/ Stays
  BY <1>5 DEF DrainDeadLetterQueue, Stop, Stays, pubHistory
<1> QED
  BY StepCases, <1>1, <1>2, <1>3, <1>4, <1>5

-----------------------------------------------------------------------------
(* Redis order *)

\* What is published goes behind all its fan-out has sent, and before the rest.
LEMMA OrderStep == Types /\ TriesLeft /\ Order /\ [PubNext]_pubVars => Order'
<1> SUFFICES ASSUME Types, TriesLeft, Order, [PubNext]_pubVars PROVE Order'
  OBVIOUS
<1>t. /\ PubTypeOK /\ fanouts \in Seq(Fanout)
      /\ channel \in Seq([by : 1 .. MaxFanouts, event : Channelled])
  BY DEF Types, PubTypeOK, Fanout
<1>o. ChannelBehind /\ RedisOrdered
  BY DEF Order
<1>1. ASSUME NEW b \in Batches, Fanned(b) PROVE Order'
  <2>1. channel' = channel
    BY <1>1 DEF Fanned
  <2>2. PICK new : fanouts' = Append(fanouts, new)
    BY <1>1 DEF Fanned, PublishFresh, PublishUnchecked, Schedule
  <2>3. \A k \in DOMAIN fanouts : k \in DOMAIN fanouts' /\ fanouts'[k] = fanouts[k]
    BY <1>t, <2>2
  <2>4. ChannelBehind'
    BY <1>o, <2>1, <2>3 DEF ChannelBehind
  <2> QED
    BY <1>o, <2>1, <2>4 DEF Order, RedisOrdered
<1>2. ASSUME NEW k \in DOMAIN fanouts, NEW e \in Events, RedisStep(k, e)
      PROVE  Order'
  <2>1. /\ DOMAIN fanouts' = DOMAIN fanouts
        /\ \A j \in DOMAIN fanouts :
             fanouts'[j].toRedis = (IF j = k THEN fanouts[k].toRedis \ {e}
                                    ELSE fanouts[j].toRedis)
    BY <1>2, <1>t, RedisMarks
  <2>2. /\ e \in fanouts[k].toRedis /\ \A f \in fanouts[k].toRedis : e <= f
        /\ fanouts[k].toRedis \subseteq Nat /\ e \in Nat
    <3>1. fanouts[k].toRedis \subseteq Events
      BY <1>t, Targeted, HookIsHook DEF Fanout
    <3> QED
      BY <1>2, <3>1, EventsOrdered DEF RedisStep
  <2>3. CASE channel' = channel
    <3>1. ChannelBehind'
      BY <1>o, <2>1, <2>3 DEF ChannelBehind
    <3> QED
      BY <1>o, <2>3, <3>1 DEF Order, RedisOrdered
  <2>4. CASE channel' = Append(channel, [by |-> k, event |-> e])
    <3>1. /\ DOMAIN channel' = DOMAIN channel \cup {Len(channel) + 1}
          /\ \A i \in DOMAIN channel : channel'[i] = channel[i] /\ i < Len(channel) + 1
          /\ channel'[Len(channel) + 1].by = k
          /\ channel'[Len(channel) + 1].event = e
          /\ ~(Len(channel) + 1 < Len(channel) + 1)
          /\ \A i \in DOMAIN channel : ~(Len(channel) + 1 < i)
      BY <1>t, <2>4
    <3>2. ChannelBehind'
      <4> SUFFICES ASSUME NEW i \in DOMAIN channel'
                   PROVE  /\ channel'[i].by \in DOMAIN fanouts'
                          /\ \A f \in fanouts'[channel'[i].by].toRedis :
                               channel'[i].event < f
        BY DEF ChannelBehind
      <4>1. CASE i \in DOMAIN channel
        BY <1>o, <2>1, <3>1, <4>1 DEF ChannelBehind
      <4>2. CASE i = Len(channel) + 1
        BY <2>1, <2>2, <3>1, <4>2
      <4> QED
        BY <3>1, <4>1, <4>2
    <3>3. RedisOrdered'
      <4> SUFFICES ASSUME NEW i \in DOMAIN channel', NEW j \in DOMAIN channel',
                          i < j, channel'[i].by = channel'[j].by
                   PROVE  channel'[i].event < channel'[j].event
        BY DEF RedisOrdered
      <4>1. i \in DOMAIN channel
        BY <3>1
      <4>2. CASE j \in DOMAIN channel
        BY <1>o, <3>1, <4>1, <4>2 DEF RedisOrdered
      <4>3. CASE j = Len(channel) + 1
        BY <1>o, <2>2, <3>1, <4>1, <4>3 DEF ChannelBehind
      <4> QED
        BY <3>1, <4>2, <4>3
    <3> QED
      BY <3>2, <3>3 DEF Order
  <2> QED
    BY <1>2, <2>3, <2>4 DEF RedisStep
<1>3. ASSUME NEW k \in DOMAIN fanouts, NEW t \in Targets,
             Delivered(k, t) \/ AttemptFails(k, t) \/ Aborted(k, t)
      PROVE  Order'
  <2>1. PICK h \in Hooks : fanouts' = [fanouts EXCEPT ![k].hook[t] = h]
    BY <1>3, <1>t, HookChanges
  <2>2. /\ Len(fanouts') = Len(fanouts) /\ fanouts' \in Seq(Fanout)
        /\ \A j \in DOMAIN fanouts : fanouts'[j].toRedis = fanouts[j].toRedis
    BY <1>t, <2>1, HookType
  <2>3. DOMAIN fanouts' = DOMAIN fanouts /\ channel' = channel
    BY <1>3, <1>t, <2>2 DEF Delivered, AttemptFails, Aborted
  <2>4. ChannelBehind'
    BY <1>o, <2>2, <2>3 DEF ChannelBehind
  <2> QED
    BY <1>o, <2>3, <2>4 DEF Order, RedisOrdered
<1>4. ASSUME NEW b \in Batches, KeyExpires(b) PROVE Order'
  BY <1>4 DEF KeyExpires, Order, ChannelBehind, RedisOrdered
<1>5. CASE DrainDeadLetterQueue
  BY <1>5 DEF DrainDeadLetterQueue, Order, ChannelBehind, RedisOrdered
<1>6. CASE Stop
  BY <1>6 DEF Stop, Order, ChannelBehind, RedisOrdered
<1>7. CASE Stays
  BY <1>7 DEF Stays, Order, ChannelBehind, RedisOrdered
<1> QED
  BY StepCases, <1>1, <1>2, <1>3, <1>4, <1>5, <1>6, <1>7

-----------------------------------------------------------------------------
(* Dead letters *)

\* The end of a history, and one more: the end of the longer history.
LEMMA TailAppend ==
  ASSUME NEW D \in Seq(Letters), NEW x \in Letters, NEW m \in 0 .. Len(D)
  PROVE  Append(SubSeq(D, m + 1, Len(D)), x)
           = SubSeq(Append(D, x), m + 1, Len(D) + 1)
<1> DEFINE A == SubSeq(D, m + 1, Len(D))
           E == Append(D, x)
           B == SubSeq(E, m + 1, Len(D) + 1)
<1>1. /\ E \in Seq(Letters) /\ Len(E) = Len(D) + 1 /\ E[Len(D) + 1] = x
      /\ \A i \in 1 .. Len(D) : E[i] = D[i]
  OBVIOUS
<1>2. /\ A \in Seq(Letters) /\ Len(A) = Len(D) - m
      /\ \A i \in 1 .. Len(D) - m : A[i] = D[m + i]
  <2>1. \A i \in m + 1 .. Len(D) : D[i] \in Letters
    OBVIOUS
  <2> QED
    BY <2>1, SubSeqProperties
<1>3. /\ B \in Seq(Letters) /\ Len(B) = Len(D) - m + 1
      /\ \A i \in 1 .. Len(D) - m + 1 : B[i] = E[m + i]
  <2>1. \A i \in m + 1 .. Len(D) + 1 : E[i] \in Letters
    BY <1>1
  <2> HIDE DEF E
  <2> QED
    BY <2>1, SubSeqProperties
<1> HIDE DEF A, B, E
<1>4. /\ Append(A, x) \in Seq(Letters) /\ Len(Append(A, x)) = Len(D) - m + 1
      /\ \A i \in 1 .. Len(D) - m : Append(A, x)[i] = D[m + i]
      /\ Append(A, x)[Len(D) - m + 1] = x
  BY <1>2
<1>5. \A i \in 1 .. Len(D) - m + 1 : Append(A, x)[i] = B[i]
  <2> SUFFICES ASSUME NEW i \in 1 .. Len(D) - m + 1 PROVE Append(A, x)[i] = B[i]
    OBVIOUS
  <2>1. CASE i = Len(D) - m + 1
    BY <1>1, <1>3, <1>4, <2>1
  <2>2. CASE i \in 1 .. Len(D) - m
    BY <1>1, <1>3, <1>4, <2>2
  <2>3. i = Len(D) - m + 1 \/ i \in 1 .. Len(D) - m
    OBVIOUS
  <2> QED
    BY <2>1, <2>2, <2>3, Zenon
<1>6. Append(A, x) = B
  BY <1>3, <1>4, <1>5, SeqEqual
<1> QED
  BY <1>6 DEF A, B, E

\* Where the queue begins in the history of letters.
TailStart(gone, dead) == IF gone >= dead - DlqCap THEN gone ELSE dead - DlqCap

\* It is what DlqKeepsNewest writes with Max.
LEMMA StartIsMax ==
  ASSUME NEW gone \in Nat, NEW dead \in Nat
  PROVE  Max({gone, dead - DlqCap}) = TailStart(gone, dead)
<1>1. dead - DlqCap \in Int
  BY PublisherAssumption
<1> QED
  BY <1>1, MaxPair DEF TailStart

\* The newest of a queue that holds the newest, and one more.
LEMMA NewestStep ==
  ASSUME NEW D \in Seq(Letters), NEW x \in Letters, NEW gone \in 0 .. Len(D)
  PROVE  Newest(Append(SubSeq(D, TailStart(gone, Len(D)) + 1, Len(D)), x))
           = SubSeq(Append(D, x), TailStart(gone, Len(D) + 1) + 1, Len(D) + 1)
<1> DEFINE L == Len(D)
           m == TailStart(gone, L)
           E == Append(D, x)
           Q == SubSeq(E, m + 1, L + 1)
<1>1. L \in Nat /\ DlqCap \in Nat \ {0} /\ gone \in 0 .. L
  BY PublisherAssumption
<1> HIDE DEF L
<1>2. m \in 0 .. L /\ L - m <= DlqCap
  BY <1>1 DEF TailStart
<1>3. Append(SubSeq(D, m + 1, L), x) = Q
  BY <1>2, TailAppend DEF L
<1>4. E \in Seq(Letters) /\ Len(E) = L + 1
  BY DEF L
<1> HIDE DEF E, m
<1>5. Q \in Seq(Letters) /\ Len(Q) = L - m + 1
  <2>1. \A i \in m + 1 .. L + 1 : E[i] \in Letters
    BY <1>1, <1>2, <1>4
  <2>2. m + 1 \in Int /\ L + 1 \in Int /\ m + 1 <= L + 1
    BY <1>1, <1>2
  <2>3. Len(Q) = (L + 1) - (m + 1) + 1 /\ Q \in Seq(Letters)
    BY <2>1, <2>2, SubSeqProperties
  <2> QED
    BY <1>1, <1>2, <2>3
<1>6. CASE L - m + 1 <= DlqCap
  <2>1. TailStart(gone, L + 1) = m
    BY <1>1, <1>6 DEF TailStart, m
  <2>2. Newest(Q) = Q
    BY <1>1, <1>2, <1>5, <1>6 DEF Newest
  <2> QED
    BY <1>3, <2>1, <2>2 DEF L, m, E
<1>7. CASE L - m = DlqCap
  <2>1. TailStart(gone, L + 1) = m + 1
    BY <1>1, <1>2, <1>7 DEF TailStart, m
  <2>2. Newest(Q) = SubSeq(Q, 2, DlqCap + 1)
    <3>1. Len(Q) = DlqCap + 1 /\ Len(Q) - DlqCap + 1 = 2 /\ Len(Q) > DlqCap
      BY <1>1, <1>5, <1>7
    <3> HIDE DEF Q
    <3> QED
      BY <3>1 DEF Newest
  <2>3. SubSeq(Q, 2, DlqCap + 1) = SubSeq(E, m + 2, L + 1)
    <3>1. /\ m + 1 \in 1 .. Len(E) /\ L + 1 \in 1 .. Len(E)
          /\ 2 \in 1 .. (L + 1) - (m + 1) + 1
          /\ DlqCap + 1 \in 1 .. (L + 1) - (m + 1) + 1
      BY <1>1, <1>2, <1>4, <1>7
    <3>2. SubSeq(Q, 2, DlqCap + 1)
            = SubSeq(E, (m + 1) + 2 - 1, (m + 1) + (DlqCap + 1) - 1)
      <4>1. \A i, j \in 1 .. Len(E) : \A a, b \in 1 .. j - i + 1 :
              SubSeq(SubSeq(E, i, j), a, b) = SubSeq(E, i + a - 1, i + b - 1)
        BY <1>4, SubSeqOfSubSeq
      <4> QED
        BY <3>1, <4>1
    <3>3. (m + 1) + 2 - 1 = m + 2 /\ (m + 1) + (DlqCap + 1) - 1 = L + 1
      BY <1>1, <1>2, <1>7
    <3> QED
      BY <3>2, <3>3
  <2>4. (m + 1) + 1 = m + 2
    BY <1>2
  <2> QED
    BY <1>3, <2>1, <2>2, <2>3, <2>4 DEF L, m, E
<1>8. L - m + 1 <= DlqCap \/ L - m = DlqCap
  BY <1>1, <1>2
<1> QED
  BY <1>6, <1>7, <1>8, Zenon

\* Every step leaves the queue the end of the letters buried.
LEMMA LetterStep == Types /\ Letterbox /\ [PubNext]_pubVars => Letterbox'
<1> SUFFICES ASSUME Types, Letterbox, [PubNext]_pubVars PROVE Letterbox'
  OBVIOUS
<1>t. PubTypeOK /\ deaths \in Seq(Letters) /\ emptied \in Nat /\ Len(deaths) \in Nat
  BY DEF Types, PubTypeOK
<1>l. /\ emptied <= Len(deaths)
      /\ dlq = SubSeq(deaths, TailStart(emptied, Len(deaths)) + 1, Len(deaths))
  <2>1. Max({emptied, Len(deaths) - DlqCap}) = TailStart(emptied, Len(deaths))
    BY <1>t, StartIsMax
  <2> QED
    BY <2>1 DEF Letterbox, DlqKeepsNewest
<1>s. ASSUME UNCHANGED <<dlq, deaths, emptied>> PROVE Letterbox'
  BY <1>s DEF Letterbox, DlqKeepsNewest
<1>b. ASSUME NEW k \in DOMAIN fanouts, NEW t \in Targets,
             Bury(k, t), emptied' = emptied
      PROVE  Letterbox'
  <2> DEFINE x == [by |-> k, target |-> t]
  <2>1. x \in Letters
    BY <1>t, HookIsHook, PublisherAssumption DEF Letters, Types
  <2>2. dlq' = Newest(Append(dlq, x)) /\ deaths' = Append(deaths, x)
    BY <1>b DEF Bury
  <2> HIDE DEF x
  <2>3. Len(deaths') = Len(deaths) + 1
    BY <1>t, <2>1, <2>2
  <2>4. dlq' = SubSeq(deaths', TailStart(emptied', Len(deaths')) + 1, Len(deaths'))
    <3>1. emptied \in 0 .. Len(deaths)
      BY <1>t, <1>l
    <3>2. Newest(Append(SubSeq(deaths, TailStart(emptied, Len(deaths)) + 1, Len(deaths)), x))
            = SubSeq(Append(deaths, x), TailStart(emptied, Len(deaths) + 1) + 1,
                     Len(deaths) + 1)
      BY <1>t, <2>1, <3>1, NewestStep
    <3> QED
      BY <1>b, <1>l, <2>2, <2>3, <3>2
  <2>5. Max({emptied', Len(deaths') - DlqCap}) = TailStart(emptied', Len(deaths'))
    BY <1>b, <1>t, <2>3, StartIsMax
  <2>6. emptied' <= Len(deaths')
    BY <1>b, <1>l, <1>t, <2>3
  <2> QED
    BY <2>4, <2>5, <2>6 DEF Letterbox, DlqKeepsNewest
<1>e. ASSUME dlq' = <<>>, deaths' \in Seq(Letters), emptied' = Len(deaths')
      PROVE  Letterbox'
  <2>1. Len(deaths') \in Nat
    BY <1>e
  <2>2. Max({emptied', Len(deaths') - DlqCap}) = Len(deaths')
    BY <1>e, <2>1, StartIsMax, PublisherAssumption DEF TailStart
  <2>3. SubSeq(deaths', Len(deaths') + 1, Len(deaths')) = <<>>
    BY <2>1, SubSeqEmpty
  <2>4. dlq' = SubSeq(deaths', Max({emptied', Len(deaths') - DlqCap}) + 1, Len(deaths'))
    BY <1>e, <2>2, <2>3
  <2>5. DlqKeepsNewest'
    BY ONLY <2>4, Zenon DEF DlqKeepsNewest
  <2> QED
    BY <1>e, <2>1, <2>5 DEF Letterbox
<1>1. ASSUME NEW b \in Batches, Fanned(b) \/ KeyExpires(b) PROVE Letterbox'
  BY <1>1, <1>s DEF Fanned, KeyExpires
<1>2. ASSUME NEW k \in DOMAIN fanouts, NEW e \in Events, RedisStep(k, e)
      PROVE  Letterbox'
  BY <1>2, <1>s DEF RedisStep, pubHistory
<1>3. ASSUME NEW k \in DOMAIN fanouts, NEW t \in Targets,
             Delivered(k, t) \/ AttemptFails(k, t) \/ Aborted(k, t)
      PROVE  Letterbox'
  BY <1>3, <1>s, <1>b DEF Delivered, AttemptFails, Aborted, pubHistory
<1>4. CASE DrainDeadLetterQueue
  BY <1>4, <1>e, <1>t DEF DrainDeadLetterQueue
<1>5. CASE Stop
  <2>1. deaths' \in Seq(Letters) /\ Len(deaths') = 0
    BY <1>5 DEF Stop
  <2> QED
    BY <1>5, <1>e, <2>1 DEF Stop
<1>6. CASE Stays
  BY <1>6, <1>s DEF Stays, pubHistory
<1> QED
  BY StepCases, <1>1, <1>2, <1>3, <1>4, <1>5, <1>6

-----------------------------------------------------------------------------
(* Accounts *)

\* Every step keeps the books: a letter for each delivery given up and for no
\* other, and for what counts as delivered an acceptance.
LEMMA BookedStep == Types /\ TriesLeft /\ Booked /\ [PubNext]_pubVars => Booked'
<1> SUFFICES ASSUME Types, TriesLeft, Booked, [PubNext]_pubVars PROVE Booked'
  OBVIOUS
<1>t. /\ PubTypeOK /\ fanouts \in Seq(Fanout)
      /\ deaths \in Seq(Letters) /\ Len(deaths) \in Nat
  BY DEF Types, PubTypeOK, Fanout
<1>b. /\ ctx = "down" => fanouts = <<>>
      /\ LettersFromDead /\ LettersDistinct /\ HooksBooked
  BY DEF Booked
<1>1. ASSUME NEW b \in Batches, Fanned(b) PROVE Booked'
  <2> DEFINE new == [batch |-> b, toRedis |-> b,
                     hook |-> [t \in Targets |-> [st |-> "sending", tries |-> 0]]]
  <2>1. fanouts' = Append(fanouts, new)
    BY <1>1 DEF Fanned, PublishFresh, PublishUnchecked, Schedule
  <2>2. \A t \in Targets : new.hook[t].st = "sending"
    OBVIOUS
  <2> HIDE DEF new
  <2>3. /\ DOMAIN fanouts' = DOMAIN fanouts \cup {Len(fanouts) + 1}
        /\ \A k \in DOMAIN fanouts : fanouts'[k] = fanouts[k]
        /\ fanouts'[Len(fanouts) + 1] = new
    BY <1>t, <2>1
  <2>4. UNCHANGED <<ctx, received, deaths>> /\ ctx # "down"
    BY <1>1 DEF Fanned, PublishFresh, PublishUnchecked
  <2>5. LettersFromDead'
    BY <1>b, <2>3, <2>4 DEF LettersFromDead, Dead
  <2>6. HooksBooked'
    <3>1. ASSUME NEW k \in DOMAIN fanouts', NEW t \in Targets
          PROVE  \/ k \in DOMAIN fanouts /\ fanouts'[k] = fanouts[k]
                 \/ fanouts'[k].hook[t].st = "sending"
      BY <2>2, <2>3
    <3> QED
      BY <1>b, <2>4, <3>1 DEF HooksBooked, Dead
  <2> QED
    BY <1>b, <2>4, <2>5, <2>6 DEF Booked, LettersDistinct
<1>2. ASSUME NEW b \in Batches, KeyExpires(b) PROVE Booked'
  BY <1>2, <1>b DEF KeyExpires, Booked, LettersFromDead, LettersDistinct,
     HooksBooked, Dead
<1>3. ASSUME NEW k \in DOMAIN fanouts, NEW e \in Events, RedisStep(k, e)
      PROVE  Booked'
  <2>1. /\ DOMAIN fanouts' = DOMAIN fanouts
        /\ \A j \in DOMAIN fanouts : /\ fanouts'[j].hook = fanouts[j].hook
                                     /\ fanouts'[j].batch = fanouts[j].batch
    BY <1>3, <1>t, RedisMarks
  <2>2. UNCHANGED <<ctx, received, deaths>> /\ ctx # "down"
    BY <1>3 DEF RedisStep, pubHistory
  <2>3. LettersFromDead'
    BY <1>b, <2>1, <2>2 DEF LettersFromDead, Dead
  <2>4. HooksBooked'
    BY <1>b, <2>1, <2>2 DEF HooksBooked, Dead
  <2> QED
    BY <1>b, <2>2, <2>3, <2>4 DEF Booked, LettersDistinct
<1>4. ASSUME NEW k \in DOMAIN fanouts, NEW t \in Targets,
             Delivered(k, t) \/ AttemptFails(k, t) \/ Aborted(k, t)
      PROVE  Booked'
  <2> DEFINE letter == [by |-> k, target |-> t]
  <2>1. PICK h \in Hooks :
          /\ fanouts[k].hook[t].st = "sending" /\ Shown(k, t, h)
          /\ fanouts' = [fanouts EXCEPT ![k].hook[t] = h]
    BY <1>4, <1>t, HookChanges
  <2>2. /\ DOMAIN fanouts' = DOMAIN fanouts
        /\ \A j \in DOMAIN fanouts, u \in Targets :
             /\ fanouts'[j].batch = fanouts[j].batch
             /\ fanouts'[j].hook[u] = (IF j = k /\ u = t THEN h
                                       ELSE fanouts[j].hook[u])
    <3>1. /\ fanouts' \in Seq(Fanout) /\ Len(fanouts') = Len(fanouts)
          /\ \A j \in DOMAIN fanouts, u \in Targets :
               /\ fanouts'[j].batch = fanouts[j].batch
               /\ fanouts'[j].hook[u] = (IF j = k /\ u = t THEN h
                                         ELSE fanouts[j].hook[u])
      BY <1>t, <2>1, HookType
    <3>2. DOMAIN fanouts' = DOMAIN fanouts
      BY ONLY <1>t, <3>1
    <3> QED
      BY <3>1, <3>2
  <2>3. ctx' = ctx /\ ctx # "down"
    BY <1>4 DEF Delivered, AttemptFails, Aborted
  <2>4. /\ \A u \in Targets : received[u] \subseteq received'[u]
        /\ Accepts(k, t) => fanouts[k].batch \in received'[t]
    BY <1>4, <1>t, AcceptsType DEF Delivered, AttemptFails, Aborted
  <2>5. h.st \in {"sending", "delivered", "dead"}
    BY DEF Hooks
  <2>6. letter \in Letters
    BY <1>t, HookIsHook, PublisherAssumption DEF Letters, Types
  <2>7. letter.by = k /\ letter.target = t
    OBVIOUS
  <2>8. \A i \in DOMAIN deaths : deaths[i] # letter
    BY <1>b, <2>1, <2>7 DEF LettersFromDead, Dead
  <2>9. \A i \in DOMAIN deaths : deaths[i].target \in Targets
    <3>1. \A l \in Letters : l.target \in Targets
      BY DEF Letters
    <3>2. \A i \in DOMAIN deaths : deaths[i] \in Letters
      BY <1>t
    <3> QED
      BY <3>1, <3>2
  <2>10. \A i \in DOMAIN deaths :
           /\ deaths[i].by \in DOMAIN fanouts'
           /\ fanouts'[deaths[i].by].hook[deaths[i].target].st = "dead"
    <3> SUFFICES ASSUME NEW i \in DOMAIN deaths
                 PROVE  /\ deaths[i].by \in DOMAIN fanouts'
                        /\ fanouts'[deaths[i].by].hook[deaths[i].target].st = "dead"
      OBVIOUS
    <3>1. /\ deaths[i].by \in DOMAIN fanouts
          /\ fanouts[deaths[i].by].hook[deaths[i].target].st = "dead"
      BY <1>b DEF LettersFromDead, Dead
    <3>2. ~(deaths[i].by = k /\ deaths[i].target = t)
      BY <2>1, <3>1
    <3> QED
      BY <2>2, <2>9, <3>1, <3>2
  <2> HIDE DEF letter
  <2>11. ASSUME NEW j \in DOMAIN fanouts, NEW u \in Targets, ~(j = k /\ u = t),
                \A i \in DOMAIN deaths : i \in DOMAIN deaths' /\ deaths'[i] = deaths[i]
         PROVE  /\ fanouts'[j].hook[u].st = "delivered"
                    => fanouts'[j].batch \in received'[u]
                /\ fanouts'[j].hook[u].st = "dead"
                    => \E i \in DOMAIN deaths' : deaths'[i] = [by |-> j, target |-> u]
                /\ fanouts'[j].hook[u].st = "dead" /\ ctx' = "up"
                    => fanouts'[j].hook[u].tries = Attempts
    <3>1. fanouts'[j].hook[u] = fanouts[j].hook[u] /\ fanouts'[j].batch = fanouts[j].batch
      BY <2>2, <2>11
    <3> QED
      BY <1>b, <2>3, <2>4, <2>11, <3>1 DEF HooksBooked, Dead
  <2>12. fanouts'[k].hook[t] = h /\ fanouts'[k].batch = fanouts[k].batch
    BY <2>2
  <2>13. CASE h.st # "dead"
    <3>1. deaths' = deaths /\ (h.st = "delivered" => Accepts(k, t))
      BY <2>1, <2>5, <2>13 DEF Shown
    <3>2. LettersFromDead'
      BY <2>10, <3>1 DEF LettersFromDead, Dead
    <3>3. HooksBooked'
      BY <2>2, <2>4, <2>11, <2>12, <2>13, <3>1 DEF HooksBooked, Dead
    <3> QED
      BY <1>b, <2>3, <3>1, <3>2, <3>3 DEF Booked, LettersDistinct
  <2>14. CASE h.st = "dead"
    <3>1. deaths' = Append(deaths, letter) /\ (ctx = "up" => h.tries = Attempts)
      BY <2>1, <2>14 DEF Shown, letter
    <3>2. /\ DOMAIN deaths' = DOMAIN deaths \cup {Len(deaths) + 1}
          /\ \A i \in DOMAIN deaths : deaths'[i] = deaths[i]
          /\ deaths'[Len(deaths) + 1] = letter
      BY <1>t, <2>6, <3>1
    <3>3. LettersFromDead'
      <4> SUFFICES ASSUME NEW i \in DOMAIN deaths'
                   PROVE  /\ deaths'[i].by \in DOMAIN fanouts'
                          /\ fanouts'[deaths'[i].by].hook[deaths'[i].target].st = "dead"
        BY DEF LettersFromDead, Dead
      <4>1. CASE i \in DOMAIN deaths
        BY <2>10, <3>2, <4>1
      <4>2. CASE i = Len(deaths) + 1
        BY <2>2, <2>7, <2>12, <2>14, <3>2, <4>2
      <4> QED
        BY <3>2, <4>1, <4>2
    <3>4. LettersDistinct'
      BY <1>b, <2>8, <3>2 DEF LettersDistinct
    <3>5. HooksBooked'
      <4> SUFFICES ASSUME NEW j \in DOMAIN fanouts', NEW u \in Targets
                   PROVE  /\ fanouts'[j].hook[u].st = "delivered"
                              => fanouts'[j].batch \in received'[u]
                          /\ fanouts'[j].hook[u].st = "dead"
                              => \E i \in DOMAIN deaths' :
                                   deaths'[i] = [by |-> j, target |-> u]
                          /\ fanouts'[j].hook[u].st = "dead" /\ ctx' = "up"
                              => fanouts'[j].hook[u].tries = Attempts
        BY DEF HooksBooked, Dead
      <4>1. CASE j = k /\ u = t
        <5>1. \E i \in DOMAIN deaths' : deaths'[i] = [by |-> j, target |-> u]
          BY <3>2, <4>1 DEF letter
        <5> QED
          BY <2>3, <2>12, <2>14, <3>1, <4>1, <5>1
      <4>2. CASE ~(j = k /\ u = t)
        <5>1. j \in DOMAIN fanouts
          BY <2>2
        <5> QED
          BY <2>11, <3>2, <4>2, <5>1
      <4> QED
        BY <4>1, <4>2
    <3> QED
      BY <2>3, <3>3, <3>4, <3>5 DEF Booked
  <2> QED
    BY <2>13, <2>14
<1>5. CASE DrainDeadLetterQueue
  BY <1>5, <1>b DEF DrainDeadLetterQueue, Booked, LettersFromDead,
     LettersDistinct, HooksBooked, Dead
<1>6. CASE Stop
  BY <1>6 DEF Stop, Booked, LettersFromDead, LettersDistinct, HooksBooked
<1>7. CASE Stays
  <2>1. /\ UNCHANGED <<fanouts, received, deaths>>
        /\ ctx' = "up" => ctx \in {"up", "down"}
        /\ ctx' = "down" => ctx = "down"
    BY <1>7 DEF Stays, pubHistory
  <2>2. ASSUME NEW k \in DOMAIN fanouts PROVE ctx # "down"
    BY <1>b, <2>2
  <2>3. HooksBooked'
    BY <1>b, <2>1, <2>2 DEF HooksBooked, Dead
  <2> QED
    BY <1>b, <2>1, <2>3 DEF Booked, LettersFromDead, LettersDistinct, Dead
<1> QED
  BY StepCases, <1>1, <1>2, <1>3, <1>4, <1>5, <1>6, <1>7

\* Books that are kept are accounts that add up: a delivery given up has one
\* letter, any other none.
LEMMA BooksAddUp == Booked => Accounted
<1> SUFFICES ASSUME Booked, NEW k \in DOMAIN fanouts, NEW t \in Targets
             PROVE  LET h == fanouts[k].hook[t]
                    IN  /\ h.st = "delivered" => fanouts[k].batch \in received[t]
                        /\ Cardinality(LettersOf(k, t))
                             = (IF h.st = "dead" THEN 1 ELSE 0)
                        /\ h.st = "dead" /\ ctx = "up" => h.tries = Attempts
  BY DEF Accounted
<1>b. LettersFromDead /\ LettersDistinct /\ HooksBooked
  BY DEF Booked
<1>1. /\ fanouts[k].hook[t].st = "delivered" => fanouts[k].batch \in received[t]
      /\ Dead(k, t) => \E i \in DOMAIN deaths : deaths[i] = [by |-> k, target |-> t]
      /\ Dead(k, t) /\ ctx = "up" => fanouts[k].hook[t].tries = Attempts
  BY <1>b DEF HooksBooked
<1>2. CASE Dead(k, t)
  <2>1. PICK i \in DOMAIN deaths : deaths[i] = [by |-> k, target |-> t]
    BY <1>1, <1>2
  <2>2. LettersOf(k, t) = {i}
    BY <1>b, <2>1 DEF LettersOf, LettersDistinct
  <2>3. Cardinality(LettersOf(k, t)) = 1
    BY <2>2, FS_Singleton
  <2> QED
    BY <1>1, <1>2, <2>3 DEF Dead
<1>3. CASE ~Dead(k, t)
  <2>1. LettersOf(k, t) = {}
    <3> SUFFICES ASSUME NEW i \in DOMAIN deaths, deaths[i] = [by |-> k, target |-> t]
                 PROVE  FALSE
      BY DEF LettersOf
    <3>1. deaths[i].by = k /\ deaths[i].target = t
      OBVIOUS
    <3> QED
      BY <1>3, <1>b, <3>1 DEF LettersFromDead
  <2>2. Cardinality(LettersOf(k, t)) = 0
    BY <2>1, FS_EmptySet
  <2> QED
    BY <1>1, <1>3, <2>2 DEF Dead
<1> QED
  BY <1>2, <1>3

-----------------------------------------------------------------------------
(* Theorems *)

\* The invariants hold together: each step keeps them, and Init has them.
LEMMA PubInductive == PubSpec => []PubInv
<1>1. PubInv /\ [PubNext]_pubVars => PubInv'
  BY PubTypeStep, TriesStep, OrderStep, LetterStep, BookedStep, SentStep DEF PubInv
<1> QED
  BY PubInitInv, <1>1, PTL DEF PubSpec

\* Every variable keeps its type: attempts stay within their number and the
\* dead-letter queue within its capacity (sendWithRetry, pushDeadLetter).
THEOREM PubTypeCorrect == PubSpec => []PubTypeOK
<1>1. PubInv => PubTypeOK
  BY DEF PubInv, Types
<1> QED
  BY <1>1, PubInductive, PTL

\* publishRedis keeps the order of a batch's events on the channel, whatever
\* the other goroutines, a cancellation or a lost publish do in between.
THEOREM FansOutInOrder == PubSpec => []RedisOrdered
<1>1. PubInv => RedisOrdered
  BY DEF PubInv, Order
<1> QED
  BY <1>1, PubInductive, PTL

\* pushDeadLetter forgets the oldest letters only: the queue is the end of
\* what was buried since DrainDeadLetterQueue, for every capacity.
THEOREM DlqHoldsTheNewest == PubSpec => []DlqKeepsNewest
<1>1. PubInv => DlqKeepsNewest
  BY DEF PubInv, Letterbox
<1> QED
  BY <1>1, PubInductive, PTL

\* sendWithRetry and its goroutine lose no delivery and bury none twice: what
\* counts as delivered was accepted, what was given up made one dead letter, and
\* while the context stands nothing is given up before its attempts are used.
THEOREM DeliveriesAccounted == PubSpec => []Accounted
<1>1. PubInv => Accounted
  BY BooksAddUp DEF PubInv
<1> QED
  BY <1>1, PubInductive, PTL

\* PublishBatch fans a batch out a second time only when Redis failed to
\* answer for it or its key ran out, whatever crashes come in between.
THEOREM NoRefanUnexcused == PubSpec => RefannedOnlyExcused
<1> DEFINE Again == Len(fanouts') > Len(fanouts) =>
                      LET b == Last(fanouts').batch
                      IN  b \in sent => b \in excused \cup excused'
<1>1. PubInv /\ [PubNext]_pubVars => [Again]_pubVars
  <2> SUFFICES ASSUME PubInv, [PubNext]_pubVars, Len(fanouts') > Len(fanouts)
               PROVE  Again
    OBVIOUS
  <2>t. /\ Types /\ TriesLeft /\ SentTracked /\ PubTypeOK
        /\ fanouts \in Seq(Fanout) /\ Len(fanouts) \in Nat
    BY DEF PubInv, Types, PubTypeOK, Fanout
  <2>1. ASSUME NEW b \in Batches, Fanned(b) PROVE Again
    <3> DEFINE new == [batch |-> b, toRedis |-> b,
                       hook |-> [t \in Targets |-> [st |-> "sending", tries |-> 0]]]
    <3>1. fanouts' = Append(fanouts, new) /\ new.batch = b
      BY <2>1 DEF Fanned, PublishFresh, PublishUnchecked, Schedule
    <3> HIDE DEF new
    <3>2. Last(fanouts') = new
      BY <2>t, <3>1 DEF Last
    <3>3. b \in sent => b \in excused \cup excused'
      BY <2>1, <2>t DEF Fanned, PublishFresh, PublishUnchecked, SentTracked
    <3> QED
      BY <3>1, <3>2, <3>3
  <2>2. ASSUME NEW k \in DOMAIN fanouts, NEW e \in Events, RedisStep(k, e)
        PROVE  Again
    <3>1. Len(fanouts') = Len(fanouts)
      BY <2>2, <2>t, RedisMarks
    <3> QED
      BY <2>t, <3>1
  <2>3. ASSUME NEW k \in DOMAIN fanouts, NEW t \in Targets,
               Delivered(k, t) \/ AttemptFails(k, t) \/ Aborted(k, t)
        PROVE  Again
    <3>1. PICK h \in Hooks : fanouts' = [fanouts EXCEPT ![k].hook[t] = h]
      BY <2>3, <2>t, HookChanges
    <3> QED
      BY <2>t, <3>1, HookType
  <2>4. ASSUME NEW b \in Batches, KeyExpires(b) PROVE Again
    BY <2>4, <2>t DEF KeyExpires
  <2>5. CASE DrainDeadLetterQueue \/ Stop \/ Stays
    BY <2>5, <2>t DEF DrainDeadLetterQueue, Stop, Stays
  <2> HIDE DEF Again
  <2> QED
    BY StepCases, <2>1, <2>2, <2>3, <2>4, <2>5
<1> QED
  BY <1>1, PubInductive, PTL DEF PubSpec, RefannedOnlyExcused

-----------------------------------------------------------------------------
(***************************************************************************)
(*                             The processor                               *)
(***************************************************************************)


\* Every usable log of the range (last, to] that was looked at is in S.
LookedAt(S) ==
  \A i \in Logs : last < BlockOf[i] /\ BlockOf[i] <= to /\ Usable(i)
                    /\ i \notin todo => i \in S

InBatch == {"collect", "recollect", "cursor", "progress", "publish"}

ClaimsIndexed ==
  /\ CursorCovered
  /\ job # NoJob => Indexed(job.last)
  /\ pc \in Live \cup Backfilling => Indexed(last)
  /\ pc = "finish" => goal <= last

BatchTracked ==
  /\ pc \in {"collect", "recollect"} => todo \subseteq InRange(last + 1, to)
  /\ pc \in {"cursor", "progress", "publish"} => todo = {}
  /\ pc \in InBatch => LookedAt(rows) /\ LookedAt(batch)
  /\ batch \subseteq rows

IInv == /\ TypeOK /\ ClaimsIndexed /\ BatchTracked
        /\ FannedPersisted /\ SwapsLinked /\ NothingSkipped

USE DEF Heights, NoRow, NoJob, Jobs, Logs, Live, Backfilling, InBatch

\* What the three range operators give, cited instead of expanded.
LEMMA InRangeSub == \A a, b : InRange(a, b) \subseteq Logs
  BY DEF InRange

\* Nothing is indexed, handed over or remembered before the first start.
LEMMA InitInv == Init => IInv
  BY ProcessorAssumption
  DEF Init, IInv, TypeOK, ClaimsIndexed, CursorCovered, Indexed, BatchTracked,
      LookedAt, FannedPersisted, SwapsLinked, NothingSkipped

-----------------------------------------------------------------------------
(* Type correctness. *)

\* Every step keeps the process within the chain and its states.
LEMMA TypeStep == TypeOK /\ [Next]_vars => TypeOK'
<1> SUFFICES ASSUME TypeOK, [Next]_vars PROVE TypeOK'
  OBVIOUS
<1> USE ProcessorAssumption DEF TypeOK, db, local, history
<1>1. CASE NewBlock BY <1>1 DEF NewBlock
<1>2. CASE Start BY <1>2 DEF Start
<1>3. CASE LoadCursor BY <1>3 DEF LoadCursor
<1>4. CASE LoadCursorFails BY <1>4 DEF LoadCursorFails
<1>5. CASE Poll BY <1>5, InRangeSub DEF Poll, AtMost
<1>6. CASE Collected BY <1>6 DEF Collected
<1>7. CASE AdvanceCursor BY <1>7 DEF AdvanceCursor
<1>8. CASE BatchFails
  <2>1. to \in Heights OBVIOUS
  <2>2. UNCHANGED <<rows, linked, job>> /\ cursor' \in {to, cursor}
    BY <1>8 DEF BatchFails
  <2>3. QED BY <1>8, <2>1, <2>2 DEF BatchFails
<1>9. ASSUME NEW i \in Logs, Collect(i) PROVE TypeOK' BY <1>9 DEF Collect
<1>10. CASE Publish BY <1>10 DEF Publish
<1>11. CASE BackfillResume BY <1>11 DEF BackfillResume
<1>12. CASE BackfillCreate BY <1>12 DEF BackfillCreate
<1>13. CASE BackfillNextBatch
  BY <1>13, InRangeSub DEF BackfillNextBatch, AtMost
<1>14. CASE UpdateBackfillProgress
  <2>1. [job EXCEPT !.last = to] \in Jobs OBVIOUS
  <2>2. job' \in Jobs BY <1>14, <2>1 DEF UpdateBackfillProgress
  <2>3. /\ pc' = "replay" /\ to' = 0 /\ batch' = {} /\ last' \in Heights
        /\ UNCHANGED <<head, rows, linked, cursor, goal, todo, fanned, base>>
    BY <1>14 DEF UpdateBackfillProgress
  <2>4. 0 \in Heights OBVIOUS
  <2> HIDE DEF Heights, Jobs
  <2>5. QED BY <2>2, <2>3, <2>4
<1>15. CASE CompleteBackfillJob BY <1>15 DEF CompleteBackfillJob
<1>16. CASE BackfillCursor
  <2>1. /\ cursor' \in Heights
        /\ UNCHANGED <<head, rows, linked, job, fanned>>
    BY <1>16 DEF BackfillCursor
  <2>2. CASE pc' = "boot" /\ UNCHANGED <<last, to, goal, todo, batch, base>>
    BY <2>1, <2>2
  <2>3. CASE Exit BY <2>1, <2>3 DEF Exit
  <2>4. QED BY <1>16, <2>2, <2>3 DEF BackfillCursor
<1>17. CASE BackfillFails BY <1>17 DEF BackfillFails, Exit
<1>18. CASE Crash BY <1>18 DEF Crash, Exit
<1>19. CASE UNCHANGED vars BY <1>19 DEF vars
<1>20. QED
  BY <1>1, <1>2, <1>3, <1>4, <1>5, <1>6, <1>7, <1>8, <1>9, <1>10, <1>11,
     <1>12, <1>13, <1>14, <1>15, <1>16, <1>17, <1>18, <1>19
  DEF Next, LiveStep, BackfillStep

(***************************************************************************)
(* Type correctness: in particular the cursor and every block number the   *)
(* process holds stay within the chain, whatever the batch size.           *)
(***************************************************************************)
THEOREM TypeCorrect == Spec => []TypeOK
<1>1. Init => TypeOK
  BY InitInv DEF IInv
<1>2. QED
  BY <1>1, TypeStep, PTL DEF Spec

-----------------------------------------------------------------------------
(* The inductive invariant. *)

\* Logs come in the order of their blocks.
LEMMA BlocksOrdered == ASSUME NEW i \in Logs PROVE
  /\ BlockOf[i] \in 1 .. MaxBlock
  /\ \A j \in Logs : i <= j => BlockOf[i] <= BlockOf[j]
BY ProcessorAssumption

\* Looking at one log keeps track of those passed over.
LEMMA CollectTracked ==
  ASSUME IInv, NEW i \in Logs, Collect(i)
  PROVE  IInv'
<1> USE ProcessorAssumption
<1> USE BlocksOrdered DEF IInv
<1>1. TypeOK' BY TypeStep DEF Next, LiveStep
<1>2. /\ UNCHANGED <<head, cursor, job, pc, last, to, goal, fanned, base>>
      /\ rows \subseteq rows' /\ pc \in {"collect", "recollect"}
      /\ todo' = todo \ {i}
  BY DEF Collect
<1>3. ClaimsIndexed'
  BY <1>1, <1>2 DEF ClaimsIndexed, CursorCovered, Indexed, TypeOK
<1>4. BatchTracked'
  <2>1. LookedAt(rows)' /\ LookedAt(batch)'
    BY <1>2 DEF Collect, BatchTracked, LookedAt, Usable
  <2>2. (todo \subseteq InRange(last + 1, to))'
    BY <1>2 DEF BatchTracked, InRange
  <2>3. (batch \subseteq rows)'
    BY DEF Collect, BatchTracked
  <2>4. QED BY <1>2, <2>1, <2>2, <2>3 DEF BatchTracked
<1>5. FannedPersisted'
  BY <1>2 DEF FannedPersisted
<1>6. SwapsLinked'
  <2>1. CASE ~(Kind[i] = "Swap" /\ i \notin rows)
    BY <2>1 DEF Collect, SwapsLinked, Usable
  <2>2. CASE Kind[i] = "Swap" /\ i \notin rows
    <3> SUFFICES ASSUME NEW s \in rows', NEW m \in Logs,
                        Kind[s] = "Swap", Kind[m] = "MarketCreated",
                        PoolOf[m] = PoolOf[s], m < s, StartBlock < BlockOf[m]
                 PROVE  s \in linked'
      BY DEF SwapsLinked
    <3>1. CASE s # i
      BY <3>1 DEF Collect, SwapsLinked
    <3>2. CASE s = i
      <4>1. BlockOf[m] <= BlockOf[i] /\ BlockOf[i] <= to /\ m \notin todo
        <5>1. i \in todo /\ (\A j \in todo : i <= j) BY DEF Collect
        <5>2. BlockOf[i] <= to BY <5>1, <1>2 DEF BatchTracked, InRange
        <5>3. m \notin todo BY <5>1, <3>2 DEF Logs
        <5>4. BlockOf[m] <= BlockOf[i] BY <3>2 DEF Logs
        <5>5. QED BY <5>2, <5>3, <5>4
      <4>2. m \in rows
        <5>1. CASE BlockOf[m] <= last
          BY <5>1, <1>2 DEF ClaimsIndexed, Indexed, Usable
        <5>2. CASE last < BlockOf[m]
          <6>1. BlockOf[m] <= to
            BY <4>1 DEF TypeOK
          <6>2. QED
            BY <5>2, <6>1, <4>1, <1>2 DEF BatchTracked, LookedAt, Usable
        <5>3. QED BY <5>1, <5>2 DEF TypeOK
      <4>3. PoolKnown(i) BY <4>2, <3>2 DEF PoolKnown
      <4>4. QED BY <4>3, <3>2, <2>2 DEF Collect, Usable
    <3>3. QED BY <3>1, <3>2
  <2>3. QED BY <2>1, <2>2
<1>7. NothingSkipped'
  BY <1>2 DEF NothingSkipped
<1>8. QED BY <1>1, <1>3, <1>4, <1>5, <1>6, <1>7

\* Once every log of the batch was looked at, its last block is indexed.
LEMMA BatchIndexed ==
  IInv /\ pc \in {"cursor", "progress", "publish"} => Indexed(to)
<1> SUFFICES ASSUME IInv, pc \in {"cursor", "progress", "publish"},
                    NEW i \in Logs, StartBlock < BlockOf[i],
                    BlockOf[i] <= to, Usable(i)
             PROVE  i \in rows
  BY DEF Indexed
<1>1. BlockOf[i] \in Nat /\ last \in Int
  BY ProcessorAssumption DEF IInv, TypeOK
<1>2. CASE BlockOf[i] <= last
  BY <1>2 DEF IInv, ClaimsIndexed, Indexed
<1>3. CASE last < BlockOf[i]
  BY <1>3 DEF IInv, BatchTracked, LookedAt
<1>4. QED BY <1>1, <1>2, <1>3

\* Every step of the live loop, of the backfill, of the chain and of a crash
\* preserves the invariant.
LEMMA InvStep == IInv /\ [Next]_vars => IInv'
<1> SUFFICES ASSUME IInv, [Next]_vars PROVE IInv'
  OBVIOUS
<1> USE ProcessorAssumption DEF IInv, db, local, history
<1>t. TypeOK /\ TypeOK' BY TypeStep
<1>a. ASSUME NEW i \in Logs, Collect(i) PROVE IInv'
  BY <1>a, CollectTracked
<1>b. CASE UNCHANGED vars
  <2>1. ClaimsIndexed'
    BY <1>b DEF vars, ClaimsIndexed, CursorCovered, Indexed
  <2>2. BatchTracked'
    BY <1>b DEF vars, BatchTracked, LookedAt, InRange
  <2>3. FannedPersisted' /\ SwapsLinked' /\ NothingSkipped'
    BY <1>b DEF vars, FannedPersisted, SwapsLinked, NothingSkipped
  <2>q. QED BY <1>t, <2>1, <2>2, <2>3
<1>1. CASE NewBlock
  <2>1. ClaimsIndexed'
    BY <1>t, <1>1 DEF NewBlock, ClaimsIndexed, CursorCovered, Indexed, TypeOK
  <2>2. BatchTracked'
    BY <1>t, <1>1 DEF NewBlock, BatchTracked, LookedAt, TypeOK
  <2>3. FannedPersisted' /\ SwapsLinked' /\ NothingSkipped'
    BY <1>t, <1>1
    DEF NewBlock, FannedPersisted, SwapsLinked, NothingSkipped,
        BatchTracked, TypeOK
  <2>q. QED BY <1>t, <2>1, <2>2, <2>3
<1>2. CASE Start
  <2>1. ClaimsIndexed'
    BY <1>t, <1>2 DEF Start, ClaimsIndexed, CursorCovered, Indexed, TypeOK
  <2>2. BatchTracked'
    BY <1>t, <1>2 DEF Start, BatchTracked, LookedAt, TypeOK
  <2>3. FannedPersisted' /\ SwapsLinked' /\ NothingSkipped'
    BY <1>t, <1>2
    DEF Start, FannedPersisted, SwapsLinked, NothingSkipped,
        BatchTracked, TypeOK
  <2>q. QED BY <1>t, <2>1, <2>2, <2>3
<1>3. CASE LoadCursor
  <2>1. ClaimsIndexed'
    BY <1>t, <1>3
    DEF LoadCursor, ClaimsIndexed, CursorCovered, Indexed, TypeOK
  <2>2. BatchTracked'
    BY <1>t, <1>3 DEF LoadCursor, BatchTracked, LookedAt, TypeOK
  <2>3. FannedPersisted' /\ SwapsLinked' /\ NothingSkipped'
    BY <1>t, <1>3
    DEF LoadCursor, FannedPersisted, SwapsLinked, NothingSkipped,
        BatchTracked, TypeOK
  <2>q. QED BY <1>t, <2>1, <2>2, <2>3
<1>4. CASE LoadCursorFails
  <2>1. ClaimsIndexed'
    BY <1>t, <1>4
    DEF LoadCursorFails, ClaimsIndexed, CursorCovered, Indexed, TypeOK
  <2>2. BatchTracked'
    BY <1>t, <1>4 DEF LoadCursorFails, BatchTracked, LookedAt, TypeOK
  <2>3. FannedPersisted' /\ SwapsLinked' /\ NothingSkipped'
    BY <1>t, <1>4
    DEF LoadCursorFails, FannedPersisted, SwapsLinked, NothingSkipped,
        BatchTracked, TypeOK
  <2>q. QED BY <1>t, <2>1, <2>2, <2>3
<1>5. CASE Poll
  <2>1. ClaimsIndexed'
    BY <1>t, <1>5
    DEF Poll, ClaimsIndexed, CursorCovered, Indexed, InRange, AtMost,
        TypeOK
  <2>2. BatchTracked'
    <3>1. /\ last' = last /\ rows' = rows /\ batch' = {} /\ pc' = "collect"
          /\ to' \in Heights /\ todo' = InRange(last + 1, to')
      BY <1>t, <1>5 DEF Poll, TypeOK, AtMost
    <3>2. \A i \in Logs : last < BlockOf[i] /\ BlockOf[i] <= to' => i \in todo'
      <4> SUFFICES ASSUME NEW i \in Logs, last < BlockOf[i], BlockOf[i] <= to'
                   PROVE  i \in todo'
        OBVIOUS
      <4>1. last \in Int /\ BlockOf[i] \in Int
        BY <1>t, BlocksOrdered DEF TypeOK
      <4> QED
        BY <3>1, <4>1 DEF InRange
    <3> QED
      BY <3>1, <3>2 DEF BatchTracked, LookedAt
  <2>3. FannedPersisted'
    BY <1>t, <1>5
    DEF Poll, FannedPersisted, InRange, AtMost, BatchTracked, TypeOK
  <2>4. SwapsLinked'
    BY <1>t, <1>5 DEF Poll, SwapsLinked, InRange, AtMost, TypeOK
  <2>5. NothingSkipped'
    BY <1>t, <1>5
    DEF Poll, NothingSkipped, InRange, AtMost, TypeOK, BatchTracked,
        LookedAt
  <2>q. QED BY <1>t, <2>1, <2>2, <2>3, <2>4, <2>5
<1>6. CASE Collected
  <2>1. ClaimsIndexed'
    BY <1>t, <1>6 DEF Collected, ClaimsIndexed, CursorCovered, Indexed, TypeOK
  <2>2. BatchTracked'
    BY <1>t, <1>6 DEF Collected, BatchTracked, LookedAt, TypeOK
  <2>3. FannedPersisted' /\ SwapsLinked' /\ NothingSkipped'
    BY <1>t, <1>6
    DEF Collected, FannedPersisted, SwapsLinked, NothingSkipped,
        BatchTracked, TypeOK
  <2>q. QED BY <1>t, <2>1, <2>2, <2>3
<1>7. CASE AdvanceCursor
  <2>1. ClaimsIndexed'
    BY <1>t, <1>7, BatchIndexed
    DEF AdvanceCursor, ClaimsIndexed, CursorCovered, Indexed
  <2>2. BatchTracked'
    BY <1>t, <1>7 DEF AdvanceCursor, BatchTracked, LookedAt, TypeOK
  <2>3. FannedPersisted'
    BY <1>t, <1>7 DEF AdvanceCursor, FannedPersisted, BatchTracked, TypeOK
  <2>4. SwapsLinked'
    BY <1>t, <1>7 DEF AdvanceCursor, SwapsLinked, TypeOK
  <2>5. NothingSkipped'
    BY <1>t, <1>7
    DEF AdvanceCursor, NothingSkipped, TypeOK, BatchTracked, LookedAt
  <2>q. QED BY <1>t, <2>1, <2>2, <2>3, <2>4, <2>5
<1>8. CASE BatchFails
  <2>1. ClaimsIndexed'
    <3>1. /\ rows' = rows /\ job' = job /\ last' = last
          /\ pc \in Live /\ pc' = "idle"
          /\ cursor' = cursor \/ (pc = "cursor" /\ cursor' = to)
      BY <1>8 DEF BatchFails
    <3>2. QED
      BY <1>t, <3>1, BatchIndexed DEF ClaimsIndexed, CursorCovered, Indexed
  <2>2. BatchTracked'
    BY <1>t, <1>8 DEF BatchFails, BatchTracked, LookedAt, TypeOK
  <2>3. FannedPersisted'
    BY <1>t, <1>8 DEF BatchFails, FannedPersisted, BatchTracked, TypeOK
  <2>4. SwapsLinked'
    BY <1>t, <1>8 DEF BatchFails, SwapsLinked, TypeOK
  <2>5. NothingSkipped'
    BY <1>t, <1>8
    DEF BatchFails, NothingSkipped, TypeOK, BatchTracked, LookedAt
  <2>q. QED BY <1>t, <2>1, <2>2, <2>3, <2>4, <2>5
<1>9. CASE Publish
  <2>1. ClaimsIndexed'
    BY <1>t, <1>9, BatchIndexed
    DEF Publish, ClaimsIndexed, CursorCovered, Indexed
  <2>2. BatchTracked'
    BY <1>t, <1>9 DEF Publish, BatchTracked, LookedAt, TypeOK
  <2>3. FannedPersisted'
    BY <1>t, <1>9 DEF Publish, FannedPersisted, BatchTracked, TypeOK
  <2>4. SwapsLinked'
    BY <1>t, <1>9 DEF Publish, SwapsLinked, TypeOK
  <2>5. NothingSkipped'
    BY <1>t, <1>9 DEF Publish, NothingSkipped, TypeOK, BatchTracked, LookedAt
  <2>q. QED BY <1>t, <2>1, <2>2, <2>3, <2>4, <2>5
<1>10. CASE BackfillResume
  <2>1. ClaimsIndexed'
    BY <1>t, <1>10
    DEF BackfillResume, ClaimsIndexed, CursorCovered, Indexed, TypeOK
  <2>2. BatchTracked'
    BY <1>t, <1>10 DEF BackfillResume, BatchTracked, LookedAt, TypeOK
  <2>3. FannedPersisted' /\ SwapsLinked' /\ NothingSkipped'
    BY <1>t, <1>10
    DEF BackfillResume, FannedPersisted, SwapsLinked, NothingSkipped,
        BatchTracked, TypeOK
  <2>q. QED BY <1>t, <2>1, <2>2, <2>3
<1>11. CASE BackfillCreate
  <2>1. ClaimsIndexed'
    BY <1>t, <1>11
    DEF BackfillCreate, ClaimsIndexed, CursorCovered, Indexed, TypeOK
  <2>2. BatchTracked'
    BY <1>t, <1>11 DEF BackfillCreate, BatchTracked, LookedAt, TypeOK
  <2>3. FannedPersisted' /\ SwapsLinked' /\ NothingSkipped'
    BY <1>t, <1>11
    DEF BackfillCreate, FannedPersisted, SwapsLinked, NothingSkipped,
        BatchTracked, TypeOK
  <2>q. QED BY <1>t, <2>1, <2>2, <2>3
<1>12. CASE BackfillNextBatch
  <2>1. ClaimsIndexed'
    BY <1>t, <1>12
    DEF BackfillNextBatch, ClaimsIndexed, CursorCovered, Indexed,
        InRange, AtMost, TypeOK
  <2>2. BatchTracked'
    BY <1>t, <1>12
    DEF BackfillNextBatch, BatchTracked, LookedAt, InRange, AtMost,
        TypeOK
  <2>3. FannedPersisted'
    BY <1>t, <1>12
    DEF BackfillNextBatch, FannedPersisted, InRange, AtMost,
        BatchTracked, TypeOK
  <2>4. SwapsLinked'
    BY <1>t, <1>12 DEF BackfillNextBatch, SwapsLinked, InRange, AtMost, TypeOK
  <2>5. NothingSkipped'
    BY <1>t, <1>12
    DEF BackfillNextBatch, NothingSkipped, InRange, AtMost, TypeOK,
        BatchTracked, LookedAt
  <2>q. QED BY <1>t, <2>1, <2>2, <2>3, <2>4, <2>5
<1>13. CASE UpdateBackfillProgress
  <2>1. ClaimsIndexed'
    <3>1. job'.last = to /\ last' = to /\ pc' = "replay"
          /\ rows' = rows /\ cursor' = cursor
      BY <1>t, <1>13 DEF UpdateBackfillProgress, TypeOK
    <3>2. Indexed(to)
      BY <1>13, BatchIndexed DEF UpdateBackfillProgress
    <3>3. Indexed(last)' /\ (job # NoJob => Indexed(job.last))'
      BY <3>1, <3>2 DEF Indexed
    <3>4. CursorCovered'
      BY <3>1 DEF ClaimsIndexed, CursorCovered, Indexed
    <3>5. QED
      BY <3>1, <3>3, <3>4 DEF ClaimsIndexed
  <2>2. BatchTracked'
    BY <1>t, <1>13 DEF UpdateBackfillProgress, BatchTracked, LookedAt, TypeOK
  <2>3. FannedPersisted'
    BY <1>t, <1>13
    DEF UpdateBackfillProgress, FannedPersisted, BatchTracked, TypeOK
  <2>4. SwapsLinked'
    BY <1>t, <1>13 DEF UpdateBackfillProgress, SwapsLinked, TypeOK
  <2>5. NothingSkipped'
    BY <1>t, <1>13
    DEF UpdateBackfillProgress, NothingSkipped, TypeOK, BatchTracked,
        LookedAt
  <2>q. QED BY <1>t, <2>1, <2>2, <2>3, <2>4, <2>5
<1>14. CASE CompleteBackfillJob
  <2>1. ClaimsIndexed'
    BY <1>t, <1>14
    DEF CompleteBackfillJob, ClaimsIndexed, CursorCovered, Indexed,
        TypeOK
  <2>2. BatchTracked'
    BY <1>t, <1>14 DEF CompleteBackfillJob, BatchTracked, LookedAt, TypeOK
  <2>3. FannedPersisted' /\ SwapsLinked' /\ NothingSkipped'
    BY <1>t, <1>14
    DEF CompleteBackfillJob, FannedPersisted, SwapsLinked,
        NothingSkipped, BatchTracked, TypeOK
  <2>q. QED BY <1>t, <2>1, <2>2, <2>3
<1>15. CASE BackfillCursor
  <2>1. ClaimsIndexed'
    <3>1. /\ cursor' = goal /\ goal <= last /\ last \in Heights /\ goal \in Heights
          /\ Indexed(last) /\ (job # NoJob => Indexed(job.last))
          /\ job' = job /\ rows' = rows /\ pc' \in {"boot", "down"}
      BY <1>t, <1>15 DEF BackfillCursor, Exit, ClaimsIndexed, TypeOK
    <3>2. \A b : Indexed(b)' <=> Indexed(b)
      BY <3>1 DEF Indexed
    <3>3. Indexed(goal)
      BY <3>1, BlocksOrdered DEF Indexed
    <3> QED
      BY <3>1, <3>2, <3>3 DEF ClaimsIndexed, CursorCovered
  <2>2. BatchTracked'
    BY <1>t, <1>15 DEF BackfillCursor, BatchTracked, LookedAt, Exit, TypeOK
  <2>3. FannedPersisted'
    BY <1>t, <1>15
    DEF BackfillCursor, FannedPersisted, Exit, BatchTracked, TypeOK
  <2>4. SwapsLinked'
    BY <1>t, <1>15 DEF BackfillCursor, SwapsLinked, Exit, TypeOK
  <2>5. NothingSkipped'
    BY <1>t, <1>15
    DEF BackfillCursor, NothingSkipped, Exit, TypeOK, BatchTracked,
        LookedAt
  <2>q. QED BY <1>t, <2>1, <2>2, <2>3, <2>4, <2>5
<1>16. CASE BackfillFails
  <2>1. ClaimsIndexed'
    BY <1>t, <1>16
    DEF BackfillFails, ClaimsIndexed, CursorCovered, Indexed, Exit,
        TypeOK
  <2>2. BatchTracked'
    BY <1>t, <1>16 DEF BackfillFails, BatchTracked, LookedAt, Exit, TypeOK
  <2>3. FannedPersisted' /\ SwapsLinked' /\ NothingSkipped'
    BY <1>t, <1>16
    DEF BackfillFails, FannedPersisted, SwapsLinked, NothingSkipped,
        Exit, BatchTracked, TypeOK
  <2>q. QED BY <1>t, <2>1, <2>2, <2>3
<1>17. CASE Crash
  <2>1. ClaimsIndexed'
    BY <1>t, <1>17
    DEF Crash, ClaimsIndexed, CursorCovered, Indexed, Exit, TypeOK
  <2>2. BatchTracked'
    BY <1>t, <1>17 DEF Crash, BatchTracked, LookedAt, Exit, TypeOK
  <2>3. FannedPersisted' /\ SwapsLinked' /\ NothingSkipped'
    BY <1>t, <1>17
    DEF Crash, FannedPersisted, SwapsLinked, NothingSkipped, Exit,
        BatchTracked, TypeOK
  <2>q. QED BY <1>t, <2>1, <2>2, <2>3
<1>q. QED
  BY <1>a, <1>b, <1>1, <1>2, <1>3, <1>4, <1>5, <1>6, <1>7, <1>8, <1>9, <1>10,
     <1>11, <1>12, <1>13, <1>14, <1>15, <1>16, <1>17
  DEF Next, LiveStep, BackfillStep

\* The invariant holds in every state the processor reaches.
LEMMA Inductive == Spec => []IInv
  BY InitInv, InvStep, PTL DEF Spec

(***************************************************************************)
(* The cursor never claims a block that is not fully indexed.              *)
(***************************************************************************)
THEOREM CursorSafe == Spec => []CursorCovered
<1>1. IInv => CursorCovered BY DEF IInv, ClaimsIndexed
<1>2. QED BY Inductive, <1>1, PTL

(***************************************************************************)
(* Consumers are only handed events that are in the tables (i9).           *)
(***************************************************************************)
THEOREM FanoutAfterPersist == Spec => []FannedPersisted
<1>1. IInv => FannedPersisted BY DEF IInv
<1>2. QED BY Inductive, <1>1, PTL

(***************************************************************************)
(* Every stored swap whose pool was created above StartBlock carries the   *)
(* pool's address.                                                         *)
(***************************************************************************)
THEOREM SwapsAlwaysLinked == Spec => []SwapsLinked
<1>1. IInv => SwapsLinked BY DEF IInv
<1>2. QED BY Inductive, <1>1, PTL

(***************************************************************************)
(* The live loop hands over every usable log of the blocks it has passed.  *)
(***************************************************************************)
THEOREM LiveLoopComplete == Spec => []NothingSkipped
<1>1. IInv => NothingSkipped BY DEF IInv
<1>2. QED BY Inductive, <1>1, PTL
=============================================================================
