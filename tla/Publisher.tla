----------------------------- MODULE Publisher -----------------------------
(***************************************************************************)
(* The indexer's fan-out (src/core/indexer/internal/publisher): a batch of *)
(* events goes to Redis pub/sub, one goroutine per batch, and to every     *)
(* webhook target, one goroutine per target with retries and an in-memory  *)
(* dead-letter queue.  A fingerprint reserved in Redis keeps a batch that  *)
(* is handed over again, after a restart, from being fanned out twice.     *)
(*                                                                         *)
(* All goroutines run under the context that app.Run cancels before it     *)
(* calls Disconnect.  An event is its position in chain order; a batch is  *)
(* a non-empty set of them, so also its own fingerprint.                   *)
(*                                                                         *)
(* The prefix Pub tells this module's specification from Processor's where *)
(* both are extended (IndexerProofs).                                      *)
(***************************************************************************)
EXTENDS Integers, Sequences, FiniteSets, SequencesExt, FiniteSetsExt

CONSTANTS
  Batches,    \* the batches the processor may hand over
  Channelled, \* the events whose name has a Redis channel
  Targets,    \* the webhook targets
  Attempts,   \* tries per delivery
  DlqCap,     \* capacity of the dead-letter queue
  MaxFanouts  \* bound: fan-outs per life of the process

Events == UNION Batches

ASSUME PublisherAssumption ==
  /\ {} \notin Batches /\ Events \subseteq Nat /\ Channelled \subseteq Events
  /\ Targets # {}
  /\ Attempts \in Nat \ {0} /\ DlqCap \in Nat \ {0} /\ MaxFanouts \in Nat

VARIABLES
  ctx,      \* "up", "cancelled", "drained" (Disconnect returned), "down"
  reserved, \* the fingerprints alive in Redis
  fanouts,  \* the fan-outs of this process, in the order they were scheduled
  channel,  \* what this process sent Redis subscribers, in order
  received, \* the batches each target has accepted
  dlq,      \* the dead-letter queue
  deaths,   \* history: every dead letter of this process
  emptied,  \* history: how many of those the operator has drained
  sent,     \* history: the batches ever fanned out
  excused   \* history: those whose fingerprint is gone or was not written

pubHistory == <<deaths, emptied, sent, excused>>
pubVars == <<ctx, reserved, fanouts, channel, received, dlq, deaths, emptied,
             sent, excused>>

Hooks == [st : {"sending", "delivered", "dead"}, tries : 0 .. Attempts]
Letters == [by : 1 .. MaxFanouts, target : Targets]

PubTypeOK ==
  /\ ctx \in {"up", "cancelled", "drained", "down"}
  /\ reserved \subseteq Batches /\ excused \subseteq Batches
  /\ sent \subseteq Batches /\ emptied \in Nat
  /\ fanouts \in Seq([batch : Batches, toRedis : SUBSET Events,
                      hook : [Targets -> Hooks]])
  /\ channel \in Seq([by : 1 .. MaxFanouts, event : Channelled])
  /\ received \in [Targets -> SUBSET Batches]
  /\ dlq \in Seq(Letters) /\ Len(dlq) <= DlqCap
  /\ deaths \in Seq(Letters)

PubInit ==
  /\ ctx = "up"
  /\ reserved = {} /\ sent = {} /\ excused = {} /\ emptied = 0
  /\ fanouts = <<>> /\ channel = <<>> /\ dlq = <<>> /\ deaths = <<>>
  /\ received = [t \in Targets |-> {}]

-----------------------------------------------------------------------------
(* PublishBatch *)

Schedule(b) ==
  /\ fanouts' = Append(fanouts,
       [batch |-> b, toRedis |-> b,
        hook |-> [t \in Targets |-> [st |-> "sending", tries |-> 0]]])
  /\ sent' = sent \cup {b}

\* Mutant of PublishFresh: the answer of SET NX is not looked at.
PublishFreshBlind(b) ==
  /\ ctx = "up"
  /\ reserved' = reserved \cup {b}
  /\ excused' = excused \ {b}
  /\ Schedule(b)

\* SET NX of the fingerprint succeeded: a batch not seen before.
PublishFresh(b) ==
  /\ ctx = "up" /\ b \notin reserved
  /\ reserved' = reserved \cup {b}
  /\ excused' = excused \ {b}
  /\ Schedule(b)

\* The reservation failed: delivery goes ahead without it.  The key may have
\* been written all the same.  Under a cancelled context it always fails.
PublishUnchecked(b) ==
  /\ ctx \in {"up", "cancelled"}
  /\ reserved' \in {reserved, reserved \cup {b}}
  /\ excused' = excused \cup {b}
  /\ Schedule(b)

\* A duplicate is dropped; there is nothing to schedule.
PublishDuplicate(b) ==
  /\ ctx = "up" /\ b \in reserved
  /\ UNCHANGED <<reserved, fanouts, sent, excused>>

PublishBatch(b) ==
  /\ Len(fanouts) < MaxFanouts
  /\ PublishFresh(b) \/ PublishUnchecked(b) \/ PublishDuplicate(b)
  /\ UNCHANGED <<ctx, channel, received, dlq, deaths, emptied>>

\* The key's time to live is over.
KeyExpires(b) ==
  /\ b \in reserved
  /\ reserved' = reserved \ {b}
  /\ excused' = excused \cup {b}
  /\ UNCHANGED <<ctx, fanouts, channel, received, dlq, deaths, emptied, sent>>

-----------------------------------------------------------------------------
(* publishRedis: the batch's events in order, failures passed over. *)

\* Mutant of RedisStep: a goroutine per event.
RedisStepAnyOrder(k, e) ==
  /\ ctx \in {"up", "cancelled"}
  /\ e \in fanouts[k].toRedis
  /\ fanouts' = [fanouts EXCEPT ![k].toRedis = @ \ {e}]
  /\ \/ /\ ctx = "up" /\ e \in Channelled
        /\ channel' = Append(channel, [by |-> k, event |-> e])
     \/ UNCHANGED channel
  /\ UNCHANGED <<ctx, reserved, received, dlq, pubHistory>>

RedisStep(k, e) ==
  /\ ctx \in {"up", "cancelled"}
  /\ e \in fanouts[k].toRedis /\ \A f \in fanouts[k].toRedis : e <= f
  /\ fanouts' = [fanouts EXCEPT ![k].toRedis = @ \ {e}]
  /\ \/ /\ ctx = "up" /\ e \in Channelled
        /\ channel' = Append(channel, [by |-> k, event |-> e])
     \/ UNCHANGED channel
  /\ UNCHANGED <<ctx, reserved, received, dlq, pubHistory>>

-----------------------------------------------------------------------------
(* sendWithRetry, and the goroutine around it. *)

\* Mutants of Newest: the bound forgotten; the bound kept at the wrong end.
NewestUnbounded(q) == q
NewestOldest(q) == IF Len(q) > DlqCap THEN SubSeq(q, 1, DlqCap) ELSE q

Newest(q) == IF Len(q) > DlqCap THEN SubSeq(q, Len(q) - DlqCap + 1, Len(q))
             ELSE q

\* pushDeadLetter
Bury(k, t) ==
  LET letter == [by |-> k, target |-> t]
  IN  /\ dlq' = Newest(Append(dlq, letter))
      /\ deaths' = Append(deaths, letter)

Sending(k, t) == k \in DOMAIN fanouts /\ fanouts[k].hook[t].st = "sending"
Accepts(k, t) == received' = [received EXCEPT ![t] = @ \cup {fanouts[k].batch}]

\* A 2xx answer.
Delivered(k, t) ==
  /\ ctx = "up" /\ Sending(k, t)
  /\ Accepts(k, t)
  /\ fanouts' = [fanouts EXCEPT ![k].hook[t].st = "delivered"]
  /\ UNCHANGED <<ctx, reserved, channel, dlq, pubHistory>>

\* Mutant of AttemptFails: the last attempt is never made.
AttemptFailsEarly(k, t) ==
  /\ ctx = "up" /\ Sending(k, t)
  /\ UNCHANGED received \/ Accepts(k, t)
  /\ LET n == fanouts[k].hook[t].tries + 1
     IN  IF n >= Attempts - 1
         THEN /\ fanouts' = [fanouts EXCEPT ![k].hook[t] =
                                 [st |-> "dead", tries |-> n]]
              /\ Bury(k, t)
         ELSE /\ fanouts' = [fanouts EXCEPT ![k].hook[t].tries = n]
              /\ UNCHANGED <<dlq, deaths>>
  /\ UNCHANGED <<ctx, reserved, channel, emptied, sent, excused>>

\* Mutant of AttemptFails: the count starts again instead of ending the loop.
AttemptFailsForever(k, t) ==
  /\ ctx = "up" /\ Sending(k, t)
  /\ UNCHANGED received \/ Accepts(k, t)
  /\ fanouts' = [fanouts EXCEPT ![k].hook[t].tries = (@ + 1) % Attempts]
  /\ UNCHANGED <<ctx, reserved, channel, dlq, pubHistory>>

\* No answer, or not a 2xx: the target may have taken the batch all the same.
AttemptFails(k, t) ==
  /\ ctx = "up" /\ Sending(k, t)
  /\ UNCHANGED received \/ Accepts(k, t)
  /\ LET n == fanouts[k].hook[t].tries + 1
     IN  IF n = Attempts
         THEN /\ fanouts' = [fanouts EXCEPT ![k].hook[t] =
                                 [st |-> "dead", tries |-> n]]
              /\ Bury(k, t)
         ELSE /\ fanouts' = [fanouts EXCEPT ![k].hook[t].tries = n]
              /\ UNCHANGED <<dlq, deaths>>
  /\ UNCHANGED <<ctx, reserved, channel, emptied, sent, excused>>

\* The context is checked before an attempt, during it and in the backoff.
Aborted(k, t) ==
  /\ ctx = "cancelled" /\ Sending(k, t)
  /\ UNCHANGED received \/ Accepts(k, t)
  /\ fanouts' = [fanouts EXCEPT ![k].hook[t].st = "dead"]
  /\ Bury(k, t)
  /\ UNCHANGED <<ctx, reserved, channel, emptied, sent, excused>>

\* The operator empties the queue (httpapi/status.go): the letters are counted
\* in the answer and dropped.
DrainDeadLetterQueue ==
  /\ ctx \in {"up", "cancelled"}
  /\ dlq' = <<>>
  /\ emptied' = Len(deaths)
  /\ UNCHANGED <<ctx, reserved, fanouts, channel, received, deaths, sent, excused>>

-----------------------------------------------------------------------------
(* app.Run's end, and restarts. *)

Cancel ==
  /\ ctx = "up"
  /\ ctx' = "cancelled"
  /\ UNCHANGED <<reserved, fanouts, channel, received, dlq, pubHistory>>

AllDone ==
  \A k \in DOMAIN fanouts :
    /\ fanouts[k].toRedis = {}
    /\ \A t \in Targets : ~Sending(k, t)

\* Disconnect: every goroutine of the wait group has returned.
Disconnect ==
  /\ ctx = "cancelled" /\ AllDone
  /\ ctx' = "drained"
  /\ UNCHANGED <<reserved, fanouts, channel, received, dlq, pubHistory>>

\* A kill, the ten seconds of Disconnect running out, or the exit after it:
\* the goroutines and the dead-letter queue are only in memory.
Stop ==
  /\ ctx # "down"
  /\ ctx' = "down"
  /\ fanouts' = <<>> /\ channel' = <<>> /\ dlq' = <<>> /\ deaths' = <<>>
  /\ emptied' = 0
  /\ UNCHANGED <<reserved, received, sent, excused>>

Restart ==
  /\ ctx = "down"
  /\ ctx' = "up"
  /\ UNCHANGED <<reserved, fanouts, channel, received, dlq, pubHistory>>

-----------------------------------------------------------------------------

Deliver(k, t) == Delivered(k, t) \/ AttemptFails(k, t) \/ Aborted(k, t)

PubNext ==
  \/ \E b \in Batches : PublishBatch(b) \/ KeyExpires(b)
  \/ \E k \in DOMAIN fanouts :
       \/ \E e \in Events : RedisStep(k, e)
       \/ \E t \in Targets : Deliver(k, t)
  \/ DrainDeadLetterQueue \/ Cancel \/ Disconnect \/ Stop \/ Restart

\* Each goroutine runs: its requests are bounded by the client's timeout and
\* its backoffs by a timer.
PubFairness ==
  \A k \in 1 .. MaxFanouts :
    /\ WF_pubVars(k \in DOMAIN fanouts /\ \E e \in Events : RedisStep(k, e))
    /\ \A t \in Targets : WF_pubVars(k \in DOMAIN fanouts /\ Deliver(k, t))

PubSpec == PubInit /\ [][PubNext]_pubVars
PubFairSpec == PubSpec /\ PubFairness /\ WF_pubVars(Disconnect)

-----------------------------------------------------------------------------
(***************************************************************************)
(* Every delivery is accounted for: what counts as delivered was accepted, *)
(* what was given up made exactly one dead letter, and while the context   *)
(* stands nothing is given up before its attempts are used (PublishBatch,  *)
(* sendWithRetry).                                                         *)
(***************************************************************************)
LettersOf(k, t) == {i \in DOMAIN deaths : deaths[i] = [by |-> k, target |-> t]}

Accounted ==
  \A k \in DOMAIN fanouts, t \in Targets :
    LET h == fanouts[k].hook[t]
    IN  /\ h.st = "delivered" => fanouts[k].batch \in received[t]
        /\ Cardinality(LettersOf(k, t)) = (IF h.st = "dead" THEN 1 ELSE 0)
        /\ h.st = "dead" /\ ctx = "up" => h.tries = Attempts

(***************************************************************************)
(* The bounded queue forgets only its oldest letters: it holds the newest  *)
(* DlqCap of those buried since it was last emptied (pushDeadLetter).      *)
(***************************************************************************)
DlqKeepsNewest ==
  dlq = SubSeq(deaths, Max({emptied, Len(deaths) - DlqCap}) + 1, Len(deaths))

(***************************************************************************)
(* A batch is fanned out a second time only if Redis did not answer for it *)
(* or its fingerprint ran out: crashes and restarts alone never re-fan it  *)
(* ("so neither path re-fans it", PublishBatch).                           *)
(***************************************************************************)
RefannedOnlyExcused ==
  [][Len(fanouts') > Len(fanouts) =>
       LET b == Last(fanouts').batch
       IN  b \in sent => b \in excused \cup excused']_pubVars

(***************************************************************************)
(* Subscribers see each batch's events in chain order, each at most once,  *)
(* whatever the goroutines of other batches do in between ("so the         *)
(* per-event publish order is preserved").                                 *)
(***************************************************************************)
RedisOrdered ==
  \A i, j \in DOMAIN channel :
    i < j /\ channel[i].by = channel[j].by
      => channel[i].event < channel[j].event

(***************************************************************************)
(* Every scheduled delivery ends, in an acceptance or a dead letter, or    *)
(* with the process.                                                       *)
(***************************************************************************)
DeliveriesEnd ==
  \A k \in 1 .. MaxFanouts, t \in Targets : Sending(k, t) ~> ~Sending(k, t)
=============================================================================
