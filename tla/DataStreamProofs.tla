-------------------------- MODULE DataStreamProofs --------------------------
(***************************************************************************)
(* Proofs about the client's data stream: at the end of whatever is under  *)
(* way on the open connection stands exactly the filter the mounted        *)
(* components want, and no step takes events away from a component that    *)
(* had them.                                                               *)
(*                                                                         *)
(* First the frames: what handling them one after another makes of a       *)
(* filter, and how that changes when one is added or the first is handled. *)
(* Then the changes of the union of the interests.  Then the connection    *)
(* manager, and the stream on top of it, by an inductive invariant.        *)
(***************************************************************************)
EXTENDS DataStream, Sums, SequenceTheorems

\* The assumptions on the constants, as facts of their own.
LEMMA Constants ==
  /\ MaxSockets \in Nat \ {0} /\ MaxReconnectAttempts \in Nat /\ MaxFaults \in Nat
  /\ MaxFrames \in Nat
  /\ \A c \in Consumers : Wants[c].channels # {}
BY WsAssumption, StreamAssumption

-----------------------------------------------------------------------------
(* Frames, handled one after another *)

\* Handling a frame makes a filter of a filter.
LEMMA ApplyType ==
  ASSUME NEW f \in Filters, NEW frame \in Frames
  PROVE  applySubscribe(f, frame) \in Filters
<1>1. /\ f.channels \in SUBSET AllChannels /\ f.pools \in SUBSET AllPools
      /\ frame.channels \in SUBSET AllChannels /\ frame.pools \in SUBSET AllPools
  BY DEF Filters, Frames
<1> QED
  BY <1>1 DEF applySubscribe, Filters

\* g is what the frames of s make of f, at i.
HandlesAt(f, s, g, i) ==
  g[i] = IF i = 0 THEN f ELSE applySubscribe(g[i - 1], s[i])

Handles(f, s, g, n) == \A i \in 0 .. n : HandlesAt(f, s, g, i)

\* There is such a function on every beginning of s.
LEMMA HandledExists ==
  ASSUME NEW f \in Filters, NEW s \in Seq(Frames)
  PROVE  \E g \in [0 .. Len(s) -> Filters] : Handles(f, s, g, Len(s))
<1> DEFINE Good(n) == \E g \in [0 .. n -> Filters] : Handles(f, s, g, n)
           T == {n \in Nat : n <= Len(s) => Good(n)}
<1>1. 0 \in T
  <2>1. [i \in 0 .. 0 |-> f] \in [0 .. 0 -> Filters]
    OBVIOUS
  <2>2. Handles(f, s, [i \in 0 .. 0 |-> f], 0)
    BY DEF Handles, HandlesAt
  <2> QED
    BY <2>1, <2>2
<1>2. ASSUME NEW n \in T PROVE n + 1 \in T
  <2> SUFFICES ASSUME n + 1 <= Len(s) PROVE Good(n + 1)
    OBVIOUS
  <2>1. n \in Nat /\ Good(n)
    OBVIOUS
  <2>2. PICK g \in [0 .. n -> Filters] : Handles(f, s, g, n)
    BY <2>1
  <2>3. s[n + 1] \in Frames /\ g[n] \in Filters
    BY <2>1, <2>2
  <2> DEFINE end == applySubscribe(g[n], s[n + 1])
             h == [i \in 0 .. n + 1 |-> IF i = n + 1 THEN end ELSE g[i]]
  <2>4. end \in Filters
    BY <2>3, ApplyType
  <2>5. h \in [0 .. n + 1 -> Filters]
    <3> HIDE DEF end
    <3> QED
      BY <2>1, <2>2, <2>4
  <2>6. ASSUME NEW i \in 0 .. n + 1 PROVE HandlesAt(f, s, h, i)
    <3>1. CASE i = n + 1
      <4>1. i # 0 /\ i - 1 = n /\ n \in 0 .. n + 1 /\ n # n + 1
        BY <2>1, <3>1
      <4>2. h[i] = end /\ h[i - 1] = g[n]
        BY <3>1, <4>1
      <4> QED
        BY <3>1, <4>1, <4>2 DEF HandlesAt
    <3>2. CASE i # n + 1
      <4>1. i \in 0 .. n /\ (i # 0 => i - 1 \in 0 .. n) /\ i - 1 # n + 1
        BY <2>1, <3>2
      <4>2. h[i] = g[i] /\ (i # 0 => h[i - 1] = g[i - 1])
        BY <2>1, <4>1
      <4>3. HandlesAt(f, s, g, i)
        BY <2>2, <4>1 DEF Handles
      <4> HIDE DEF h
      <4> QED
        BY <4>2, <4>3 DEF HandlesAt
    <3> QED
      BY <3>1, <3>2
  <2> HIDE DEF h
  <2> QED
    BY <2>5, <2>6 DEF Handles
<1>3. T = Nat
  <2> HIDE DEF T
  <2>1. T \subseteq Nat
    BY DEF T
  <2> QED
    BY <1>1, <1>2, <2>1, Induction
<1>4. Len(s) \in T
  <2> HIDE DEF T
  <2> QED
    BY <1>3
<1>5. Good(Len(s))
  <2> HIDE DEF Good
  <2> QED
    BY <1>4
<1> QED
  BY <1>5

\* t is at the places from a to b what s is d places later.
Follows(s, t, d, a, b) == \A i \in a .. b : t[i] = s[i + d]

\* Where t goes on like s d places later, it makes of e, which s makes of f by
\* then, what s makes of f.
LEMMA HandledAlike ==
  ASSUME NEW n \in Nat, NEW d \in {0, 1},
         NEW f, NEW s, NEW g, Handles(f, s, g, n + d),
         NEW e, NEW t, NEW h, Handles(e, t, h, n),
         g[d] = e, Follows(s, t, d, 1, n)
  PROVE  Follows(g, h, d, 0, n)
<1> USE DEF Follows
<1> DEFINE T == {i \in Nat : i <= n => h[i] = g[i + d]}
<1>1. 0 \in T
  <2>1. 0 \in 0 .. n /\ 0 + d = d
    OBVIOUS
  <2>2. h[0] = e
    BY <2>1 DEF Handles, HandlesAt
  <2> QED
    BY <2>1, <2>2
<1>2. ASSUME NEW i \in T PROVE i + 1 \in T
  <2> SUFFICES ASSUME i + 1 <= n PROVE h[i + 1] = g[(i + 1) + d]
    OBVIOUS
  <2>1. /\ i \in Nat /\ i + 1 \in 1 .. n /\ i + 1 \in 0 .. n /\ i + 1 # 0
        /\ (i + 1) - 1 = i
        /\ (i + 1) + d \in 0 .. n + d /\ (i + 1) + d # 0
        /\ ((i + 1) + d) - 1 = i + d
    OBVIOUS
  <2>2. h[i] = g[i + d] /\ t[i + 1] = s[(i + 1) + d]
    BY <2>1
  <2>3. HandlesAt(e, t, h, i + 1) /\ HandlesAt(f, s, g, (i + 1) + d)
    BY <2>1 DEF Handles
  <2> QED
    BY ONLY <2>1, <2>2, <2>3 DEF HandlesAt
<1>3. T = Nat
  <2> HIDE DEF T
  <2>1. T \subseteq Nat
    BY DEF T
  <2> QED
    BY <1>1, <1>2, <2>1, Induction
<1> QED
  BY <1>3

\* The definition of Handled is that of such a function, into the filters.
LEMMA HandledDefined ==
  ASSUME NEW f \in Filters, NEW s \in Seq(Frames)
  PROVE  /\ Handles(f, s, Handled(f, s), Len(s))
         /\ \A i \in 0 .. Len(s) : Handled(f, s)[i] \in Filters
<1> DEFINE Step(k) ==
      [n \in 0 .. Len(s) |-> IF n = 0 THEN f ELSE applySubscribe(k[n - 1], s[n])]
           after == CHOOSE k : k = Step(k)
<1>1. PICK g \in [0 .. Len(s) -> Filters] : Handles(f, s, g, Len(s))
  BY HandledExists
<1>2. g = Step(g)
  BY <1>1 DEF Handles, HandlesAt
<1>3. Handled(f, s) = after
  BY DEF Handled
<1>4. after = Step(after)
  <2> HIDE DEF Step
  <2> QED
    BY <1>2
<1>5. Handles(f, s, after, Len(s))
  BY <1>4 DEF Handles, HandlesAt
<1>6. \A i \in 0 .. Len(s) : after[i] = g[i]
  <2> HIDE DEF after
  <2>1. /\ Len(s) \in Nat /\ 0 \in {0, 1} /\ Len(s) + 0 = Len(s)
        /\ \A i \in 0 .. Len(s) : i + 0 = i
        /\ Follows(s, s, 0, 1, Len(s))
    BY DEF Follows
  <2>2. g[0] = f
    BY <1>1, <2>1 DEF Handles, HandlesAt
  <2>3. Follows(g, after, 0, 0, Len(s))
    BY <1>1, <1>5, <2>1, <2>2, HandledAlike
  <2> QED
    BY <2>1, <2>3 DEF Follows
<1> HIDE DEF after
<1> QED
  BY <1>1, <1>3, <1>5, <1>6

\* What a filter becomes when all the frames are handled.
Final(f, s) == Handled(f, s)[Len(s)]

\* t has the frames of s and at most one more, and nothing changes for what f
\* becomes until then.
Extends(f, s, t) ==
  /\ t \in Seq(Frames) /\ Len(t) \in {Len(s), Len(s) + 1}
  /\ \A i \in 0 .. Len(s) : Handled(f, t)[i] = Handled(f, s)[i]

\* Nothing under way leaves the filter what it is.
LEMMA HandledNone ==
  ASSUME NEW f \in Filters
  PROVE  Final(f, <<>>) = f
<1>1. <<>> \in Seq(Frames) /\ Len(<<>>) = 0 /\ 0 \in 0 .. 0
  OBVIOUS
<1>2. HandlesAt(f, <<>>, Handled(f, <<>>), 0)
  BY <1>1, HandledDefined DEF Handles
<1> QED
  BY <1>1, <1>2 DEF HandlesAt, Final

\* One frame more, at the end.
LEMMA HandledAppend ==
  ASSUME NEW f \in Filters, NEW s \in Seq(Frames), NEW x \in Frames,
         NEW t, t = Append(s, x)
  PROVE  Extends(f, s, t) /\ Final(f, t) = applySubscribe(Final(f, s), x)
<1>1. /\ t \in Seq(Frames) /\ Len(s) \in Nat /\ Len(t) = Len(s) + 1
      /\ t[Len(t)] = x /\ \A i \in 1 .. Len(s) : s[i] = t[i]
  OBVIOUS
<1>2. Handles(f, s, Handled(f, s), Len(s)) /\ Handles(f, t, Handled(f, t), Len(t))
  BY <1>1, HandledDefined
<1>3. \A i \in 0 .. Len(s) : Handled(f, s)[i] = Handled(f, t)[i]
  <2>1. /\ 0 \in {0, 1} /\ Len(s) + 0 = Len(s)
        /\ \A i \in 0 .. Len(s) : i + 0 = i /\ i \in 0 .. Len(t)
        /\ Follows(t, s, 0, 1, Len(s))
    BY <1>1 DEF Follows
  <2>2. Handled(f, t)[0] = f
    BY <1>1, <1>2, <2>1 DEF Handles, HandlesAt
  <2>3. Handles(f, t, Handled(f, t), Len(s) + 0)
    BY <1>2, <2>1 DEF Handles
  <2>4. Follows(Handled(f, t), Handled(f, s), 0, 0, Len(s))
    BY <1>1, <1>2, <2>1, <2>2, <2>3, HandledAlike
  <2> QED
    BY <2>1, <2>4 DEF Follows
<1>4. Final(f, t) = applySubscribe(Final(f, s), x)
  <2>1. /\ Len(t) \in 0 .. Len(t) /\ Len(t) # 0 /\ Len(t) - 1 = Len(s)
        /\ Len(s) \in 0 .. Len(s)
    BY <1>1
  <2>2. HandlesAt(f, t, Handled(f, t), Len(t))
    BY <1>2, <2>1 DEF Handles
  <2> QED
    BY <1>1, <1>3, <2>1, <2>2 DEF HandlesAt, Final
<1> QED
  BY <1>1, <1>3, <1>4 DEF Extends

\* The first frame of s is handled: f becomes e, and t is left.
FirstHandled(f, s, e, t) ==
  s # <<>> /\ e = applySubscribe(f, Head(s)) /\ t = Tail(s)

\* The others are then handled as before.
LEMMA HandledTail ==
  ASSUME NEW f \in Filters, NEW s \in Seq(Frames), NEW e, NEW t,
         FirstHandled(f, s, e, t)
  PROVE  /\ e \in Filters /\ t \in Seq(Frames) /\ Len(t) + 1 = Len(s)
         /\ \A i \in 0 .. Len(t) : Handled(e, t)[i] = Handled(f, s)[i + 1]
<1>1. /\ t \in Seq(Frames) /\ Len(t) \in Nat /\ Len(s) \in Nat
      /\ Len(t) + 1 = Len(s) /\ Head(s) = s[1] /\ Head(s) \in Frames
      /\ e = applySubscribe(f, s[1]) /\ Follows(s, t, 1, 1, Len(t))
  BY DEF Follows, FirstHandled
<1>2. e \in Filters
  BY <1>1, ApplyType
<1>3. Handles(f, s, Handled(f, s), Len(t) + 1) /\ Handles(e, t, Handled(e, t), Len(t))
  BY <1>1, <1>2, HandledDefined
<1>4. Handled(f, s)[1] = e
  <2>1. /\ 0 \in 0 .. Len(t) + 1 /\ 1 \in 0 .. Len(t) + 1
        /\ 1 # 0 /\ 1 - 1 = 0
    BY <1>1
  <2>2. HandlesAt(f, s, Handled(f, s), 0) /\ HandlesAt(f, s, Handled(f, s), 1)
    BY <1>3, <2>1 DEF Handles
  <2> QED
    BY <1>1, <2>1, <2>2 DEF HandlesAt
<1>5. 1 \in {0, 1}
  OBVIOUS
<1>6. Follows(Handled(f, s), Handled(e, t), 1, 0, Len(t))
  BY <1>1, <1>3, <1>4, <1>5, HandledAlike
<1> QED
  BY <1>1, <1>2, <1>6 DEF Follows

\* A change the client may send, unless it is empty.
Change(type, chs, ps) ==
  /\ type \in {"subscribe", "unsubscribe"}
  /\ chs \in SUBSET AllChannels /\ ps \in SUBSET AllPools

\* A change, or none, is a sequence of frames.
LEMMA IfAnyType ==
  ASSUME NEW type, NEW chs, NEW ps, Change(type, chs, ps)
  PROVE  Frame(type, chs, ps) \in Frames /\ IfAny(type, chs, ps) \in Seq(Frames)
<1>1. Frame(type, chs, ps) \in Frames
  BY DEF Frame, Frames, Change
<1>2. <<>> \in Seq(Frames) /\ <<Frame(type, chs, ps)>> \in Seq(Frames)
  BY <1>1
<1> QED
  BY <1>1, <1>2 DEF IfAny

\* t is s with the change at its end, unless the change is empty.
Adds(s, t, type, chs, ps) ==
  Change(type, chs, ps) /\ t = s \o IfAny(type, chs, ps)

\* A change that may be empty is appended, if it is not: either way it is as
\* if it had been handled last.
LEMMA HandledIfAny ==
  ASSUME NEW f \in Filters, NEW s \in Seq(Frames),
         NEW type, NEW chs, NEW ps, NEW t, Adds(s, t, type, chs, ps)
  PROVE  Extends(f, s, t)
         /\ Final(f, t) = applySubscribe(Final(f, s), Frame(type, chs, ps))
<1> Change(type, chs, ps) /\ t = s \o IfAny(type, chs, ps)
  BY DEF Adds
<1>1. Frame(type, chs, ps) \in Frames
  BY IfAnyType
<1>2. Len(s) \in Nat /\ Len(s) \in 0 .. Len(s)
  OBVIOUS
<1>3. Final(f, s) \in Filters
  BY <1>2, HandledDefined DEF Final
<1>4. CASE chs \cup ps = {}
  <2>1. t = s
    BY <1>4 DEF IfAny
  <2>2. applySubscribe(Final(f, s), Frame(type, chs, ps)) = Final(f, s)
    BY <1>3, <1>4 DEF applySubscribe, Frame, Filters
  <2> QED
    BY <1>2, <2>1, <2>2 DEF Extends
<1>5. CASE chs \cup ps # {}
  <2>1. t = Append(s, Frame(type, chs, ps))
    <3>1. IfAny(type, chs, ps) = <<Frame(type, chs, ps)>>
      BY <1>5 DEF IfAny
    <3> QED
      BY <1>1, <3>1, AppendIsConcat
  <2> QED
    BY <1>1, <2>1, HandledAppend
<1> QED
  BY <1>4, <1>5

-----------------------------------------------------------------------------
(* The union of the interests, and its changes *)

Unions == [channels : SUBSET AllChannels, all : BOOLEAN, pools : SUBSET AllPools]

\* The filter that lets through what u asks for.
AsFilter(u) == [channels |-> u.channels, pools |-> u.pools]

\* A union asks for channels when it asks for anything, and for all pools by
\* naming none.
LEMMA UnionType ==
  ASSUME NEW cs \in SUBSET Consumers, NEW u, u = computeUnion(cs)
  PROVE  /\ u \in Unions /\ AsFilter(u) \in Filters
         /\ u.channels \in SUBSET AllChannels /\ u.pools \in SUBSET AllPools
         /\ u.all \in BOOLEAN
         /\ u.all => u.pools = {}
         /\ u.channels = {} => u.pools = {}
<1> DEFINE chs == UNION {Wants[c].channels : c \in cs}
           ps == UNION {Wants[c].pools : c \in cs}
           all == \E c \in cs : Wants[c].pools = {}
<1>1. u = [channels |-> chs, all |-> all, pools |-> IF all THEN {} ELSE ps]
  BY DEF computeUnion
<1>2. chs \in SUBSET AllChannels /\ ps \in SUBSET AllPools /\ all \in BOOLEAN
  BY DEF AllChannels, AllPools
<1>3. chs = {} => ps = {}
  <2> SUFFICES ASSUME chs = {}, NEW x \in ps PROVE FALSE
    OBVIOUS
  <2>1. PICK c \in cs : x \in Wants[c].pools
    OBVIOUS
  <2>2. Wants[c].channels # {}
    BY Constants
  <2> QED
    BY <2>2
<1> HIDE DEF chs, ps, all
<1>4. u \in Unions
  BY <1>1, <1>2 DEF Unions
<1>5. AsFilter(u) \in Filters
  BY <1>1, <1>2 DEF AsFilter, Filters
<1> QED
  BY <1>1, <1>2, <1>3, <1>4, <1>5

\* What lets through the union lets through what each of them wants.
LEMMA UnionCovers ==
  ASSUME NEW cs \in SUBSET Consumers, NEW c \in cs
  PROVE  /\ Covers(AsFilter(computeUnion(cs)), c)
         /\ Wants[c].channels \subseteq computeUnion(cs).channels
         /\ Wants[c].pools = {} => computeUnion(cs).all
         /\ ~computeUnion(cs).all => Wants[c].pools \subseteq computeUnion(cs).pools
<1> DEFINE chs == UNION {Wants[d].channels : d \in cs}
           ps == UNION {Wants[d].pools : d \in cs}
           all == \E d \in cs : Wants[d].pools = {}
<1>1. Wants[c].channels \subseteq chs /\ Wants[c].pools \subseteq ps
      /\ (Wants[c].pools = {} => all)
  OBVIOUS
<1>2. computeUnion(cs) = [channels |-> chs, all |-> all,
                          pools |-> IF all THEN {} ELSE ps]
  BY DEF computeUnion
<1> HIDE DEF chs, ps, all
<1> QED
  BY <1>1, <1>2 DEF Covers, AsFilter

\* t is s with the changes from the union of A to that of B at its end.
Follow(s, t, A, B) == t = s \o Deltas(computeUnion(A), computeUnion(B))

\* What stands between s and t covers those of both A and B.
WideBetween(f, s, t, A, B) ==
  \E m : /\ Extends(f, s, m) /\ Extends(f, m, t)
         /\ \A c \in A \cap B : Covers(Final(f, m), c)

\* The changes from one union to another, handled on top of the one, leave the
\* other; in between stands a filter at least as wide as both.
LEMMA HandledDeltas ==
  ASSUME NEW A \in SUBSET Consumers, NEW B \in SUBSET Consumers,
         NEW f \in Filters, NEW s \in Seq(Frames),
         Final(f, s) = AsFilter(computeUnion(A)), NEW t, Follow(s, t, A, B)
  PROVE  Final(f, t) = AsFilter(computeUnion(B)) /\ WideBetween(f, s, t, A, B)
<1> PICK have, want : have = computeUnion(A) /\ want = computeUnion(B)
  OBVIOUS
<1> PICK addChs, addPools, removeChs, removePools :
      /\ addChs = want.channels \ have.channels
      /\ addPools = IF want.all THEN {} ELSE want.pools \ have.pools
      /\ removeChs = have.channels \ want.channels
      /\ removePools = IF have.all THEN {} ELSE have.pools \ want.pools
  OBVIOUS
<1> PICK on, off : on = "subscribe" /\ off = "unsubscribe"
  OBVIOUS
<1> PICK add, remove :
      add = IfAny(on, addChs, addPools) /\ remove = IfAny(off, removeChs, removePools)
  OBVIOUS
<1> PICK sub, unsub :
      sub = Frame(on, addChs, addPools) /\ unsub = Frame(off, removeChs, removePools)
  OBVIOUS
<1> PICK m : m = s \o add
  OBVIOUS
<1> DEFINE wide == [channels |-> have.channels \cup addChs,
                    pools |-> have.pools \cup addPools]
<1>1. /\ have.channels \in SUBSET AllChannels /\ have.pools \in SUBSET AllPools
      /\ want.channels \in SUBSET AllChannels /\ want.pools \in SUBSET AllPools
      /\ (have.all => have.pools = {}) /\ (want.all => want.pools = {})
  BY UnionType
<1>2. /\ addPools \in SUBSET AllPools /\ removePools \in SUBSET AllPools
      /\ addChs \in SUBSET AllChannels /\ removeChs \in SUBSET AllChannels
      /\ Change(on, addChs, addPools) /\ Change(off, removeChs, removePools)
  BY <1>1 DEF Change
<1>3. add \in Seq(Frames) /\ remove \in Seq(Frames)
  BY <1>2, IfAnyType
<1>4. t = m \o remove
  <2>1. Deltas(have, want) = add \o remove
    BY DEF Deltas
  <2>2. t = s \o (add \o remove)
    BY <2>1 DEF Follow
  <2> QED
    BY ONLY s \in Seq(Frames), m = s \o add, <1>3, <2>2, ConcatAssociative
<1>5. Extends(f, s, m) /\ Final(f, m) = applySubscribe(Final(f, s), sub)
  <2>1. Adds(s, m, on, addChs, addPools)
    BY <1>2 DEF Adds
  <2>2. Extends(f, s, m)
        /\ Final(f, m) = applySubscribe(Final(f, s), Frame(on, addChs, addPools))
    BY ONLY f \in Filters, s \in Seq(Frames), <2>1, HandledIfAny
  <2> QED
    BY <2>2
<1>6. m \in Seq(Frames)
  BY <1>5 DEF Extends
<1>7. Extends(f, m, t) /\ Final(f, t) = applySubscribe(Final(f, m), unsub)
  <2>1. Adds(m, t, off, removeChs, removePools)
    BY <1>2, <1>4 DEF Adds
  <2>2. Extends(f, m, t)
        /\ Final(f, t) = applySubscribe(Final(f, m), Frame(off, removeChs, removePools))
    BY ONLY f \in Filters, <1>6, <2>1, HandledIfAny
  <2> QED
    BY <2>2
<1>8. Final(f, m) = wide
  BY <1>5 DEF applySubscribe, Frame, AsFilter
<1>9. Final(f, t) = [channels |-> wide.channels \ removeChs,
                     pools |-> wide.pools \ removePools]
  <2> HIDE DEF wide
  <2> QED
    BY <1>7, <1>8 DEF applySubscribe, Frame
<1>10. wide.channels \ removeChs = want.channels /\ wide.pools \ removePools = want.pools
  BY <1>1
<1>11. ASSUME NEW c \in A \cap B PROVE Covers(wide, c)
  <2>1. /\ Wants[c].channels \subseteq have.channels
        /\ (Wants[c].pools = {} => have.all /\ want.all)
        /\ (~have.all => Wants[c].pools \subseteq have.pools)
        /\ (~want.all => Wants[c].pools \subseteq want.pools)
    BY UnionCovers
  <2>2. wide.pools # {} => Wants[c].pools # {}
    BY <1>1, <2>1
  <2>3. wide.pools # {} => Wants[c].pools \subseteq wide.pools
    BY <1>1, <2>1
  <2> QED
    BY <2>1, <2>2, <2>3 DEF Covers
<1>12. Final(f, t) = AsFilter(want)
  BY <1>9, <1>10 DEF AsFilter
<1> HIDE DEF wide
<1> QED
  BY <1>5, <1>7, <1>8, <1>11, <1>12 DEF WideBetween

\* The whole filter, handled on top of nothing or of itself.
LEMMA HandledFull ==
  ASSUME NEW cs \in SUBSET Consumers, NEW f \in Filters, NEW s \in Seq(Frames),
         Final(f, s) \in {NoFilter, AsFilter(computeUnion(cs))},
         NEW t, t = s \o FullFilter(computeUnion(cs))
  PROVE  Extends(f, s, t) /\ Final(f, t) = AsFilter(computeUnion(cs))
<1> PICK want : want = computeUnion(cs)
  OBVIOUS
<1> PICK on, chs, ps : on = "subscribe" /\ chs = want.channels /\ ps = want.pools
  OBVIOUS
<1>1. /\ chs \in SUBSET AllChannels /\ ps \in SUBSET AllPools
      /\ (chs = {} => ps = {}) /\ Change(on, chs, ps)
  BY UnionType DEF Change
<1>2. Adds(s, t, on, chs, ps)
  <2>1. FullFilter(want) = IfAny(on, chs, ps)
    BY <1>1 DEF FullFilter, IfAny
  <2> QED
    BY <1>1, <2>1 DEF Adds
<1>3. /\ Extends(f, s, t)
      /\ Final(f, t) = applySubscribe(Final(f, s), Frame(on, chs, ps))
  BY <1>2, HandledIfAny
<1>4. applySubscribe(NoFilter, Frame(on, chs, ps)) = AsFilter(want)
  BY DEF applySubscribe, Frame, AsFilter, NoFilter
<1>5. applySubscribe(AsFilter(want), Frame(on, chs, ps)) = AsFilter(want)
  BY DEF applySubscribe, Frame, AsFilter
<1> QED
  BY <1>3, <1>4, <1>5

-----------------------------------------------------------------------------
(* The connection manager *)

States == {"none", "connecting", "open", "closing"}
Statuses == {"idle", "connecting", "open", "closed", "circuit-open"}

\* The manager says so when its socket is open.
Known == IsOpen(ws) => status = "open"

WsInv == WsTypeOK /\ Known

\* A step after which the current socket is open only if it was, and no socket
\* starts anew that has been used.
Quiet ==
  /\ IsOpen(ws)' => IsOpen(ws) /\ ws' = ws
  /\ \A s \in Sockets : socket'[s] \in {"none", "connecting"}
                          => socket[s] \in {"none", "connecting"}

\* WsTypeOK, for the next state, without what a step mostly leaves alone.
LEMMA WsTypes ==
  ASSUME WsTypeOK
  PROVE  /\ socket \in [Sockets -> States] /\ mine \subseteq Live /\ Live \subseteq Sockets
         /\ silent \subseteq {s \in Sockets : socket[s] = "open"}
         /\ ws \in mine \cup {NoSocket} /\ status \in Statuses
         /\ reconnectAttempt \in 0 .. MaxReconnectAttempts /\ faults \in 0 .. MaxFaults
         /\ NoSocket \notin Sockets
<1>1. NoSocket \notin Sockets
  BY DEF NoSocket, Sockets
<1> QED
  BY <1>1 DEF WsTypeOK, States, Statuses, Live

\* Another socket is opened unless the current one is open or opening.
LEMMA OpenSocketStep ==
  ASSUME WsInv, OpenSocket
  PROVE  /\ socket' \in [Sockets -> States] /\ mine' \subseteq Live'
         /\ ws' \in mine' \cup {NoSocket} /\ status' \in Statuses
         /\ \A s \in Sockets : socket[s] = "open" => socket'[s] = "open"
         /\ Known' /\ Quiet
<1>1. /\ socket \in [Sockets -> States] /\ mine \subseteq Live /\ Live \subseteq Sockets
      /\ ws \in mine \cup {NoSocket} /\ status \in Statuses /\ NoSocket \notin Sockets
  BY WsTypes DEF WsInv
<1>2. CASE UNCHANGED <<socket, mine, ws, status>>
  BY <1>1, <1>2 DEF WsInv, Known, Quiet, IsOpen, Live
<1>3. ASSUME NEW s \in Sockets \ Live,
             socket' = [socket EXCEPT ![s] = "connecting"],
             mine' = mine \cup {s}, ws' = s, status' = "connecting"
      PROVE  /\ socket' \in [Sockets -> States] /\ mine' \subseteq Live'
             /\ ws' \in mine' \cup {NoSocket} /\ status' \in Statuses
             /\ \A t \in Sockets : socket[t] = "open" => socket'[t] = "open"
             /\ Known' /\ Quiet
  <2>1. socket[s] = "none"
    BY DEF Live
  <2>2. socket' \in [Sockets -> States]
    BY <1>1, <1>3 DEF States
  <2>3. \A t \in Sockets : socket'[t] = IF t = s THEN "connecting" ELSE socket[t]
    BY <1>1, <1>3
  <2>4. mine' \subseteq Live'
    BY <1>1, <1>3, <2>3 DEF Live
  <2>5. ~IsOpen(ws)'
    BY <1>3, <2>3 DEF IsOpen
  <2>6. Known' /\ Quiet
    BY <2>1, <2>3, <2>5 DEF Known, Quiet
  <2>7. \A t \in Sockets : socket[t] = "open" => socket'[t] = "open"
    BY <2>1, <2>3
  <2> QED
    BY <1>3, <2>2, <2>4, <2>6, <2>7 DEF Statuses
<1> QED
  BY <1>2, <1>3 DEF OpenSocket

\* connect, the reconnect timer, and the tab shown while the socket is down.
LEMMA OpeningStep ==
  ASSUME WsInv, connect \/ ReconnectTick \/ ReshowClosed
  PROVE  WsInv' /\ Quiet
<1>1. WsTypeOK
  BY DEF WsInv
<1>2. /\ reconnectAttempt' \in 0 .. MaxReconnectAttempts
      /\ reconnectTimer' \in BOOLEAN /\ wantOpen' \in BOOLEAN
      /\ UNCHANGED <<silent, heartbeat, faults>>
  <2>1. 0 \in 0 .. MaxReconnectAttempts
    BY Constants
  <2> QED
    BY <1>1, <2>1 DEF connect, ReconnectTick, ReshowClosed, WsTypeOK
<1>3. CASE OpenSocket
  <2>1. /\ socket' \in [Sockets -> States] /\ mine' \subseteq Live'
        /\ ws' \in mine' \cup {NoSocket} /\ status' \in Statuses
        /\ \A s \in Sockets : socket[s] = "open" => socket'[s] = "open"
        /\ Known' /\ Quiet
    BY <1>3, OpenSocketStep
  <2> QED
    BY <1>1, <1>2, <2>1 DEF WsInv, WsTypeOK, States, Statuses, Live
<1>4. CASE UNCHANGED <<socket, mine, ws, status>>
  <2>1. Known' /\ Quiet
    BY <1>4 DEF WsInv, Known, Quiet, IsOpen
  <2> QED
    BY <1>1, <1>2, <1>4, <2>1 DEF WsInv, WsTypeOK
<1> QED
  BY <1>3, <1>4 DEF connect, ReconnectTick, ReshowClosed

\* The steps of the heartbeat, and a peer that falls silent.
LEMMA HeartbeatStep ==
  ASSUME WsInv, (\E s \in Sockets : onmessage(s) \/ GoSilent(s)) \/ PingTick \/ PongTimeout
  PROVE  WsInv' /\ Quiet
<1>1. /\ WsTypeOK /\ Known
      /\ socket \in [Sockets -> States] /\ mine \subseteq Live /\ Live \subseteq Sockets
      /\ ws \in mine \cup {NoSocket} /\ NoSocket \notin Sockets
      /\ silent \subseteq {s \in Sockets : socket[s] = "open"}
  BY WsTypes DEF WsInv
<1>2. CASE \E s \in Sockets : onmessage(s)
  BY <1>1, <1>2 DEF onmessage, WsInv, WsTypeOK, Known, Quiet, IsOpen
<1>3. CASE PingTick
  BY <1>1, <1>3 DEF PingTick, WsInv, WsTypeOK, Known, Quiet, IsOpen
<1>4. ASSUME CountFault PROVE faults' \in 0 .. MaxFaults
  BY <1>1, <1>4, Constants DEF CountFault, WsTypeOK
<1>5. ASSUME NEW s \in Sockets, GoSilent(s) PROVE WsInv' /\ Quiet
  <2>1. socket[s] = "open" /\ faults' \in 0 .. MaxFaults
    BY <1>4, <1>5 DEF GoSilent, IsOpen
  <2>2. silent' = silent \cup {s}
        /\ UNCHANGED <<socket, mine, ws, status, reconnectAttempt, reconnectTimer,
                       wantOpen, heartbeat>>
    BY <1>5 DEF GoSilent
  <2>3. Known' /\ Quiet
    BY <1>1, <2>2 DEF Known, Quiet, IsOpen
  <2> QED
    BY <1>1, <2>1, <2>2, <2>3 DEF WsInv, WsTypeOK
<1>6. CASE PongTimeout
  <2>1. /\ socket' = [s \in Sockets |-> IF s = ws THEN "closing" ELSE socket[s]]
        /\ silent' = silent \ {ws} /\ heartbeat' = "armed" /\ faults' \in 0 .. MaxFaults
        /\ UNCHANGED <<mine, ws, status, reconnectAttempt, reconnectTimer, wantOpen>>
    BY <1>1, <1>4, <1>6 DEF PongTimeout, WsTypeOK
  <2>2. socket' \in [Sockets -> States] /\ mine' \subseteq Live'
        /\ silent' \subseteq {s \in Sockets : socket'[s] = "open"}
    BY <1>1, <2>1 DEF States, Live
  <2>3. ~IsOpen(ws)'
    BY <1>1, <2>1 DEF IsOpen
  <2>4. Known' /\ Quiet
    BY <1>1, <2>1, <2>3 DEF Known, Quiet
  <2> QED
    BY <1>1, <2>1, <2>2, <2>4 DEF WsInv, WsTypeOK, States, Live
<1> QED
  BY <1>2, <1>3, <1>5, <1>6

\* A socket opens: the current one is open then only if it was, or if it is it.
LEMMA OpenedWs ==
  ASSUME WsInv, NEW s \in Sockets, onopen(s)
  PROVE  /\ WsInv' /\ ws' = ws /\ socket[s] = "connecting"
         /\ socket' = [socket EXCEPT ![s] = "open"]
<1>1. /\ WsTypeOK /\ Known
      /\ socket \in [Sockets -> States] /\ mine \subseteq Live /\ Live \subseteq Sockets
      /\ ws \in mine \cup {NoSocket} /\ NoSocket \notin Sockets
      /\ silent \subseteq {t \in Sockets : socket[t] = "open"}
  BY WsTypes DEF WsInv
<1>2. /\ socket[s] = "connecting" /\ socket' = [socket EXCEPT ![s] = "open"]
      /\ UNCHANGED <<silent, mine, ws, reconnectTimer, wantOpen, faults>>
  BY DEF onopen
<1>3. \/ s \in mine /\ reconnectAttempt' = 0 /\ status' = "open" /\ heartbeat' = "armed"
      \/ s \notin mine /\ UNCHANGED <<reconnectAttempt, status, heartbeat>>
  BY DEF onopen
<1>4. /\ reconnectAttempt' \in 0 .. MaxReconnectAttempts /\ status' \in Statuses
      /\ heartbeat' \in {"off", "armed", "waiting"}
  BY <1>1, <1>3, Constants DEF WsTypeOK, Statuses
<1>5. \A t \in Sockets : socket'[t] = IF t = s THEN "open" ELSE socket[t]
  BY <1>1, <1>2
<1>6. socket' \in [Sockets -> States] /\ mine' \subseteq Live'
      /\ silent' \subseteq {t \in Sockets : socket'[t] = "open"}
  BY <1>1, <1>2, <1>5 DEF States, Live
<1>7. Known'
  BY <1>1, <1>2, <1>3, <1>5 DEF Known, IsOpen
<1> QED
  BY <1>1, <1>2, <1>4, <1>6, <1>7 DEF WsInv, WsTypeOK, States, Statuses, Live

\* A socket closes: the current one is open then only if it is another one.
LEMMA ClosedWs ==
  ASSUME WsInv, NEW s \in Sockets, onclose(s)
  PROVE  /\ WsInv' /\ socket' = [socket EXCEPT ![s] = "none"]
         /\ IsOpen(ws)' => IsOpen(ws) /\ ws' = ws
<1>1. /\ WsTypeOK /\ Known
      /\ socket \in [Sockets -> States] /\ mine \subseteq Live /\ Live \subseteq Sockets
      /\ ws \in mine \cup {NoSocket} /\ NoSocket \notin Sockets
      /\ silent \subseteq {t \in Sockets : socket[t] = "open"}
  BY WsTypes DEF WsInv
<1>2. /\ socket' = [socket EXCEPT ![s] = "none"]
      /\ silent' = silent \ {s} /\ mine' = mine \ {s} /\ wantOpen' = wantOpen
      /\ faults' \in 0 .. MaxFaults
  BY <1>1, Constants DEF onclose, CountFault, WsTypeOK
<1>3. \A t \in Sockets : socket'[t] = IF t = s THEN "none" ELSE socket[t]
  BY <1>1, <1>2
<1>4. /\ reconnectAttempt' \in 0 .. MaxReconnectAttempts /\ status' \in Statuses
      /\ heartbeat' \in {"off", "armed", "waiting"} /\ reconnectTimer' \in BOOLEAN
      /\ \/ s \in mine /\ ws' = NoSocket
         \/ s \notin mine /\ ws' = ws /\ status' = status
  <2>1. CASE s \in mine
    <3>1. heartbeat' = "off" /\ ws' = NoSocket /\ scheduleReconnect
      BY <2>1 DEF onclose
    <3>2. /\ reconnectAttempt' \in {reconnectAttempt, reconnectAttempt + 1}
          /\ reconnectAttempt' = reconnectAttempt \/ ~(reconnectAttempt >= MaxReconnectAttempts)
          /\ status' \in {"closed", "circuit-open"}
          /\ reconnectTimer' \in {reconnectTimer, TRUE}
      BY <1>1, <3>1 DEF scheduleReconnect, WsTypeOK
    <3>3. reconnectAttempt' \in 0 .. MaxReconnectAttempts
      BY <1>1, <3>2, Constants DEF WsTypeOK
    <3> QED
      BY <1>1, <2>1, <3>1, <3>2, <3>3 DEF WsTypeOK, Statuses
  <2>2. CASE s \notin mine
    BY <1>1, <2>2 DEF onclose, WsTypeOK, Statuses
  <2> QED
    BY <2>1, <2>2
<1>5. socket' \in [Sockets -> States] /\ mine' \subseteq Live'
      /\ silent' \subseteq {t \in Sockets : socket'[t] = "open"}
      /\ ws' \in mine' \cup {NoSocket}
  BY <1>1, <1>2, <1>3, <1>4 DEF States, Live
<1>6. IsOpen(ws)' => IsOpen(ws) /\ ws' = ws /\ status' = status
  BY <1>1, <1>3, <1>4 DEF IsOpen
<1>7. Known'
  BY <1>1, <1>6 DEF Known
<1> QED
  BY <1>1, <1>2, <1>4, <1>5, <1>6, <1>7 DEF WsInv, WsTypeOK, States, Statuses, Live

\* The manager is thrown away: there is no current socket.
LEMMA CloseWs ==
  ASSUME WsInv, close
  PROVE  /\ WsInv' /\ ~IsOpen(ws)'
         /\ socket' = [s \in Sockets |-> IF s = ws THEN "none" ELSE socket[s]]
<1>1. /\ WsTypeOK /\ socket \in [Sockets -> States]
      /\ silent \subseteq {t \in Sockets : socket[t] = "open"}
  BY WsTypes DEF WsInv
<1>2. /\ socket' = [s \in Sockets |-> IF s = ws THEN "none" ELSE socket[s]]
      /\ silent' = silent \ {ws} /\ mine' = {} /\ ws' = NoSocket
      /\ wantOpen' = FALSE /\ reconnectTimer' = FALSE /\ heartbeat' = "off"
      /\ status' = "idle" /\ reconnectAttempt' = 0 /\ faults' = faults
  BY DEF close
<1>3. socket' \in [Sockets -> States]
      /\ silent' \subseteq {t \in Sockets : socket'[t] = "open"}
  BY <1>1, <1>2 DEF States
<1>4. reconnectAttempt' \in 0 .. MaxReconnectAttempts
  BY <1>2, Constants
<1>5. ~IsOpen(ws)'
  BY <1>2 DEF IsOpen
<1> QED
  BY <1>1, <1>2, <1>3, <1>4, <1>5 DEF WsInv, WsTypeOK, Known, States

-----------------------------------------------------------------------------
(* The stream *)

StreamTypes ==
  /\ consumers \in SUBSET Consumers /\ applied \in Unions
  /\ sent \in [Sockets -> Seq(Frames)] /\ filter \in [Sockets -> Filters]

\* A connection begins with an empty filter and nothing under way to it.
Fresh ==
  \A s \in Sockets : socket[s] \in {"none", "connecting"}
                       => sent[s] = <<>> /\ filter[s] = NoFilter

IInv == WsInv /\ StreamTypes /\ Fresh /\ ServerInStep

\* The empty filter is one, and what is sent to the server are frames.
LEMMA NoFilterType == NoFilter \in Filters /\ Nothing \in Unions
BY DEF NoFilter, Nothing, Filters, Unions

LEMMA DeltasType ==
  ASSUME NEW A \in SUBSET Consumers, NEW B \in SUBSET Consumers
  PROVE  Deltas(computeUnion(A), computeUnion(B)) \in Seq(Frames)
<1> PICK have, want : have = computeUnion(A) /\ want = computeUnion(B)
  OBVIOUS
<1>1. /\ have.channels \in SUBSET AllChannels /\ have.pools \in SUBSET AllPools
      /\ want.channels \in SUBSET AllChannels /\ want.pools \in SUBSET AllPools
  BY UnionType
<1>2. Change("subscribe", want.channels \ have.channels,
             IF want.all THEN {} ELSE want.pools \ have.pools)
  BY <1>1 DEF Change
<1>3. Change("unsubscribe", have.channels \ want.channels,
             IF have.all THEN {} ELSE have.pools \ want.pools)
  BY <1>1 DEF Change
<1> DEFINE add == IfAny("subscribe", want.channels \ have.channels,
                        IF want.all THEN {} ELSE want.pools \ have.pools)
           remove == IfAny("unsubscribe", have.channels \ want.channels,
                           IF have.all THEN {} ELSE have.pools \ want.pools)
<1>4. add \in Seq(Frames)
  BY <1>2, IfAnyType
<1>5. remove \in Seq(Frames)
  BY <1>3, IfAnyType
<1>6. Deltas(have, want) = add \o remove
  BY DEF Deltas
<1> HIDE DEF add, remove
<1> QED
  BY <1>4, <1>5, <1>6

LEMMA FullType ==
  ASSUME NEW cs \in SUBSET Consumers
  PROVE  FullFilter(computeUnion(cs)) \in Seq(Frames)
<1> PICK want : want = computeUnion(cs)
  OBVIOUS
<1>1. Change("subscribe", want.channels, want.pools)
  BY UnionType DEF Change
<1>2. Frame("subscribe", want.channels, want.pools) \in Frames
  BY <1>1, IfAnyType
<1> QED
  BY <1>2 DEF FullFilter

\* What send adds to whom.
LEMMA SendStep ==
  ASSUME StreamTypes, ws' \in Sockets \cup {NoSocket}, NEW frames \in Seq(Frames),
         send(frames)
  PROVE  /\ sent' \in [Sockets -> Seq(Frames)]
         /\ IsOpen(ws)' => sent'[ws'] = sent[ws'] \o frames
         /\ \A s \in Sockets : /\ socket'[s] = "none" => sent'[s] = <<>>
                               /\ socket'[s] = "connecting" => sent'[s] = sent[s]
<1>1. \A s \in Sockets : sent[s] \in Seq(Frames) /\ sent[s] \o frames \in Seq(Frames)
  <2>1. \A u, v \in Seq(Frames) : u \o v \in Seq(Frames)
    OBVIOUS
  <2> QED
    BY <2>1 DEF StreamTypes
<1>2. <<>> \in Seq(Frames)
  OBVIOUS
<1> DEFINE next(s) == IF s = ws' /\ socket'[s] = "open" THEN sent[s] \o frames
                      ELSE IF socket'[s] = "none" THEN <<>> ELSE sent[s]
<1>3. sent' = [s \in Sockets |-> next(s)]
  BY DEF send
<1>4. \A s \in Sockets : next(s) \in Seq(Frames)
  BY <1>1, <1>2
<1>5. \A s \in Sockets : /\ socket'[s] = "none" => next(s) = <<>>
                         /\ socket'[s] = "connecting" => next(s) = sent[s]
  OBVIOUS
<1>6. IsOpen(ws)' => ws' \in Sockets /\ next(ws') = sent[ws'] \o frames
  BY DEF IsOpen
<1> HIDE DEF next
<1> QED
  BY <1>3, <1>4, <1>5, <1>6

\* What Forget does to the filters.
LEMMA ForgetStep ==
  ASSUME StreamTypes, ws' \in Sockets \cup {NoSocket}, Forget
  PROVE  /\ filter' \in [Sockets -> Filters]
         /\ IsOpen(ws)' => filter'[ws'] = filter[ws']
         /\ \A s \in Sockets : /\ socket'[s] = "none" => filter'[s] = NoFilter
                               /\ socket'[s] = "connecting" => filter'[s] = filter[s]
BY NoFilterType DEF StreamTypes, Forget, IsOpen

(* What becomes of the current connection while it is open. *)

Unmoved ==
  sent'[ws] = sent[ws] /\ filter'[ws] = filter[ws] /\ UNCHANGED <<consumers, applied>>

Changed ==
  /\ applied' = computeUnion(consumers') /\ filter'[ws] = filter[ws]
  /\ sent'[ws] = sent[ws] \o Deltas(applied, applied')

Resynced ==
  /\ IsOpen(ws) \/ (sent[ws] = <<>> /\ filter[ws] = NoFilter)
  /\ consumers' = consumers /\ applied' = computeUnion(consumers)
  /\ filter'[ws] = filter[ws]
  /\ sent'[ws] = sent[ws] \o FullFilter(computeUnion(consumers))

Read ==
  /\ FirstHandled(filter[ws], sent[ws], filter'[ws], sent'[ws])
  /\ UNCHANGED <<consumers, applied>>

Moves == ws' = ws /\ (Resynced \/ (IsOpen(ws) /\ (Unmoved \/ Changed \/ Read)))

\* What every step does, seen from the current connection.
StepFacts == WsInv' /\ StreamTypes' /\ Fresh' /\ (IsOpen(ws)' => Moves)

\* The steps of the manager the stream takes no part in.
LEMMA AloneStep ==
  ASSUME IInv, WsInv', Quiet, UNCHANGED <<consumers, applied, sent, filter>>
  PROVE  StepFacts
<1>1. StreamTypes' /\ Fresh'
  BY DEF IInv, StreamTypes, Fresh, Quiet
<1>2. IsOpen(ws)' => Moves
  BY DEF Quiet, Moves, Unmoved
<1> QED
  BY <1>1, <1>2 DEF StepFacts

\* The current socket is one, or none, before a step and after it.
LEMMA WsIsSocket == WsInv => ws \in Sockets \cup {NoSocket} /\ NoSocket \notin Sockets
BY WsTypes DEF WsInv, Live

\* The same of the next state.
LEMMA WsIsSocketNext == (WsInv => ws \in Sockets \cup {NoSocket} /\ NoSocket \notin Sockets)'
BY WsIsSocket, PTL

\* The interests change while the connection is open, or while it is not and
\* nothing is sent.
LEMMA InterestStep ==
  ASSUME IInv, WsInv', Quiet, consumers' \in SUBSET Consumers, Forget,
         IF status = "open"
         THEN applied' = computeUnion(consumers') /\ send(Deltas(applied, applied'))
         ELSE UNCHANGED <<applied, sent>>
  PROVE  StepFacts
<1>1. /\ StreamTypes /\ Fresh /\ Known /\ ws' \in Sockets \cup {NoSocket}
  BY WsIsSocketNext DEF IInv, WsInv
<1>2. /\ filter' \in [Sockets -> Filters]
      /\ IsOpen(ws)' => filter'[ws'] = filter[ws']
      /\ \A s \in Sockets : /\ socket'[s] = "none" => filter'[s] = NoFilter
                            /\ socket'[s] = "connecting" => filter'[s] = filter[s]
  BY <1>1, ForgetStep
<1>3. CASE status = "open"
  <2>1. applied' = computeUnion(consumers') /\ applied' \in Unions
    BY <1>3, UnionType
  <2>2. CASE IsOpen(ws)
    <3>1. applied = computeUnion(consumers)
      BY <2>2 DEF IInv, ServerInStep
    <3>2. Deltas(applied, applied') \in Seq(Frames)
      <4>1. consumers \in SUBSET Consumers
        BY <1>1 DEF StreamTypes
      <4> QED
        BY <2>1, <3>1, <4>1, DeltasType
    <3>3. /\ sent' \in [Sockets -> Seq(Frames)]
          /\ IsOpen(ws)' => sent'[ws'] = sent[ws'] \o Deltas(applied, applied')
          /\ \A s \in Sockets : /\ socket'[s] = "none" => sent'[s] = <<>>
                                /\ socket'[s] = "connecting" => sent'[s] = sent[s]
      BY <1>1, <1>3, <3>2, SendStep
    <3>4. StreamTypes' /\ Fresh'
      BY <1>1, <1>2, <2>1, <3>3 DEF StreamTypes, Fresh, Quiet
    <3>5. IsOpen(ws)' => Moves
      BY <1>2, <2>1, <3>3 DEF Quiet, Moves, Changed
    <3> QED
      BY <3>4, <3>5 DEF StepFacts
  <2>3. CASE ~IsOpen(ws)
    <3>1. ~IsOpen(ws)'
      BY <2>3 DEF Quiet
    <3>2. \A s \in Sockets : ~(s = ws' /\ socket'[s] = "open")
      BY <3>1, WsIsSocket DEF IsOpen, IInv
    <3>3. sent' = [s \in Sockets |-> IF socket'[s] = "none" THEN <<>> ELSE sent[s]]
      BY <1>3, <3>2 DEF send
    <3>4. <<>> \in Seq(Frames)
      OBVIOUS
    <3>5. StreamTypes' /\ Fresh'
      BY <1>1, <1>2, <2>1, <3>3, <3>4 DEF StreamTypes, Fresh, Quiet
    <3> QED
      BY <3>1, <3>5 DEF StepFacts
  <2> QED
    BY <2>2, <2>3
<1>4. CASE status # "open"
  <2>1. ~IsOpen(ws)'
    BY <1>1, <1>4 DEF Known, Quiet
  <2>2. StreamTypes' /\ Fresh'
    BY <1>1, <1>2, <1>4 DEF StreamTypes, Fresh, Quiet
  <2> QED
    BY <2>1, <2>2 DEF StepFacts
<1> QED
  BY <1>3, <1>4

\* A component mounts.
LEMMA SubscribeStep ==
  ASSUME IInv, NEW c \in Consumers, Subscribe(c)
  PROVE  StepFacts
<1>1. WsInv /\ connect /\ consumers' = consumers \cup {c} /\ Forget
  BY DEF Subscribe, IInv
<1>2. WsInv' /\ Quiet
  BY <1>1, OpeningStep
<1>3. consumers' \in SUBSET Consumers
  BY <1>1 DEF IInv, StreamTypes
<1>4. IF status = "open"
      THEN applied' = computeUnion(consumers') /\ send(Deltas(applied, applied'))
      ELSE UNCHANGED <<applied, sent>>
  BY DEF Subscribe
<1> QED
  BY <1>1, <1>2, <1>3, <1>4, InterestStep

\* A component unmounts; with the last one the connection is given up.
LEMMA UnsubscribeStep ==
  ASSUME IInv, NEW c \in Consumers, Unsubscribe(c)
  PROVE  StepFacts
<1>1. WsInv /\ consumers' \in SUBSET Consumers /\ Forget
  BY DEF Unsubscribe, IInv, StreamTypes
<1>2. CASE consumers' # {}
  <2>1. UNCHANGED wsVars
    BY <1>2 DEF Unsubscribe
  <2>2. WsInv' /\ Quiet
    BY <1>1, <2>1 DEF wsVars, WsInv, WsTypeOK, Known, Quiet, IsOpen
  <2>3. IF status = "open"
        THEN applied' = computeUnion(consumers') /\ send(Deltas(applied, applied'))
        ELSE UNCHANGED <<applied, sent>>
    BY <1>2 DEF Unsubscribe
  <2> QED
    BY <1>1, <2>2, <2>3, InterestStep
<1>3. CASE consumers' = {}
  <2>1. close /\ applied' = Nothing /\ send(<<>>)
    BY <1>3 DEF Unsubscribe
  <2>2. /\ WsInv' /\ ~IsOpen(ws)'
        /\ socket' = [s \in Sockets |-> IF s = ws THEN "none" ELSE socket[s]]
    BY <1>1, <2>1, CloseWs
  <2>3. StreamTypes /\ Fresh /\ ws' \in Sockets \cup {NoSocket} /\ <<>> \in Seq(Frames)
    BY <2>2, WsIsSocketNext DEF IInv
  <2>4. /\ sent' \in [Sockets -> Seq(Frames)]
        /\ \A s \in Sockets : /\ socket'[s] = "none" => sent'[s] = <<>>
                              /\ socket'[s] = "connecting" => sent'[s] = sent[s]
    BY <2>1, <2>3, SendStep
  <2>5. /\ filter' \in [Sockets -> Filters]
        /\ \A s \in Sockets : /\ socket'[s] = "none" => filter'[s] = NoFilter
                              /\ socket'[s] = "connecting" => filter'[s] = filter[s]
    BY <1>1, <2>3, ForgetStep
  <2>6. StreamTypes'
    BY <1>1, <2>1, <2>4, <2>5, NoFilterType DEF StreamTypes
  <2>7. Fresh'
    BY <2>2, <2>3, <2>4, <2>5 DEF Fresh
  <2> QED
    BY <2>2, <2>6, <2>7 DEF StepFacts
<1> QED
  BY <1>2, <1>3

\* A socket closes.
LEMMA ClosedStep ==
  ASSUME IInv, NEW s \in Sockets, Closed(s)
  PROVE  StepFacts
<1>1. /\ WsInv' /\ socket' = [socket EXCEPT ![s] = "none"]
      /\ IsOpen(ws)' => IsOpen(ws) /\ ws' = ws
  BY ClosedWs DEF IInv, Closed
<1>2. /\ StreamTypes /\ Fresh /\ ws' \in Sockets \cup {NoSocket}
      /\ <<>> \in Seq(Frames) /\ socket \in [Sockets -> States]
  BY <1>1, WsIsSocketNext, WsTypes DEF IInv, WsInv
<1>3. /\ sent' \in [Sockets -> Seq(Frames)]
      /\ IsOpen(ws)' => sent'[ws'] = sent[ws'] \o <<>>
      /\ \A t \in Sockets : /\ socket'[t] = "none" => sent'[t] = <<>>
                            /\ socket'[t] = "connecting" => sent'[t] = sent[t]
  BY <1>2, SendStep DEF Closed
<1>4. /\ filter' \in [Sockets -> Filters]
      /\ IsOpen(ws)' => filter'[ws'] = filter[ws']
      /\ \A t \in Sockets : /\ socket'[t] = "none" => filter'[t] = NoFilter
                            /\ socket'[t] = "connecting" => filter'[t] = filter[t]
  BY <1>2, ForgetStep DEF Closed
<1>5. UNCHANGED <<consumers, applied>>
  BY DEF Closed
<1>6. StreamTypes'
  BY <1>2, <1>3, <1>4, <1>5 DEF StreamTypes
<1>7. \A t \in Sockets : socket'[t] = "connecting" => socket[t] = "connecting"
  BY <1>1, <1>2
<1>8. Fresh'
  BY <1>2, <1>3, <1>4, <1>7 DEF Fresh
<1>9. ASSUME IsOpen(ws)' PROVE Moves
  <2>1. IsOpen(ws) /\ ws' = ws /\ ws \in Sockets
    BY <1>1, <1>2, <1>9 DEF IsOpen
  <2>2. sent[ws] \in Seq(Frames)
    BY <1>2, <2>1 DEF StreamTypes
  <2>3. sent[ws] \o <<>> = sent[ws]
    BY <2>2, ConcatEmptySeq
  <2> QED
    BY <1>3, <1>4, <1>5, <1>9, <2>1, <2>3 DEF Moves, Unmoved
<1> QED
  BY <1>1, <1>6, <1>8, <1>9 DEF StepFacts

\* resync, whatever socket it is for.
LEMMA ResyncStep ==
  ASSUME IInv, WsInv', ws' = ws, resync, UNCHANGED <<consumers, filter>>,
         IsOpen(ws)' => IsOpen(ws) \/ socket[ws] = "connecting",
         \A t \in Sockets : socket'[t] \in {"none", "connecting"} => socket'[t] = socket[t]
  PROVE  StepFacts
<1>1. /\ StreamTypes /\ Fresh /\ ws' \in Sockets \cup {NoSocket}
      /\ consumers \in SUBSET Consumers
  BY WsIsSocketNext DEF IInv, StreamTypes
<1>2. applied' = computeUnion(consumers) /\ send(FullFilter(computeUnion(consumers)))
  BY DEF resync
<1>3. applied' \in Unions /\ FullFilter(computeUnion(consumers)) \in Seq(Frames)
  BY <1>1, <1>2, UnionType, FullType
<1>4. /\ sent' \in [Sockets -> Seq(Frames)]
      /\ IsOpen(ws)' => sent'[ws'] = sent[ws'] \o FullFilter(computeUnion(consumers))
      /\ \A t \in Sockets : /\ socket'[t] = "none" => sent'[t] = <<>>
                            /\ socket'[t] = "connecting" => sent'[t] = sent[t]
  BY <1>1, <1>2, <1>3, SendStep
<1>5. StreamTypes'
  BY <1>1, <1>3, <1>4 DEF StreamTypes
<1>6. Fresh'
  BY <1>1, <1>4 DEF Fresh
<1>7. ASSUME IsOpen(ws)' PROVE Moves
  <2>1. ws \in Sockets
    BY <1>1, <1>7 DEF IsOpen
  <2>2. IsOpen(ws) \/ (sent[ws] = <<>> /\ filter[ws] = NoFilter)
    BY <1>1, <1>7, <2>1 DEF Fresh
  <2> QED
    BY <1>2, <1>4, <1>7, <2>2 DEF Moves, Resynced
<1> QED
  BY <1>5, <1>6, <1>7 DEF StepFacts

LEMMA OpenedStep ==
  ASSUME IInv, NEW s \in Sockets, Opened(s)
  PROVE  StepFacts
<1>1. /\ WsInv' /\ ws' = ws /\ socket[s] = "connecting"
      /\ socket' = [socket EXCEPT ![s] = "open"] /\ socket \in [Sockets -> States]
  BY OpenedWs, WsTypes DEF IInv, WsInv, Opened
<1>2. \A t \in Sockets : socket'[t] = IF t = s THEN "open" ELSE socket[t]
  BY <1>1
<1>3. /\ IsOpen(ws)' => IsOpen(ws) \/ socket[ws] = "connecting"
      /\ \A t \in Sockets : socket'[t] \in {"none", "connecting"} => socket'[t] = socket[t]
  <2>1. ws \in Sockets \cup {NoSocket}
    BY WsIsSocket DEF IInv
  <2> QED
    BY <1>1, <1>2, <2>1 DEF IsOpen
<1>4. resync /\ UNCHANGED <<consumers, filter>>
  BY DEF Opened
<1> QED
  BY <1>1, <1>3, <1>4, ResyncStep

LEMMA ReshownStep ==
  ASSUME IInv, Reshown
  PROVE  StepFacts
<1>1. WsInv /\ UNCHANGED wsVars /\ resync /\ UNCHANGED <<consumers, filter>>
  BY DEF IInv, Reshown, ReshowOpen
<1>2. WsInv' /\ ws' = ws /\ socket' = socket /\ (IsOpen(ws)' => IsOpen(ws))
  BY <1>1 DEF wsVars, WsInv, WsTypeOK, Known, IsOpen
<1> QED
  BY <1>1, <1>2, ResyncStep

\* The server handles a frame.
LEMMA HandleStep ==
  ASSUME IInv, NEW s \in Sockets, Handle(s)
  PROVE  StepFacts
<1>1. /\ WsInv /\ StreamTypes /\ Fresh /\ UNCHANGED wsVars /\ socket[s] = "open"
      /\ sent[s] # <<>> /\ UNCHANGED <<consumers, applied>>
  BY DEF IInv, Handle, IsOpen
<1> DEFINE e == applySubscribe(filter[s], Head(sent[s]))
<1>2. filter' = [filter EXCEPT ![s] = e] /\ sent' = [sent EXCEPT ![s] = Tail(sent[s])]
  BY DEF Handle
<1>3. e \in Filters /\ Tail(sent[s]) \in Seq(Frames)
  <2>1. filter[s] \in Filters /\ sent[s] \in Seq(Frames)
    BY <1>1 DEF StreamTypes
  <2>2. FirstHandled(filter[s], sent[s], e, Tail(sent[s]))
    BY <1>1 DEF FirstHandled
  <2> HIDE DEF e
  <2> QED
    BY <2>1, <2>2, HandledTail
<1> HIDE DEF e
<1>4. WsInv' /\ ws' = ws /\ socket' = socket /\ (IsOpen(ws)' => IsOpen(ws))
  BY <1>1 DEF wsVars, WsInv, WsTypeOK, Known, IsOpen
<1>5. StreamTypes'
  BY <1>1, <1>2, <1>3 DEF StreamTypes
<1>6. /\ sent \in [Sockets -> Seq(Frames)] /\ filter \in [Sockets -> Filters]
  BY <1>1 DEF StreamTypes
<1>7. \A t \in Sockets : t # s => sent'[t] = sent[t] /\ filter'[t] = filter[t]
  BY <1>2, <1>6
<1>8. Fresh'
  BY <1>1, <1>4, <1>7 DEF Fresh
<1>9. ASSUME IsOpen(ws)' PROVE Moves
  <2>1. IsOpen(ws) /\ ws \in Sockets
    BY <1>1, <1>4, <1>9, WsIsSocket DEF IsOpen
  <2>2. CASE ws = s
    <3>1. FirstHandled(filter[ws], sent[ws], filter'[ws], sent'[ws])
      BY <1>1, <1>2, <1>6, <2>2 DEF e, FirstHandled
    <3> QED
      BY <1>1, <1>4, <2>1, <2>2, <3>1 DEF Moves, Read
  <2>3. CASE ws # s
    BY <1>1, <1>4, <1>7, <2>1, <2>3 DEF Moves, Unmoved
  <2> QED
    BY <2>2, <2>3
<1> QED
  BY <1>4, <1>5, <1>8, <1>9 DEF StepFacts

\* Every step is one of these.
LEMMA StepCases ==
  ASSUME IInv, [Next]_vars
  PROVE  StepFacts
<1>1. WsInv
  BY DEF IInv
<1>2. ASSUME NEW c \in Consumers, Subscribe(c) \/ Unsubscribe(c) PROVE StepFacts
  BY <1>2, SubscribeStep, UnsubscribeStep
<1>3. ASSUME NEW s \in Sockets, Opened(s) \/ Closed(s) \/ Handle(s) PROVE StepFacts
  BY <1>3, OpenedStep, ClosedStep, HandleStep
<1>4. CASE \/ \E s \in Sockets : Alone(onmessage(s)) \/ Alone(GoSilent(s))
           \/ Alone(PingTick) \/ Alone(PongTimeout)
  <2>1. WsInv' /\ Quiet
    BY <1>1, <1>4, HeartbeatStep DEF Alone
  <2>2. UNCHANGED <<consumers, applied, sent, filter>>
    BY <1>4 DEF Alone
  <2> QED
    BY <2>1, <2>2, AloneStep
<1>5. CASE Alone(ReshowClosed) \/ Alone(ReconnectTick)
  <2>1. WsInv' /\ Quiet
    BY <1>1, <1>5, OpeningStep DEF Alone
  <2>2. UNCHANGED <<consumers, applied, sent, filter>>
    BY <1>5 DEF Alone
  <2> QED
    BY <2>1, <2>2, AloneStep
<1>6. CASE UNCHANGED vars
  <2>1. WsInv' /\ Quiet
    BY <1>1, <1>6 DEF vars, wsVars, WsInv, WsTypeOK, Known, Quiet, IsOpen
  <2> QED
    BY <1>6, <2>1, AloneStep DEF vars
<1>7. CASE Reshown
  BY <1>7, ReshownStep
<1> QED
  BY <1>2, <1>3, <1>4, <1>5, <1>6, <1>7 DEF Next

-----------------------------------------------------------------------------
(* The invariant *)

\* The lengths and the frames of two sequences, one with the frames of the
\* other and perhaps one more.
LEMMA ExtendsLen ==
  ASSUME NEW f \in Filters, NEW s \in Seq(Frames), NEW t, Extends(f, s, t)
  PROVE  \A n \in 0 .. Len(t) : \/ n \in 0 .. Len(s) /\ Handled(f, t)[n] = Handled(f, s)[n]
                                \/ Handled(f, t)[n] = Final(f, t)
<1>1. Len(s) \in Nat /\ Len(t) \in {Len(s), Len(s) + 1}
  BY DEF Extends
<1>2. \A n \in 0 .. Len(t) : n \in 0 .. Len(s) \/ n = Len(t)
  BY <1>1
<1> QED
  BY <1>2 DEF Extends, Final

\* The invariant, of the current connection.
LEMMA InStep ==
  ASSUME IInv, IsOpen(ws)
  PROVE  /\ ws \in Sockets /\ consumers \in SUBSET Consumers
         /\ filter[ws] \in Filters /\ sent[ws] \in Seq(Frames)
         /\ applied = computeUnion(consumers)
         /\ Final(filter[ws], sent[ws]) = AsFilter(applied)
<1>1. ws \in Sockets
  BY WsIsSocket DEF IInv, IsOpen
<1>2. StreamTypes /\ ServerInStep
  BY DEF IInv
<1>3. /\ applied = computeUnion(consumers)
      /\ FilterAfter(ws)[Len(sent[ws])] = AsFilter(applied)
  BY <1>2 DEF ServerInStep, AsFilter
<1> QED
  BY <1>1, <1>2, <1>3 DEF StreamTypes, Final, FilterAfter

\* A connection that has just opened: nothing is under way, and the filter is
\* empty; or it was in step already.
LEMMA ResyncedFrom ==
  ASSUME IInv, ws \in Sockets, Resynced
  PROVE  /\ filter[ws] \in Filters /\ sent[ws] \in Seq(Frames)
         /\ Final(filter[ws], sent[ws]) \in {NoFilter, AsFilter(computeUnion(consumers))}
<1>1. filter[ws] \in Filters /\ sent[ws] \in Seq(Frames)
  BY DEF IInv, StreamTypes
<1>2. CASE IsOpen(ws)
  BY <1>1, <1>2, InStep
<1>3. CASE sent[ws] = <<>> /\ filter[ws] = NoFilter
  BY <1>1, <1>3, HandledNone
<1> QED
  BY <1>1, <1>2, <1>3 DEF Resynced

\* What a move leaves at the end of what is under way.
LEMMA MovesInStep ==
  ASSUME IInv, ws \in Sockets, Moves, consumers' \in SUBSET Consumers
  PROVE  /\ applied' = computeUnion(consumers')
         /\ Final(filter'[ws], sent'[ws]) = AsFilter(applied')
<1>1. consumers \in SUBSET Consumers
  BY DEF IInv, StreamTypes
<1>2. CASE Resynced
  <2> PICK f, s, t : f = filter[ws] /\ s = sent[ws] /\ t = sent'[ws]
    OBVIOUS
  <2>1. /\ consumers' = consumers /\ applied' = computeUnion(consumers)
        /\ filter'[ws] = f /\ t = s \o FullFilter(computeUnion(consumers))
    BY <1>2 DEF Resynced
  <2>2. /\ f \in Filters /\ s \in Seq(Frames)
        /\ Final(f, s) \in {NoFilter, AsFilter(computeUnion(consumers))}
    BY <1>2, ResyncedFrom
  <2>3. Final(f, t) = AsFilter(computeUnion(consumers))
    BY ONLY <1>1, <2>1, <2>2, HandledFull
  <2> QED
    BY <2>1, <2>3
<1>3. CASE IsOpen(ws) /\ Unmoved
  BY <1>3, InStep DEF Unmoved
<1>4. CASE IsOpen(ws) /\ Changed
  <2> PICK f, s, t : f = filter[ws] /\ s = sent[ws] /\ t = sent'[ws]
    OBVIOUS
  <2>1. /\ applied' = computeUnion(consumers') /\ filter'[ws] = f
        /\ t = s \o Deltas(computeUnion(consumers), computeUnion(consumers'))
    BY <1>4, InStep DEF Changed
  <2>2. f \in Filters /\ s \in Seq(Frames) /\ Final(f, s) = AsFilter(computeUnion(consumers))
    BY <1>4, InStep
  <2>3. Follow(s, t, consumers, consumers')
    BY <2>1 DEF Follow
  <2>4. Final(f, t) = AsFilter(computeUnion(consumers'))
    BY ONLY <1>1, consumers' \in SUBSET Consumers, <2>2, <2>3, HandledDeltas
  <2> QED
    BY <2>1, <2>4
<1>5. CASE IsOpen(ws) /\ Read
  <2> PICK f, s, e, t : f = filter[ws] /\ s = sent[ws] /\ e = filter'[ws] /\ t = sent'[ws]
    OBVIOUS
  <2>1. /\ f \in Filters /\ s \in Seq(Frames) /\ Final(f, s) = AsFilter(applied)
        /\ applied = computeUnion(consumers)
    BY <1>5, InStep
  <2>2. FirstHandled(f, s, e, t) /\ UNCHANGED <<consumers, applied>>
    BY <1>5 DEF Read
  <2>3. /\ t \in Seq(Frames) /\ Len(t) + 1 = Len(s)
        /\ \A i \in 0 .. Len(t) : Handled(e, t)[i] = Handled(f, s)[i + 1]
    BY ONLY <2>1, <2>2, HandledTail
  <2>4. Len(t) \in 0 .. Len(t)
    BY <2>3
  <2>5. Final(e, t) = Final(f, s)
    BY <2>3, <2>4 DEF Final
  <2> QED
    BY <2>1, <2>2, <2>5
<1> QED
  BY <1>2, <1>3, <1>4, <1>5 DEF Moves

\* The filter covers c now and after each of the frames.
AllCover(f, s, c) == \A n \in 0 .. Len(s) : Covers(Handled(f, s)[n], c)

\* One frame more starves nobody whom the filter it leaves does not.
LEMMA CoversMore ==
  ASSUME NEW f \in Filters, NEW s \in Seq(Frames), NEW t, Extends(f, s, t),
         NEW c, AllCover(f, s, c), Covers(Final(f, t), c)
  PROVE  AllCover(f, t, c)
<1>1. \A n \in 0 .. Len(t) : \/ n \in 0 .. Len(s) /\ Handled(f, t)[n] = Handled(f, s)[n]
                             \/ Handled(f, t)[n] = Final(f, t)
  BY ExtendsLen
<1> QED
  BY <1>1 DEF AllCover

\* A component that stays mounted is covered by what stands at the end.
LEMMA AtTheEnd ==
  ASSUME NEW cs \in SUBSET Consumers, NEW c \in cs, NEW f, f = AsFilter(computeUnion(cs))
  PROVE  Covers(f, c)
BY UnionCovers

\* No move takes a component's events away on the way to the end.
LEMMA MovesCover ==
  ASSUME IInv, ws \in Sockets, IsOpen(ws), Moves, consumers' \in SUBSET Consumers,
         NEW c \in Consumers, c \in consumers, c \in consumers',
         AllCover(filter[ws], sent[ws], c)
  PROVE  AllCover(filter'[ws], sent'[ws], c)
<1> PICK f, s, e, t : f = filter[ws] /\ s = sent[ws] /\ e = filter'[ws] /\ t = sent'[ws]
  OBVIOUS
<1>1. /\ consumers \in SUBSET Consumers /\ f \in Filters /\ s \in Seq(Frames)
      /\ applied = computeUnion(consumers) /\ Final(f, s) = AsFilter(computeUnion(consumers))
      /\ AllCover(f, s, c)
  BY InStep
<1>2. CASE Resynced
  <2>1. e = f /\ t = s \o FullFilter(computeUnion(consumers))
    BY <1>2 DEF Resynced
  <2>2. Final(f, s) \in {NoFilter, AsFilter(computeUnion(consumers))}
    BY <1>1
  <2>3. Extends(f, s, t) /\ Final(f, t) = AsFilter(computeUnion(consumers))
    BY ONLY <1>1, <2>1, <2>2, HandledFull
  <2>4. Covers(Final(f, t), c)
    BY ONLY <1>1, <2>3, c \in consumers, AtTheEnd
  <2>5. AllCover(f, t, c)
    BY ONLY <1>1, <2>3, <2>4, CoversMore
  <2> QED
    BY <2>1, <2>5
<1>3. CASE Unmoved
  BY <1>1, <1>3 DEF Unmoved
<1>4. CASE Changed
  <2>1. e = f /\ Follow(s, t, consumers, consumers')
    BY <1>1, <1>4 DEF Changed, Follow
  <2>2. /\ Final(f, t) = AsFilter(computeUnion(consumers'))
        /\ WideBetween(f, s, t, consumers, consumers')
    BY ONLY <1>1, <2>1, consumers' \in SUBSET Consumers, HandledDeltas
  <2>3. PICK m : /\ Extends(f, s, m) /\ Extends(f, m, t) /\ Covers(Final(f, m), c)
    BY <2>2 DEF WideBetween
  <2>4. m \in Seq(Frames)
    BY <2>3 DEF Extends
  <2>5. AllCover(f, m, c)
    BY ONLY <1>1, <2>3, CoversMore
  <2>6. Covers(Final(f, t), c)
    BY ONLY <2>2, consumers' \in SUBSET Consumers, c \in consumers', AtTheEnd
  <2>7. AllCover(f, t, c)
    BY ONLY <1>1, <2>3, <2>4, <2>5, <2>6, CoversMore
  <2> QED
    BY <2>1, <2>7
<1>5. CASE Read
  <2>1. FirstHandled(f, s, e, t)
    BY <1>5 DEF Read
  <2>2. /\ t \in Seq(Frames) /\ Len(t) + 1 = Len(s)
        /\ \A i \in 0 .. Len(t) : Handled(e, t)[i] = Handled(f, s)[i + 1]
    BY ONLY <1>1, <2>1, HandledTail
  <2>3. \A i \in 0 .. Len(t) : i + 1 \in 0 .. Len(s)
    BY <2>2
  <2> QED
    BY <1>1, <2>2, <2>3 DEF AllCover
<1> QED
  BY <1>2, <1>3, <1>4, <1>5 DEF Moves

\* At first there is no connection.
LEMMA InitInv == Init => IInv
<1> SUFFICES ASSUME Init PROVE IInv
  OBVIOUS
<1>1. ~IsOpen(ws)
  BY DEF Init, WsInit, IsOpen
<1>2. 0 \in 0 .. MaxReconnectAttempts /\ 0 \in 0 .. MaxFaults
  BY Constants
<1>3. WsInv
  BY <1>1, <1>2 DEF Init, WsInit, WsInv, WsTypeOK, Known
<1>4. <<>> \in Seq(Frames)
  OBVIOUS
<1>5. StreamTypes /\ Fresh
  BY <1>4, NoFilterType DEF Init, StreamTypes, Fresh
<1> QED
  BY <1>1, <1>3, <1>5 DEF IInv, ServerInStep

\* The invariant after a step, and what the step does.
LEMMA InvStep ==
  ASSUME IInv, [Next]_vars
  PROVE  IInv' /\ (IsOpen(ws)' => Moves /\ ws \in Sockets)
<1>1. WsInv' /\ StreamTypes' /\ Fresh' /\ (IsOpen(ws)' => Moves)
  BY StepCases DEF StepFacts
<1>2. consumers' \in SUBSET Consumers
  BY <1>1 DEF StreamTypes
<1>3. IsOpen(ws)' => ws' \in Sockets
  BY <1>1, WsIsSocketNext DEF IsOpen
<1>4. IsOpen(ws)' => Moves /\ ws' = ws /\ ws \in Sockets
  BY <1>1, <1>3 DEF Moves
<1>5. ASSUME IsOpen(ws)'
      PROVE  /\ applied' = computeUnion(consumers')
             /\ Final(filter'[ws], sent'[ws]) = AsFilter(applied')
  BY <1>2, <1>4, <1>5, MovesInStep
<1>6. ServerInStep'
  BY <1>4, <1>5 DEF ServerInStep, Final, FilterAfter, AsFilter
<1> QED
  BY <1>1, <1>4, <1>6 DEF IInv

-----------------------------------------------------------------------------
(* Theorems *)

\* The invariants hold together: each step keeps them, and Init has them.
LEMMA Inductive == Spec => []IInv
<1>1. IInv /\ [Next]_vars => IInv'
  BY InvStep
<1> QED
  BY InitInv, <1>1, PTL DEF Spec

\* Every variable keeps its type: the manager's current socket is one of its
\* own that exists, only open sockets fall silent, and attempts stay within
\* maxReconnectAttempts (ws-manager.ts scheduleReconnect).
THEOREM TypeCorrect == Spec => []TypeOK
<1>1. IInv => TypeOK
  BY DEF IInv, WsInv, StreamTypes, Unions, TypeOK
<1> QED
  BY <1>1, Inductive, PTL

\* Whatever is lost, refused, late, shown again or mounted meanwhile, and for
\* any components and bounds: while the current socket is open, what the server
\* will hold once it has read everything under way is the union of what the
\* mounted components want (data-stream.ts syncSubscription and resync,
\* ws.go applySubscribe).
THEOREM ServerFollows == Spec => []ServerInStep
<1>1. IInv => ServerInStep
  BY DEF IInv
<1> QED
  BY <1>1, Inductive, PTL

\* No mounting, unmounting or resync of one component, and no frame the server
\* handles, takes events away from another one that has them all (the comment
\* of data-stream.ts: "no consumer is ever starved").
THEOREM NobodyStarves == Spec => NeverStarved
<1> DEFINE Keeps == \A c \in Consumers :
             (IsOpen(ws) /\ ws' = ws /\ IsOpen(ws)' /\ c \in consumers /\ Settled(c))
               => (c \in consumers' => Settled(c)')
<1>1. IInv /\ [Next]_vars => Keeps
  <2> SUFFICES ASSUME IInv, [Next]_vars, NEW c \in Consumers,
                      IsOpen(ws), ws' = ws, IsOpen(ws)', c \in consumers, Settled(c),
                      c \in consumers'
               PROVE  Settled(c)'
    OBVIOUS
  <2>1. IInv' /\ Moves /\ ws \in Sockets
    BY InvStep
  <2>2. consumers' \in SUBSET Consumers
    BY <2>1 DEF IInv, StreamTypes
  <2>3. AllCover(filter[ws], sent[ws], c)
    BY DEF Settled, FilterAfter, AllCover
  <2>4. AllCover(filter'[ws], sent'[ws], c)
    BY <2>1, <2>2, <2>3, MovesCover
  <2> QED
    BY <2>4 DEF Settled, FilterAfter, AllCover
<1>2. IInv /\ [Next]_vars => [Keeps]_vars
  BY <1>1
<1> QED
  BY <1>2, Inductive, PTL DEF Spec, NeverStarved
=============================================================================
