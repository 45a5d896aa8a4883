---------------------------- MODULE QueuedProofs ----------------------------
(***************************************************************************)
(* For any number of calls, waiters and ids: dropping one promise never    *)
(* cancels another's value, the queue is drained in the order of its       *)
(* pushes, nobody hears of a resolution while a call is queued, and the    *)
(* calls reach the capability in the order in which they were made.        *)
(* Every step of the client is a step of its SenderQueue, so that the      *)
(* first two are proved of SenderQueue alone.                              *)
(***************************************************************************)
EXTENDS Queued, FiniteSetTheorems, TLAPS

\* The empty map, whichever way it was emptied.
LEMMA EmptyMap == ASSUME NEW f, DOMAIN << >> = {} PROVE Restrict(f, {}) = << >>
  BY DEF Restrict

\* A Remover holds the id of its own value as long as that value is queued: ids
\* are handed out upwards, and drain, which starts them again, is the last use.
OwnIds ==
    /\ next_id \in Nat
    /\ outcome \in [Values -> {"none", "pending", "ok", "canceled"}]
    /\ remover \in [Values -> Ids \cup {None}]
    /\ drained \in BOOLEAN /\ alive \in BOOLEAN
    /\ (drained \/ ~ alive) => map = << >>
    /\ \A i \in DOMAIN map : i \in Nat /\ i < next_id
    /\ ~ drained => \A v \in Values : outcome[v] # "none" => remover[v] \in Nat /\ remover[v] < next_id
    /\ \A v \in Values : outcome[v] # "none" /\ remover[v] \in DOMAIN map => map[remover[v]] = v

SInv == OwnIds /\ CanceledOnlyWithQueue

\* The empty map has no ids.
LEMMA NoDomain == DOMAIN << >> = {}
  OBVIOUS

\* The invariant holds initially.
LEMMA InitSInv == Init => SInv
  <1> SUFFICES ASSUME Init PROVE SInv
    OBVIOUS
  <1>1. /\ next_id \in Nat
        /\ outcome \in [Values -> {"none", "pending", "ok", "canceled"}]
        /\ remover \in [Values -> Ids \cup {None}]
        /\ \A v \in Values : outcome[v] = "none"
    BY DEF Init
  <1>2. drained \in BOOLEAN /\ alive \in BOOLEAN
    BY Zenon DEF Init
  <1>3. map = << >> /\ DOMAIN map = {}
    BY NoDomain, Zenon DEF Init
  <1> QED
    BY <1>1, <1>2, <1>3 DEF SInv, OwnIds, CanceledOnlyWithQueue

\* push hands out an id that nothing in the map has.
LEMMA PushesSInv ==
    ASSUME SInv, NEW v \in Values, Push(v) \/ PushDetach(v)
    PROVE  SInv'
  BY MaxIdAssumption, ReusedIsOff, SMTT(30)
  DEF SInv, OwnIds, CanceledOnlyWithQueue, Push, PushDetach, Pushes, Insert, Ids

\* A Remover takes out its own value or nothing.
LEMMA DropPromiseSInv ==
    ASSUME SInv, NEW v \in Values, DropPromise(v)
    PROVE  SInv'
  <1>1. /\ DOMAIN map' \subseteq DOMAIN map
        /\ \A i \in DOMAIN map' : map'[i] = map[i]
        /\ alive => DOMAIN map' = DOMAIN map \ {remover[v]}
        /\ ~ alive => map' = map
    BY DEF DropPromise, RemoverDrop, Restrict
  <1>2. (drained' \/ ~ alive') => map' = << >>
    BY NoDomain, EmptyMap, Zenon DEF DropPromise, RemoverDrop, SInv, OwnIds
  <1>3. \A w \in Values : w # v /\ outcome[w] = "pending" => w \notin Range(map) \ Range(map')
    <2>1. outcome[v] # "none"
      BY Zenon DEF DropPromise
    <2>2. \A x \in DOMAIN map : x \notin DOMAIN map' => map[x] = v
      BY <1>1, <2>1 DEF SInv, OwnIds
    <2> QED
      BY <1>1, <2>2 DEF Range
  <1>4. /\ outcome' \in [Values -> {"none", "pending", "ok", "canceled"}]
        /\ outcome'[v] = "none"
        /\ \A w \in Values : w # v => outcome'[w] = outcome[w]
    BY <1>3 DEF DropPromise, Canceled, SInv, OwnIds
  <1>5. /\ remover' \in [Values -> Ids \cup {None}]
        /\ \A w \in Values : w # v => remover'[w] = remover[w]
    BY DEF DropPromise, SInv, OwnIds
  <1>6. next_id' = next_id /\ alive' = alive /\ drained' = drained
    BY Zenon DEF DropPromise
  <1>7. drained' \in BOOLEAN /\ alive' \in BOOLEAN
    BY <1>6, Zenon DEF SInv, OwnIds
  <1>8. OwnIds'
    BY <1>1, <1>2, <1>4, <1>5, <1>6, <1>7 DEF SInv, OwnIds
  <1>9. CanceledOnlyWithQueue'
    BY <1>4, <1>6 DEF SInv, CanceledOnlyWithQueue
  <1> QED
    BY <1>8, <1>9 DEF SInv

\* drain and the drop of the queue leave nothing to remove.
LEMMA EmptiedSInv == SInv /\ (Drain \/ DropQueue) => SInv'
  <1> SUFFICES ASSUME SInv, Drain \/ DropQueue PROVE SInv'
    OBVIOUS
  <1>1. map' = << >> /\ DOMAIN map' = {}
    BY NoDomain, Zenon DEF Drain, DropQueue
  <1>2. drained' \in BOOLEAN /\ alive' \in BOOLEAN
    BY Zenon DEF Drain, DropQueue, SInv, OwnIds
  <1>3. CASE Drain
    BY <1>1, <1>2, <1>3 DEF Drain, SInv, OwnIds, CanceledOnlyWithQueue
  <1>4. CASE DropQueue
    BY <1>1, <1>2, <1>4 DEF DropQueue, Canceled, SInv, OwnIds, CanceledOnlyWithQueue
  <1> QED
    BY <1>3, <1>4

\* Every step of the queue keeps the invariant.
LEMMA NextSInv == SInv /\ [Next]_vars => SInv'
  <1>1. SInv /\ UNCHANGED vars => SInv'
    BY DEF vars, SInv, OwnIds, CanceledOnlyWithQueue
  <1> QED
    BY <1>1, PushesSInv, DropPromiseSInv, EmptiedSInv DEF Next

\* Every step of the client leaves its queue alone or is one of SenderQueue's.
LEMMA QNextIsNext == [QNext]_all_vars => [Next]_vars
  <1> SUFFICES ASSUME [QNext]_all_vars PROVE [Next]_vars
    OBVIOUS
  <1>1. CASE GetPipelinedCap \/ PipedCall \/ DropPipeline \/ (\E r \in Outcomes : Ready(r))
             \/ (\E w \in Waiters : WhenMoreResolved(w)) \/ UNCHANGED all_vars
    BY <1>1 DEF GetPipelinedCap, PipedCall, DropPipeline, Ready, WhenMoreResolved, all_vars
  <1>2. CASE DropHandle
    BY <1>2 DEF DropHandle, Next
  <1>3. CASE Drive \/ \E r \in Outcomes : ResolvePipeline(r)
    BY <1>3, Zenon DEF Drive, ResolvePipeline, ResolveClient, Next
  <1>4. CASE \E v \in Values : Call(v) \/ CancelCall(v)
    BY <1>4 DEF Call, CancelCall, Next
  <1> QED
    BY <1>1, <1>2, <1>3, <1>4 DEF QNext

\* Dropping the promise of one call removes that call and no other: a call fails
\* with "SenderQueue canceled" only when the client goes with its queue.
THEOREM OnlyTheQueueCancels == QSpec => []CanceledOnlyWithQueue
  <1>1. QInit => SInv
    BY InitSInv DEF QInit
  <1>2. SInv => CanceledOnlyWithQueue
    BY DEF SInv
  <1> QED
    BY <1>1, <1>2, NextSInv, QNextIsNext, PTL DEF QSpec
----------------------------------------------------------------------------
\* A client that knows its capability queues nothing, and whoever has been told
\* was told by a client that knows it.
TInv ==
    /\ ready \in Outcomes \cup {None}
    /\ waiter \in [Waiters -> States]
    /\ made = << >> => map = << >>
    /\ client_redirect # None => map = << >>
    /\ \A w \in Waiters : waiter[w] = "told" => client_redirect # None

\* The invariant holds initially.
LEMMA InitTInv == QInit => TInv
  BY DEF QInit, Init, TInv, States

\* What is emptied stays empty but for a push.
LEMMA StaysEmpty == ASSUME NEW v, DropPromise(v), map = << >> PROVE map' = << >>
  <1>1. DOMAIN map \ {remover[v]} = {}
    BY NoDomain
  <1> QED
    BY <1>1, EmptyMap, NoDomain DEF DropPromise, RemoverDrop

\* A resolution drains the queue before it tells the waiters.
LEMMA ResolveTInv ==
    ASSUME TInv, NEW r \in Outcomes, ResolveClient(r), made' = made,
           ready' \in Outcomes
    PROVE  TInv'
  BY NoneAssumption DEF TInv, ResolveClient, Drain, Outcomes, States

\* Every step of the client keeps the invariant.
LEMMA NextTInv == TInv /\ [QNext]_all_vars => TInv'
  <1> SUFFICES ASSUME TInv, [QNext]_all_vars PROVE TInv'
    OBVIOUS
  <1> USE DEF TInv
  <1>1. CASE GetPipelinedCap
    BY <1>1 DEF GetPipelinedCap, vars
  <1>2. CASE PipedCall \/ DropPipeline \/ (\E r \in Outcomes : Ready(r)) \/ UNCHANGED all_vars
    BY <1>2 DEF PipedCall, DropPipeline, Ready, all_vars, queued_vars, vars
  <1>3. CASE DropHandle
    BY <1>3 DEF DropHandle, DropQueue, CanceledWaiters, vars, States
  <1>4. ASSUME NEW v \in Values, Call(v) PROVE TInv'
    <2>1. made' # << >>
      BY <1>4 DEF Call
    <2> QED
      BY <1>4, <2>1 DEF Call, vars
  <1>5. ASSUME NEW v \in Values, CancelCall(v) PROVE TInv'
    BY <1>5, StaysEmpty DEF CancelCall, CanceledWaiters, States
  <1>6. ASSUME NEW w \in Waiters, WhenMoreResolved(w) PROVE TInv'
    BY <1>6 DEF WhenMoreResolved, vars, States
  <1>7. ASSUME NEW r \in Outcomes, ResolvePipeline(r) PROVE TInv'
    BY <1>7, ResolveTInv DEF ResolvePipeline, vars
  <1>8. CASE Drive
    BY <1>8, ResolveTInv DEF Drive
  <1> QED
    BY <1>1, <1>2, <1>3, <1>4, <1>5, <1>6, <1>7, <1>8 DEF QNext

\* ClientInner::resolve forwards what is queued before it answers a
\* when_more_resolved(), and nothing is queued afterwards.
THEOREM ForwardsBeforeTelling == QSpec => []ToldAfterForwarding
  <1>1. TInv => ToldAfterForwarding
    BY DEF TInv, ToldAfterForwarding
  <1> QED
    BY <1>1, InitTInv, NextTInv, PTL DEF QSpec
----------------------------------------------------------------------------
(* Lists of ids: a finite set of ids has one list in increasing order *)

\* s lists the ids of S upwards.
Lists(s, S) ==
    /\ s \in Bijection(1 .. Cardinality(S), S)
    /\ \A i, j \in DOMAIN s : i < j => s[i] < s[j]

\* What a list of ids is.
LEMMA ListFacts ==
    ASSUME NEW S, NEW s, Lists(s, S)
    PROVE  /\ s \in [1 .. Cardinality(S) -> S] /\ DOMAIN s = 1 .. Cardinality(S)
           /\ \A x \in S : \E i \in 1 .. Cardinality(S) : s[i] = x
           /\ \A i, j \in 1 .. Cardinality(S) : i < j => s[i] < s[j]
  <1>1. s \in [1 .. Cardinality(S) -> S] /\ \A x \in S : \E i \in 1 .. Cardinality(S) : s[i] = x
    BY Zenon DEF Lists, Bijection, Injection, Surjection
  <1>2. DOMAIN s = 1 .. Cardinality(S)
    BY <1>1
  <1> QED
    BY <1>1, <1>2, Zenon DEF Lists

\* n elements, upwards, that are all of S.
Upwards(s, n, S) ==
    /\ S \subseteq Nat /\ n \in Nat /\ s \in [1 .. n -> S]
    /\ \A x \in S : \E i \in 1 .. n : s[i] = x
    /\ \A i, j \in 1 .. n : i < j => s[i] < s[j]

\* And what makes one.
LEMMA IsList ==
    ASSUME NEW S, NEW s, NEW n, n = Cardinality(S), Upwards(s, n, S)
    PROVE  Lists(s, S)
  <1> USE DEF Upwards
  <1>1. DOMAIN s = 1 .. n
    OBVIOUS
  <1>2. ASSUME NEW i \in 1 .. n, NEW j \in 1 .. n, s[i] = s[j] PROVE i = j
    <2>1. s[i] \in Nat /\ s[j] \in Nat
      BY Zenon
    <2>2. ~ (s[i] < s[j]) /\ ~ (s[j] < s[i])
      BY <1>2, <2>1
    <2>3. ~ (i < j) /\ ~ (j < i)
      BY <2>2, Zenon
    <2> QED
      BY <2>3
  <1>3. s \in Injection(1 .. n, S)
    BY <1>1, <1>2, Zenon DEF Injection, IsInjective
  <1>4. s \in Surjection(1 .. n, S)
    BY Zenon DEF Surjection
  <1> QED
    BY <1>1, <1>3, <1>4, Zenon DEF Lists, Bijection

\* A set of ids has one list.
LEMMA ListIsUnique ==
    ASSUME NEW S, S \subseteq Nat, IsFiniteSet(S), NEW s, NEW t, Lists(s, S), Lists(t, S)
    PROVE  s = t
  <1> DEFINE n == Cardinality(S)
             Differ == {k \in 1 .. n : s[k] # t[k]}
  <1>1. n \in Nat
    BY FS_CardinalityType
  <1>2. /\ s \in [1 .. n -> S] /\ t \in [1 .. n -> S]
        /\ \A x \in S : (\E i \in 1 .. n : s[i] = x) /\ (\E i \in 1 .. n : t[i] = x)
        /\ \A i, j \in 1 .. n : i < j => s[i] < s[j] /\ t[i] < t[j]
    <2>1. /\ s \in [1 .. n -> S] /\ \A x \in S : \E i \in 1 .. n : s[i] = x
          /\ \A i, j \in 1 .. n : i < j => s[i] < s[j]
      BY ListFacts, Zenon
    <2>2. /\ t \in [1 .. n -> S] /\ \A x \in S : \E i \in 1 .. n : t[i] = x
          /\ \A i, j \in 1 .. n : i < j => t[i] < t[j]
      BY ListFacts, Zenon
    <2> QED
      BY <2>1, <2>2, Zenon
  <1> HIDE DEF n
  <1>3. ASSUME Differ # {} PROVE FALSE
    <2>0. Differ \subseteq Nat
      BY <1>1
    <2>1. PICK k \in Differ : \A m \in Differ : ~ (<<m, k>> \in OpToRel(<, Nat))
      BY <1>3, <2>0, WFMin, NatLessThanWellFounded, Zenon
    <2>2. \A m \in Differ : ~ (m < k)
      <3> HIDE DEF Differ
      <3> QED
        BY <2>0, <2>1, Zenon DEF OpToRel
    <2>3. k \in 1 .. n /\ s[k] # t[k] /\ \A m \in 1 .. n : m < k => s[m] = t[m]
      BY <2>2
    <2> HIDE DEF Differ
    <2>4. s[k] \in S /\ t[k] \in S /\ s[k] \in Nat /\ t[k] \in Nat
      BY <1>2, <2>3, Zenon
    <2>5. PICK i \in 1 .. n : t[i] = s[k]
      BY <1>2, <2>4, Zenon
    <2>6. PICK j \in 1 .. n : s[j] = t[k]
      BY <1>2, <2>4, Zenon
    <2>7. i \in Int /\ j \in Int /\ k \in Int
      BY <1>1, <2>3
    <2>8. ~ (i < k)
      <3> SUFFICES ASSUME i < k PROVE FALSE
        OBVIOUS
      <3>1. s[i] = s[k] /\ s[i] < s[k]
        BY <1>2, <2>3, <2>5, Zenon
      <3> QED
        BY <2>4, <3>1
    <2>9. ~ (j < k)
      <3> SUFFICES ASSUME j < k PROVE FALSE
        OBVIOUS
      <3>1. t[j] = t[k] /\ t[j] < t[k]
        BY <1>2, <2>3, <2>6, Zenon
      <3> QED
        BY <2>4, <3>1
    <2>10. k < i /\ k < j
      BY <2>3, <2>5, <2>6, <2>7, <2>8, <2>9
    <2>11. t[k] < s[k] /\ s[k] < t[k]
      BY <1>2, <2>3, <2>5, <2>6, <2>10, Zenon
    <2> QED
      BY <2>4, <2>11
  <1>4. \A k \in 1 .. n : s[k] = t[k]
    BY <1>3
  <1>5. s = [k \in 1 .. n |-> s[k]] /\ t = [k \in 1 .. n |-> t[k]]
    BY <1>2
  <1> QED
    BY <1>4, <1>5, Zenon

\* A new largest id comes last.
LEMMA ListAppend ==
    ASSUME NEW S, S \subseteq Nat, IsFiniteSet(S), NEW s, Lists(s, S), NEW x \in Nat, \A y \in S : y < x
    PROVE  /\ Cardinality(S \cup {x}) = Cardinality(S) + 1
           /\ Lists([k \in 1 .. Cardinality(S) + 1 |-> IF k = Cardinality(S) + 1 THEN x ELSE s[k]],
                    S \cup {x})
  <1> DEFINE n == Cardinality(S)
             t == [k \in 1 .. n + 1 |-> IF k = n + 1 THEN x ELSE s[k]]
  <1>1. n \in Nat
    BY FS_CardinalityType
  <1>2. /\ s \in [1 .. n -> S]
        /\ \A y \in S : \E i \in 1 .. n : s[i] = y
        /\ \A i, j \in 1 .. n : i < j => s[i] < s[j]
    BY ListFacts, Zenon
  <1>3. x \notin S
    OBVIOUS
  <1>4. Cardinality(S \cup {x}) = n + 1
    BY <1>3, FS_AddElement, Zenon
  <1> HIDE DEF n
  <1>5. t \in [1 .. n + 1 -> S \cup {x}] /\ n + 1 \in Nat /\ S \cup {x} \subseteq Nat
    BY <1>1, <1>2
  <1>6. \A y \in S \cup {x} : \E i \in 1 .. n + 1 : t[i] = y
    <2>1. \A i \in 1 .. n : i \in 1 .. n + 1 /\ t[i] = s[i]
      BY <1>1
    <2>2. n + 1 \in 1 .. n + 1 /\ t[n + 1] = x
      BY <1>1
    <2> HIDE DEF t
    <2> QED
      BY <1>2, <2>1, <2>2, Zenon
  <1>7. \A i, j \in 1 .. n + 1 : i < j => t[i] < t[j]
    <2> SUFFICES ASSUME NEW i \in 1 .. n + 1, NEW j \in 1 .. n + 1, i < j PROVE t[i] < t[j]
      OBVIOUS
    <2>1. i \in 1 .. n /\ t[i] = s[i]
      BY <1>1
    <2>2. CASE j = n + 1
      <3>1. t[j] = x /\ s[i] \in S
        BY <1>1, <1>2, <2>1, <2>2
      <3> QED
        BY <2>1, <3>1, Zenon
    <2>3. CASE j # n + 1
      <3>1. j \in 1 .. n /\ t[j] = s[j]
        BY <1>1, <2>3
      <3> QED
        BY <1>2, <2>1, <3>1, Zenon
    <2> QED
      BY <2>2, <2>3
  <1> HIDE DEF t
  <1>8. Lists(t, S \cup {x})
    <2>1. Upwards(t, n + 1, S \cup {x})
      BY <1>5, <1>6, <1>7, Zenon DEF Upwards
    <2> QED
      BY <1>4, <2>1, IsList, Zenon
  <1> QED
    BY <1>4, <1>8 DEF t, n

\* An id goes, and the ones behind it move up.
LEMMA ListRemove ==
    ASSUME NEW S, S \subseteq Nat, IsFiniteSet(S), NEW s, Lists(s, S), NEW p \in 1 .. Cardinality(S)
    PROVE  /\ Cardinality(S \ {s[p]}) = Cardinality(S) - 1
           /\ Lists([k \in 1 .. Cardinality(S) - 1 |-> IF k < p THEN s[k] ELSE s[k + 1]], S \ {s[p]})
  <1> DEFINE n == Cardinality(S)
             x == s[p]
             t == [k \in 1 .. n - 1 |-> IF k < p THEN s[k] ELSE s[k + 1]]
  <1>1. n \in Nat
    BY FS_CardinalityType
  <1>2. /\ s \in [1 .. n -> S]
        /\ \A y \in S : \E i \in 1 .. n : s[i] = y
        /\ \A i, j \in 1 .. n : i < j => s[i] < s[j]
    BY ListFacts, Zenon
  <1>3. x \in S
    BY <1>2
  <1>4. Cardinality(S \ {x}) = n - 1
    BY <1>3, FS_RemoveElement, Zenon
  <1>5. p \in 1 .. n /\ n - 1 \in Nat
    BY <1>1
  <1> HIDE DEF n
  <1>6. \A i \in 1 .. n : i # p => s[i] # x
    <2> SUFFICES ASSUME NEW i \in 1 .. n, i # p PROVE s[i] # s[p]
      OBVIOUS
    <2>1. i < p \/ p < i
      BY <1>1, <1>5
    <2>2. s[i] < s[p] \/ s[p] < s[i]
      BY <1>2, <1>5, <2>1, Zenon
    <2>3. s[i] \in Nat /\ s[p] \in Nat
      BY <1>2, <1>5, Zenon
    <2> QED
      BY <2>2, <2>3
  <1>7. t \in [1 .. n - 1 -> S \ {x}]
    <2> SUFFICES ASSUME NEW k \in 1 .. n - 1
                 PROVE  (IF k < p THEN s[k] ELSE s[k + 1]) \in S \ {x}
      BY Zenon
    <2>1. k \in 1 .. n /\ k + 1 \in 1 .. n /\ (k < p => k # p) /\ (~ (k < p) => k + 1 # p)
      BY <1>1, <1>5
    <2>2. (k # p => s[k] \in S \ {x}) /\ (k + 1 # p => s[k + 1] \in S \ {x})
      BY <1>2, <1>6, <2>1
    <2> QED
      BY <2>1, <2>2
  <1>8. \A y \in S \ {x} : \E i \in 1 .. n - 1 : t[i] = y
    <2> SUFFICES ASSUME NEW y \in S \ {x} PROVE \E i \in 1 .. n - 1 : t[i] = y
      OBVIOUS
    <2>1. PICK i \in 1 .. n : s[i] = y
      BY <1>2, Zenon
    <2>2. i # p
      BY <2>1
    <2>3. CASE i < p
      <3>1. i \in 1 .. n - 1
        BY <1>1, <1>5, <2>3
      <3>2. t[i] = s[i]
        BY <2>3, <3>1
      <3> QED
        BY <2>1, <3>1, <3>2, Zenon
    <2>4. CASE p < i
      <3>1. i - 1 \in 1 .. n - 1 /\ ~ (i - 1 < p) /\ (i - 1) + 1 = i
        BY <1>1, <1>5, <2>4
      <3>2. t[i - 1] = s[(i - 1) + 1]
        BY <3>1, Zenon
      <3>3. t[i - 1] = y
        BY <2>1, <3>1, <3>2, Zenon
      <3> QED
        BY <3>1, <3>3, Zenon
    <2> QED
      BY <1>1, <1>5, <2>2, <2>3, <2>4
  <1>9. \A i, j \in 1 .. n - 1 : i < j => t[i] < t[j]
    <2> SUFFICES ASSUME NEW i \in 1 .. n - 1, NEW j \in 1 .. n - 1, i < j PROVE t[i] < t[j]
      OBVIOUS
    <2> DEFINE a == IF i < p THEN i ELSE i + 1
               b == IF j < p THEN j ELSE j + 1
    <2>1. a \in 1 .. n /\ b \in 1 .. n /\ a < b
      BY <1>1, <1>5
    <2>2. t[i] = s[a] /\ t[j] = s[b]
      BY <1>1, <1>5
    <2> HIDE DEF a, b, t
    <2>3. s[a] < s[b]
      BY <1>2, <2>1, Zenon
    <2> QED
      BY <2>2, <2>3
  <1> HIDE DEF t, x
  <1>11. Lists(t, S \ {x})
    <2>1. S \ {x} \subseteq Nat
      BY Zenon
    <2>2. Upwards(t, n - 1, S \ {x})
      BY <1>5, <1>7, <1>8, <1>9, <2>1, Zenon DEF Upwards
    <2> QED
      BY <1>4, <2>2, IsList, Zenon
  <1> QED
    BY <1>4, <1>11 DEF t, n, x

\* No ids, no list.
LEMMA EmptyList == Lists(<< >>, {}) /\ IsFiniteSet({}) /\ Cardinality({}) = 0
  <1>1. IsFiniteSet({}) /\ Cardinality({}) = 0
    BY FS_EmptySet, Zenon
  <1>2. << >> \in [1 .. 0 -> {}] /\ \A i, j \in 1 .. 0 : FALSE
    OBVIOUS
  <1>3. Cardinality({}) \in Nat /\ {} \subseteq Nat
    BY <1>1
  <1>4. << >> \in [1 .. Cardinality({}) -> {}] /\ \A i, j \in 1 .. Cardinality({}) : FALSE
    BY <1>1, <1>2, Zenon
  <1>5. Upwards(<< >>, Cardinality({}), {})
    BY <1>3, <1>4, Zenon DEF Upwards
  <1>6. Lists(<< >>, {})
    BY <1>5, IsList, Zenon
  <1> QED
    BY <1>1, <1>6
----------------------------------------------------------------------------
(* The queue is a FIFO *)

\* A concatenation as a function.
LEMMA ConcatIsMap ==
    ASSUME NEW V, NEW s \in Seq(V), NEW t \in Seq(V)
    PROVE  s \o t \in [1 .. Len(s) + Len(t) -> V]
  <1>1. s \o t \in Seq(V) /\ Len(s \o t) = Len(s) + Len(t)
    OBVIOUS
  <1> DEFINE u == s \o t
  <1>2. u \in Seq(V) /\ Len(u) = Len(s) + Len(t)
    BY <1>1
  <1> HIDE DEF u
  <1>3. u \in [1 .. Len(u) -> V]
    BY <1>2
  <1> QED
    BY <1>2, <1>3 DEF u

\* An appended sequence as a function.
LEMMA AppendIsMap ==
    ASSUME NEW V, NEW s \in Seq(V), NEW v \in V
    PROVE  Append(s, v) = [k \in 1 .. Len(s) + 1 |-> IF k = Len(s) + 1 THEN v ELSE s[k]]
  <1> DEFINE u == Append(s, v)
  <1>1. u \in Seq(V) /\ Len(u) = Len(s) + 1
        /\ \A k \in 1 .. Len(s) + 1 : u[k] = IF k = Len(s) + 1 THEN v ELSE s[k]
    OBVIOUS
  <1> HIDE DEF u
  <1>2. u \in [1 .. Len(u) -> V]
    BY <1>1
  <1>3. u = [k \in 1 .. Len(u) |-> u[k]]
    BY <1>2, Zenon
  <1>4. u = [k \in 1 .. Len(s) + 1 |-> IF k = Len(s) + 1 THEN v ELSE s[k]]
    BY <1>1, <1>3, Zenon
  <1> QED
    BY <1>4 DEF u

\* And its elements.
LEMMA AppendElements ==
    ASSUME NEW V, NEW s \in Seq(V), NEW v \in V
    PROVE  /\ Append(s, v) \in Seq(V) /\ DOMAIN Append(s, v) = 1 .. Len(s) + 1
           /\ Append(s, v)[Len(s) + 1] = v
           /\ \A i \in DOMAIN s : i \in DOMAIN Append(s, v) /\ Append(s, v)[i] = s[i]
           /\ \A i \in DOMAIN Append(s, v) : i \in DOMAIN s \/ i = Len(s) + 1
  <1>1. Append(s, v) \in Seq(V) /\ Len(s) \in Nat /\ DOMAIN s = 1 .. Len(s)
    OBVIOUS
  <1>2. Append(s, v) = [k \in 1 .. Len(s) + 1 |-> IF k = Len(s) + 1 THEN v ELSE s[k]]
    BY AppendIsMap
  <1> QED
    BY <1>1, <1>2

\* The elements behind the one that is taken out move up.
LEMMA WithoutIs ==
    ASSUME NEW V, NEW s \in Seq(V), NEW p \in 1 .. Len(s)
    PROVE  Without(s, p) = [k \in 1 .. Len(s) - 1 |-> IF k < p THEN s[k] ELSE s[k + 1]]
  <1> DEFINE a == SubSeq(s, 1, p - 1)
             b == SubSeq(s, p + 1, Len(s))
             t == [k \in 1 .. Len(s) - 1 |-> IF k < p THEN s[k] ELSE s[k + 1]]
  <1>1. /\ a \in Seq(V) /\ Len(a) = p - 1 /\ \A k \in 1 .. p - 1 : a[k] = s[k]
        /\ b \in Seq(V) /\ Len(b) = Len(s) - p /\ \A k \in 1 .. Len(s) - p : b[k] = s[p + k]
    OBVIOUS
  <1>2. Len(s) \in Nat /\ p \in Nat
    OBVIOUS
  <1> HIDE DEF a, b
  <1>3. a \o b \in [1 .. Len(s) - 1 -> V]
    <2>1. a \in Seq(V) /\ b \in Seq(V) /\ Len(a) + Len(b) = Len(s) - 1
      BY <1>1, <1>2
    <2> QED
      BY <2>1, ConcatIsMap
  <1>4. ASSUME NEW k \in 1 .. Len(s) - 1 PROVE (a \o b)[k] = IF k < p THEN s[k] ELSE s[k + 1]
    <2>1. CASE k < p
      BY <1>1, <1>2, <2>1
    <2>2. CASE ~ (k < p)
      <3>1. k - (p - 1) \in 1 .. Len(s) - p /\ p + (k - (p - 1)) = k + 1
        BY <1>2, <2>2
      <3>2. (a \o b)[k] = b[k - (p - 1)]
        BY <1>1, <1>2, <2>2
      <3>3. b[k - (p - 1)] = s[p + (k - (p - 1))]
        BY <1>1, <3>1, Zenon
      <3>4. (a \o b)[k] = s[k + 1]
        BY <3>1, <3>2, <3>3, Zenon
      <3> QED
        BY <2>2, <3>4, Zenon
    <2> QED
      BY <2>1, <2>2, Zenon
  <1>5. a \o b = t
    <2>1. a \o b = [k \in 1 .. Len(s) - 1 |-> (a \o b)[k]]
      BY <1>3, Zenon
    <2> QED
      BY <1>4, <2>1, Zenon
  <1> QED
    BY <1>5, Zenon DEF Without, a, b

\* The ghost is the queue in the order of some list of its ids, each value is in
\* the queue once, and a call that waits is in it.
FInv ==
    /\ IsFiniteSet(DOMAIN map)
    /\ \E s : /\ Lists(s, DOMAIN map)
              /\ fifo = [k \in 1 .. Cardinality(DOMAIN map) |-> map[s[k]]]
    /\ \A i \in DOMAIN map : map[i] \in Values
    /\ \A i, j \in DOMAIN map : map[i] = map[j] => i = j
    /\ \A v \in Values : outcome[v] = "pending" => remover[v] \in DOMAIN map
    /\ \A v \in Values : outcome[v] = "ok" => drained

\* An empty queue, that no call waits in.
NothingQueued ==
    /\ map = << >> /\ fifo = << >>
    /\ \A v \in Values : outcome[v] # "pending" /\ (outcome[v] = "ok" => drained)

\* The invariant holds of an empty queue.
LEMMA EmptyFInv == NothingQueued => FInv
  <1> SUFFICES ASSUME NothingQueued PROVE FInv
    OBVIOUS
  <1> USE DEF NothingQueued
  <1>1. DOMAIN map = {}
    BY NoDomain, Zenon
  <1>2. Lists(<< >>, DOMAIN map) /\ IsFiniteSet(DOMAIN map) /\ Cardinality(DOMAIN map) = 0
    BY <1>1, EmptyList, Zenon
  <1>3. fifo = [k \in 1 .. 0 |-> map[<< >>[k]]]
    OBVIOUS
  <1>4. \E s : Lists(s, DOMAIN map) /\ fifo = [k \in 1 .. Cardinality(DOMAIN map) |-> map[s[k]]]
    BY <1>2, <1>3, Zenon
  <1>5. \A v \in Values : outcome[v] = "ok" => drained
    OBVIOUS
  <1>6. /\ \A i \in DOMAIN map : map[i] \in Values
        /\ \A i, j \in DOMAIN map : map[i] = map[j] => i = j
        /\ \A v \in Values : outcome[v] = "pending" => remover[v] \in DOMAIN map
    BY <1>1
  <1> QED
    BY <1>2, <1>4, <1>5, <1>6 DEF FInv

\* So the ids that drain follows are that list, and it hands out the ghost.
LEMMA FInvIsFifo == SInv /\ FInv => QueueIsFifo
  <1> SUFFICES ASSUME SInv, FInv PROVE QueueIsFifo
    OBVIOUS
  <1>1. PICK s : Lists(s, DOMAIN map) /\ fifo = [k \in 1 .. Cardinality(DOMAIN map) |-> map[s[k]]]
    BY Zenon DEF FInv
  <1>2. DOMAIN map \subseteq Nat /\ IsFiniteSet(DOMAIN map)
    BY DEF SInv, OwnIds, FInv
  <1>3. Lists(InIdOrder, DOMAIN map)
    BY <1>1, Zenon DEF Lists, InIdOrder
  <1>4. InIdOrder = s
    BY <1>1, <1>2, <1>3, ListIsUnique, Zenon
  <1>5. Len(s) = Cardinality(DOMAIN map)
    <2>1. Cardinality(DOMAIN map) \in Nat /\ s \in [1 .. Cardinality(DOMAIN map) -> DOMAIN map]
      BY <1>1, <1>2, ListFacts, FS_CardinalityType, Zenon
    <2> QED
      BY <2>1
  <1> QED
    BY <1>1, <1>4, <1>5, Zenon DEF QueueIsFifo

\* push adds at the end.
LEMMA PushesFInv ==
    ASSUME SInv, FInv, NEW v \in Values, Push(v) \/ PushDetach(v)
    PROVE  FInv'
  <1> DEFINE D == DOMAIN map
             n == Cardinality(D)
  <1>1. /\ map' = [i \in D \cup {next_id} |-> IF i = next_id THEN v ELSE map[i]]
        /\ fifo' = Append(fifo, v) /\ drained' = drained
        /\ v \notin Range(map) /\ outcome[v] = "none"
    BY Zenon DEF Push, PushDetach, Pushes, Insert
  <1>2. \A i \in D : i \in Nat /\ i < next_id
    BY DEF SInv, OwnIds
  <1>3. D \subseteq Nat /\ IsFiniteSet(D) /\ next_id \in Nat /\ next_id \notin D
    BY <1>2 DEF SInv, OwnIds, FInv
  <1>4. DOMAIN map' = D \cup {next_id}
    BY <1>1
  <1>5. PICK s : Lists(s, D) /\ fifo = [k \in 1 .. n |-> map[s[k]]]
    BY Zenon DEF FInv
  <1>6. n \in Nat
    BY <1>3, FS_CardinalityType, Zenon
  <1> DEFINE t == [k \in 1 .. n + 1 |-> IF k = n + 1 THEN next_id ELSE s[k]]
  <1>7. Cardinality(D \cup {next_id}) = n + 1 /\ Lists(t, D \cup {next_id})
    BY <1>2, <1>3, <1>5, ListAppend, Zenon
  <1>8. s \in [1 .. n -> D]
    BY <1>5, ListFacts, Zenon
  <1> HIDE DEF n, D
  <1>9. fifo' = [k \in 1 .. n + 1 |-> map'[t[k]]]
    <2>1. \A k \in 1 .. n : map[s[k]] \in Values
      BY <1>8, Zenon DEF FInv, D
    <2>2. fifo \in Seq(Values) /\ Len(fifo) = n
      BY <1>5, <1>6, <2>1
    <2>3. fifo' = [k \in 1 .. n + 1 |-> IF k = n + 1 THEN v ELSE fifo[k]]
      <3>1. Append(fifo, v) = [k \in 1 .. Len(fifo) + 1 |-> IF k = Len(fifo) + 1 THEN v ELSE fifo[k]]
        <4> HIDE DEF t
        <4>1. fifo \in Seq(Values) /\ v \in Values
          BY <2>2
        <4> QED
          BY <4>1, AppendIsMap
      <3> QED
        BY <1>1, <2>2, <3>1, Zenon
    <2>4. ASSUME NEW k \in 1 .. n + 1
          PROVE  map'[t[k]] = IF k = n + 1 THEN v ELSE fifo[k]
      <3>1. CASE k = n + 1
        BY <1>1, <3>1
      <3>2. CASE k # n + 1
        <4>1. k \in 1 .. n
          BY <1>6, <3>2
        <4>2. t[k] = s[k] /\ s[k] \in D /\ s[k] # next_id
          BY <1>3, <1>8, <3>2, <4>1
        <4>3. map'[s[k]] = map[s[k]] /\ fifo[k] = map[s[k]]
          BY <1>1, <1>5, <4>1, <4>2
        <4> QED
          BY <3>2, <4>2, <4>3
      <3> QED
        BY <3>1, <3>2
    <2> HIDE DEF t
    <2> QED
      BY <2>3, <2>4, Zenon
  <1> HIDE DEF t
  <1>10. IsFiniteSet(D \cup {next_id})
    BY <1>3, FS_AddElement, Zenon
  <1>11. \A i \in D : map'[i] = map[i]
    BY <1>1, <1>3
  <1>12. map'[next_id] = v
    BY <1>1
  <1>13. /\ \A i \in DOMAIN map' : map'[i] \in Values
         /\ \A i, j \in DOMAIN map' : map'[i] = map'[j] => i = j
    <2>1. /\ \A i \in D : map[i] \in Values /\ map[i] # v
          /\ \A i, j \in D : map[i] = map[j] => i = j
      BY <1>1, Zenon DEF FInv, Range, D
    <2> QED
      BY <1>4, <1>11, <1>12, <2>1
  <1>14. /\ \A w \in Values : outcome'[w] = "pending" => remover'[w] \in DOMAIN map'
         /\ \A w \in Values : outcome'[w] = "ok" => drained'
    <2>1. outcome \in [Values -> {"none", "pending", "ok", "canceled"}]
          /\ remover \in [Values -> Ids \cup {None}]
      BY DEF SInv, OwnIds
    <2>2. /\ \A w \in Values : outcome[w] = "pending" => remover[w] \in D
          /\ \A w \in Values : outcome[w] = "ok" => drained'
      BY <1>1, Zenon DEF FInv, D
    <2>3. CASE Push(v)
      <3>1. /\ remover' = [remover EXCEPT ![v] = next_id]
            /\ outcome' = [outcome EXCEPT ![v] = "pending"]
        BY <2>3, Zenon DEF Push
      <3> QED
        BY <1>4, <2>1, <2>2, <3>1
    <2>4. CASE PushDetach(v)
      <3>1. UNCHANGED <<remover, outcome>>
        BY <2>4, Zenon DEF PushDetach
      <3> QED
        BY <1>4, <2>2, <3>1
    <2> QED
      BY <2>3, <2>4
  <1>15. \E u : Lists(u, DOMAIN map') /\ fifo' = [k \in 1 .. Cardinality(DOMAIN map') |-> map'[u[k]]]
    BY <1>4, <1>7, <1>9, Zenon
  <1> QED
    BY <1>4, <1>10, <1>13, <1>14, <1>15, Zenon DEF FInv

\* A dropped promise takes its value out of the middle.
LEMMA DropPromiseFInv ==
    ASSUME SInv, FInv, NEW v \in Values, DropPromise(v)
    PROVE  FInv'
  <1> DEFINE D == DOMAIN map
             n == Cardinality(D)
             r == remover[v]
  <1>1. /\ DOMAIN map' \subseteq D
        /\ \A i \in DOMAIN map' : map'[i] = map[i]
        /\ alive => DOMAIN map' = D \ {r}
        /\ ~ alive => map' = map
    BY DEF DropPromise, RemoverDrop, Restrict
  <1>2. /\ outcome' \in [Values -> {"none", "pending", "ok", "canceled"}]
        /\ outcome'[v] = "none"
        /\ \A w \in Values : w # v => outcome'[w] = outcome[w]
    <2>1. outcome[v] # "none"
      BY Zenon DEF DropPromise
    <2>2. \A x \in DOMAIN map : x \notin DOMAIN map' => map[x] = v
      BY <1>1, <2>1 DEF SInv, OwnIds
    <2>3. \A w \in Values : w # v => w \notin Range(map) \ Range(map')
      BY <1>1, <2>2 DEF Range
    <2> QED
      BY <2>3 DEF DropPromise, Canceled, SInv, OwnIds
  <1>3. /\ remover' \in [Values -> Ids \cup {None}]
        /\ \A w \in Values : w # v => remover'[w] = remover[w]
    BY DEF DropPromise, SInv, OwnIds
  <1>4. drained' = drained /\ outcome[v] # "none"
    BY Zenon DEF DropPromise
  <1>5. \A w \in Values : outcome'[w] = "ok" => drained'
    <2>1. \A w \in Values : outcome[w] = "ok" => drained'
      BY <1>4, Zenon DEF FInv
    <2> QED
      BY <1>2, <2>1
  <1>6. CASE outcome[v] = "pending"
    <2>1. r \in D /\ map[r] = v
      BY <1>6, Zenon DEF FInv, SInv, OwnIds
    <2>2. DOMAIN map' = D \ {r}
      <3>1. map # << >>
        BY <2>1
      <3> QED
        BY <1>1, <3>1 DEF SInv, OwnIds
    <2>3. PICK s : Lists(s, D) /\ fifo = [k \in 1 .. n |-> map[s[k]]]
      BY Zenon DEF FInv
    <2>4. D \subseteq Nat /\ IsFiniteSet(D)
      BY DEF SInv, OwnIds, FInv
    <2>5. n \in Nat
      BY <2>4, FS_CardinalityType, Zenon
    <2>6. /\ s \in [1 .. n -> D]
          /\ \A x \in D : \E i \in 1 .. n : s[i] = x
          /\ \A i, j \in 1 .. n : i < j => s[i] < s[j]
      BY <2>3, ListFacts, Zenon
    <2>7. PICK p \in 1 .. n : s[p] = r
      BY <2>1, <2>6, Zenon
    <2> DEFINE t == [k \in 1 .. n - 1 |-> IF k < p THEN s[k] ELSE s[k + 1]]
    <2>8. Cardinality(D \ {r}) = n - 1 /\ Lists(t, D \ {r})
      <3>1. Cardinality(D \ {s[p]}) = n - 1 /\ Lists(t, D \ {s[p]})
        BY <2>3, <2>4, ListRemove, Zenon
      <3> QED
        BY <2>7, <3>1, Zenon
    <2> HIDE DEF n, D, r
    <2>9. fifo \in Seq(Values) /\ Len(fifo) = n
      <3>1. \A k \in 1 .. n : map[s[k]] \in Values
        BY <2>6, Zenon DEF FInv, D
      <3> QED
        BY <2>3, <2>5, <3>1
    <2>10. (CHOOSE k \in DOMAIN fifo : fifo[k] = v) = p
      <3>1. DOMAIN fifo = 1 .. n
        BY <2>3
      <3>2. ASSUME NEW k \in 1 .. n, fifo[k] = v PROVE k = p
        <4>1. s[k] \in D /\ map[s[k]] = map[r]
          BY <2>1, <2>3, <2>6, <3>2
        <4>2. s[k] = r
          BY <2>1, <4>1, Zenon DEF FInv, D
        <4>3. s[k] \in Nat /\ s[p] \in Nat /\ s[k] = s[p]
          BY <2>4, <2>6, <2>7, <4>2, Zenon
        <4>4. ~ (k < p) /\ ~ (p < k)
          <5>1. ~ (s[k] < s[p]) /\ ~ (s[p] < s[k])
            BY <4>3
          <5> QED
            BY <2>6, <5>1, Zenon
        <4> QED
          BY <2>5, <4>4
      <3>3. p \in DOMAIN fifo /\ fifo[p] = v
        BY <2>1, <2>3, <2>7, <3>1
      <3> QED
        BY <3>1, <3>2, <3>3, Zenon
    <2>11. fifo' = [k \in 1 .. n - 1 |-> IF k < p THEN fifo[k] ELSE fifo[k + 1]]
      <3>1. fifo' = Without(fifo, p)
        BY <1>6, <2>10, Zenon DEF DropPromise
      <3>2. Without(fifo, p) = [k \in 1 .. Len(fifo) - 1 |-> IF k < p THEN fifo[k] ELSE fifo[k + 1]]
        <4>1. p \in 1 .. Len(fifo)
          BY <2>9, Zenon
        <4> QED
          BY <2>9, <4>1, WithoutIs, Zenon
      <3> QED
        BY <2>9, <3>1, <3>2, Zenon
    <2>12. ASSUME NEW k \in 1 .. n - 1
           PROVE  (IF k < p THEN fifo[k] ELSE fifo[k + 1]) = map'[t[k]]
      <3>1. k \in 1 .. n /\ k + 1 \in 1 .. n
        BY <2>5
      <3>2. fifo[k] = map[s[k]] /\ fifo[k + 1] = map[s[k + 1]]
        BY <2>3, <3>1
      <3>3. t[k] \in D \ {r}
        <4>1. t \in [1 .. Cardinality(D \ {r}) -> D \ {r}]
          BY <2>8, ListFacts, Zenon
        <4> HIDE DEF t
        <4> QED
          BY <2>8, <4>1, Zenon
      <3>4. map'[t[k]] = map[t[k]]
        BY <1>1, <2>2, <3>3, Zenon
      <3> QED
        BY <3>2, <3>4
    <2>13. fifo' = [k \in 1 .. n - 1 |-> map'[t[k]]]
      BY <2>11, <2>12, Zenon
    <2> HIDE DEF t
    <2>14. \E u : Lists(u, DOMAIN map') /\ fifo' = [k \in 1 .. Cardinality(DOMAIN map') |-> map'[u[k]]]
      BY <2>2, <2>8, <2>13, Zenon
    <2>15. IsFiniteSet(DOMAIN map')
      BY <1>1, <2>4, FS_Subset, Zenon DEF D
    <2>16. \A w \in Values : outcome'[w] = "pending" => remover'[w] \in DOMAIN map'
      <3> SUFFICES ASSUME NEW w \in Values, outcome'[w] = "pending" PROVE remover'[w] \in DOMAIN map'
        OBVIOUS
      <3>1. w # v /\ outcome[w] = "pending" /\ remover'[w] = remover[w]
        BY <1>2, <1>3
      <3>2. remover[w] \in D /\ map[remover[w]] = w
        BY <3>1, Zenon DEF FInv, SInv, OwnIds, D
      <3> QED
        BY <2>1, <2>2, <3>1, <3>2
    <2>17. /\ \A i \in DOMAIN map' : map'[i] \in Values
           /\ \A i, j \in DOMAIN map' : map'[i] = map'[j] => i = j
      <3>1. /\ \A i \in D : map[i] \in Values
            /\ \A i, j \in D : map[i] = map[j] => i = j
        BY Zenon DEF FInv, D
      <3> QED
        BY <1>1, <2>2, <3>1
    <2> QED
      BY <1>5, <2>14, <2>15, <2>16, <2>17 DEF FInv
  <1>7. CASE outcome[v] # "pending"
    <2>1. map = << >>
      <3>1. outcome[v] \in {"ok", "canceled"}
        BY <1>4, <1>7 DEF SInv, OwnIds
      <3>2. CASE outcome[v] = "ok"
        BY <3>2 DEF FInv, SInv, OwnIds
      <3>3. CASE outcome[v] = "canceled"
        BY <3>3 DEF SInv, OwnIds, CanceledOnlyWithQueue
      <3> QED
        BY <3>1, <3>2, <3>3
    <2>2. map' = << >>
      BY <2>1, StaysEmpty, Zenon
    <2>3. fifo' = fifo
      BY <1>7, Zenon DEF DropPromise
    <2>4. \A w \in Values : outcome'[w] # "pending"
      BY <1>2, <2>1, NoDomain DEF FInv
    <2>5. fifo = << >>
      <3>1. PICK s : fifo = [k \in 1 .. n |-> map[s[k]]]
        BY Zenon DEF FInv
      <3>2. n = 0
        BY <2>1, NoDomain, EmptyList, Zenon
      <3>3. fifo = [k \in 1 .. 0 |-> map[s[k]]]
        BY <3>1, <3>2, Zenon
      <3> QED
        BY <3>3
    <2>6. \A w \in Values : outcome'[w] # "pending" /\ (outcome'[w] = "ok" => drained')
      BY <1>5, <2>4
    <2> QED
      <3>1. NothingQueued'
        BY <2>2, <2>3, <2>5, <2>6 DEF NothingQueued
      <3> QED
        BY <3>1, EmptyFInv, PTL
  <1> QED
    BY <1>6, <1>7

\* drain and the drop of the queue settle every call that waits.
LEMMA EmptiedFInv == SInv /\ FInv /\ (Drain \/ DropQueue) => FInv'
  <1> SUFFICES ASSUME SInv, FInv, Drain \/ DropQueue PROVE FInv'
    OBVIOUS
  <1>1. map' = << >> /\ fifo' = << >>
    BY Zenon DEF Drain, DropQueue
  <1>2. \A v \in Values : outcome[v] = "pending" => v \in Range(map)
    BY Zenon DEF FInv, SInv, OwnIds, Range
  <1>3. \A v \in Values : outcome'[v] # "pending" /\ (outcome'[v] = "ok" => drained')
    <2>1. CASE Drain
      <3>1. drained' = TRUE /\ outcome' = [v \in Values |->
                IF v \in Range(map) /\ outcome[v] = "pending" THEN "ok" ELSE outcome[v]]
        BY <2>1, Zenon DEF Drain
      <3> QED
        BY <1>2, <3>1
    <2>2. CASE DropQueue
      <3>1. drained' = drained /\ outcome' = Canceled(Range(map))
        BY <2>2, Zenon DEF DropQueue
      <3>2. \A v \in Values : outcome[v] = "ok" => drained'
        BY <3>1, Zenon DEF FInv
      <3> QED
        BY <1>2, <3>1, <3>2 DEF Canceled
    <2> QED
      BY <2>1, <2>2
  <1>4. NothingQueued'
    BY <1>1, <1>3 DEF NothingQueued
  <1> QED
    BY <1>4, EmptyFInv, PTL

\* Every step of the queue keeps the invariant.
LEMMA NextFInv == SInv /\ FInv /\ [Next]_vars => FInv'
  <1>1. FInv /\ UNCHANGED vars => FInv'
    <2> SUFFICES ASSUME FInv, UNCHANGED vars PROVE FInv'
      OBVIOUS
    <2>1. map' = map /\ fifo' = fifo /\ outcome' = outcome /\ remover' = remover
          /\ drained' = drained
      BY Zenon DEF vars
    <2>2. \A v \in Values : outcome'[v] = "ok" => drained'
      BY <2>1 DEF FInv
    <2>3. \E s : Lists(s, DOMAIN map') /\ fifo' = [k \in 1 .. Cardinality(DOMAIN map') |-> map'[s[k]]]
      BY <2>1, Zenon DEF FInv
    <2> QED
      BY <2>1, <2>2, <2>3 DEF FInv
  <1> QED
    BY <1>1, PushesFInv, DropPromiseFInv, EmptiedFInv DEF Next

\* SenderQueue::drain hands out the values that are left in the order of the
\* pushes, whichever promises were dropped meanwhile.
THEOREM DrainsInOrder == QSpec => []QueueIsFifo
  <1>1. QInit => SInv /\ FInv
    <2>1. Init => NothingQueued
      BY DEF Init, NothingQueued
    <2> QED
      BY <2>1, InitSInv, EmptyFInv DEF QInit
  <1> QED
    BY <1>1, FInvIsFifo, NextSInv, NextFInv, QNextIsNext, PTL DEF QSpec
----------------------------------------------------------------------------
(* Orders of sequences, and of several put one behind the other *)

\* Induction up to n, for membership in a set.
LEMMA UpTo ==
    ASSUME NEW n \in Nat, NEW T, 0 \in T, \A k \in 0 .. n - 1 : k \in T => k + 1 \in T
    PROVE  \A k \in 0 .. n : k \in T
  <1> DEFINE Out == {k \in 0 .. n : k \notin T}
  <1>1. Out \subseteq Nat
    OBVIOUS
  <1>2. ASSUME Out # {} PROVE FALSE
    <2>1. PICK k \in Out : \A m \in Out : ~ (<<m, k>> \in OpToRel(<, Nat))
      BY <1>1, <1>2, WFMin, NatLessThanWellFounded, Zenon
    <2>2. \A m \in Out : ~ (m < k)
      <3> HIDE DEF Out
      <3> QED
        BY <1>1, <2>1, Zenon DEF OpToRel
    <2>3. k # 0 /\ k - 1 \in 0 .. n - 1 /\ k - 1 + 1 = k
      OBVIOUS
    <2>4. k - 1 \in T
      BY <2>2, <2>3
    <2> QED
      BY <2>3, <2>4
  <1> QED
    BY <1>2

\* Every element comes before those behind it.
Ordered(t, R) == \A i, j \in DOMAIN t : i < j => <<t[i], t[j]>> \in R

\* Every element of the one comes before every element of the other.
Ahead(s, t, R) == \A i \in DOMAIN s, j \in DOMAIN t : <<s[i], t[j]>> \in R

\* Where the elements of a concatenation are from.
LEMMA ConcatElements ==
    ASSUME NEW V, NEW s \in Seq(V), NEW t \in Seq(V)
    PROVE  /\ s \o t \in Seq(V) /\ DOMAIN (s \o t) = 1 .. Len(s) + Len(t)
           /\ \A i \in DOMAIN s : (s \o t)[i] = s[i]
           /\ \A i \in DOMAIN (s \o t) :
                 \/ i \in DOMAIN s /\ (s \o t)[i] = s[i]
                 \/ /\ i - Len(s) \in DOMAIN t /\ (s \o t)[i] = t[i - Len(s)]
                    /\ \A j \in DOMAIN s : j < i
  <1>1. s \o t \in Seq(V) /\ Len(s) \in Nat /\ Len(t) \in Nat /\ DOMAIN s = 1 .. Len(s) /\ DOMAIN t = 1 .. Len(t)
    OBVIOUS
  <1>2. DOMAIN (s \o t) = 1 .. Len(s) + Len(t)
    BY ConcatIsMap
  <1>3. \A i \in 1 .. Len(s) : (s \o t)[i] = s[i]
    OBVIOUS
  <1>4. \A i \in 1 .. Len(s) + Len(t) : ~ (i <= Len(s)) => (s \o t)[i] = t[i - Len(s)]
    OBVIOUS
  <1>5. ASSUME NEW i \in 1 .. Len(s) + Len(t), ~ (i <= Len(s))
        PROVE  i - Len(s) \in 1 .. Len(t) /\ \A j \in 1 .. Len(s) : j < i
    BY <1>1, <1>5
  <1>6. ASSUME NEW i \in 1 .. Len(s) + Len(t), i <= Len(s) PROVE i \in 1 .. Len(s)
    BY <1>1, <1>6
  <1> QED
    BY <1>1, <1>2, <1>3, <1>4, <1>5, <1>6, Zenon

\* What is ordered and ahead of what is ordered.
LEMMA ConcatOrdered ==
    ASSUME NEW V, NEW s \in Seq(V), NEW t \in Seq(V), NEW R,
           Ordered(s, R), Ordered(t, R), Ahead(s, t, R)
    PROVE  Ordered(s \o t, R)
  <1> DEFINE u == s \o t
             n == Len(s)
  <1>1. /\ u \in Seq(V) /\ DOMAIN u = 1 .. n + Len(t)
        /\ \A i \in DOMAIN u :
              \/ i \in DOMAIN s /\ u[i] = s[i]
              \/ i - n \in DOMAIN t /\ u[i] = t[i - n] /\ \A j \in DOMAIN s : j < i
    BY ConcatElements
  <1>2. n \in Nat /\ Len(t) \in Nat /\ DOMAIN s = 1 .. n
    OBVIOUS
  <1> HIDE DEF u, n
  <1>3. ASSUME NEW i \in DOMAIN u, NEW j \in DOMAIN u, i < j PROVE <<u[i], u[j]>> \in R
    <2>1. i \in Int /\ j \in Int
      BY <1>1, <1>2
    <2>2. CASE j \in DOMAIN s /\ u[j] = s[j]
      <3>1. i \in DOMAIN s /\ u[i] = s[i]
        <4>1. ~ (j < i)
          BY <1>3, <2>1
        <4> QED
          BY <1>1, <2>2, <4>1, Zenon
      <3> QED
        BY <1>3, <2>2, <3>1, Zenon DEF Ordered
    <2>3. CASE j - n \in DOMAIN t /\ u[j] = t[j - n]
      <3>1. CASE i \in DOMAIN s /\ u[i] = s[i]
        BY <2>3, <3>1, Zenon DEF Ahead
      <3>2. CASE i - n \in DOMAIN t /\ u[i] = t[i - n]
        <4>1. i - n < j - n
          BY <1>2, <1>3, <2>1
        <4> QED
          BY <2>3, <3>2, <4>1, Zenon DEF Ordered
      <3> QED
        BY <1>1, <3>1, <3>2, Zenon
    <2> QED
      BY <1>1, <2>2, <2>3, Zenon
  <1> QED
    BY <1>3, Zenon DEF Ordered, u

\* One sequence after the other, the recursion of PipelineInner::resolve.
FlatFcn(f, ss, n) == f = [k \in 0 .. n |-> IF k = 0 THEN << >> ELSE f[k - 1] \o ss[k]]

\* There is a function that obeys it.
LEMMA FlatExists == ASSUME NEW ss, NEW n \in Nat PROVE \E f : FlatFcn(f, ss, n)
  <1> DEFINE T == {k \in 0 .. n : \E f : FlatFcn(f, ss, k)}
  <1>1. 0 \in T
    <2>1. FlatFcn([k \in 0 .. 0 |-> << >>], ss, 0)
      BY DEF FlatFcn
    <2>2. 0 \in 0 .. n
      OBVIOUS
    <2> QED
      BY <2>1, <2>2, Zenon
  <1>2. ASSUME NEW k \in 0 .. n - 1, k \in T PROVE k + 1 \in T
    <2>1. PICK f : FlatFcn(f, ss, k)
      BY <1>2
    <2> DEFINE g == [i \in 0 .. k + 1 |-> IF i = k + 1 THEN f[k] \o ss[k + 1] ELSE f[i]]
    <2>2. ASSUME NEW i \in 0 .. k + 1 PROVE g[i] = IF i = 0 THEN << >> ELSE g[i - 1] \o ss[i]
      <3>0. k \in Nat /\ i \in Nat /\ k + 1 # 0
        OBVIOUS
      <3>1. i # 0 => i - 1 \in 0 .. k + 1 /\ i - 1 # k + 1
        BY <3>0
      <3>2. i # 0 => g[i - 1] = f[i - 1]
        BY <3>1, Zenon
      <3>3. CASE i = k + 1
        <4>1. g[i] = f[k] \o ss[i]
          BY <3>3, Zenon
        <4>2. i - 1 = k
          BY <3>0, <3>3
        <4> HIDE DEF g
        <4> QED
          BY <3>0, <3>2, <3>3, <4>1, <4>2, Zenon
      <3>4. CASE i # k + 1
        <4>1. i \in 0 .. k
          BY <3>0, <3>4
        <4>2. g[i] = f[i]
          BY <3>4, Zenon
        <4>3. f[i] = IF i = 0 THEN << >> ELSE f[i - 1] \o ss[i]
          BY <2>1, <4>1, Zenon DEF FlatFcn
        <4> HIDE DEF g
        <4> QED
          BY <3>2, <4>2, <4>3, Zenon
      <3> QED
        BY <3>3, <3>4
    <2>3. g = [i \in 0 .. k + 1 |-> g[i]]
      BY Zenon
    <2>4. FlatFcn(g, ss, k + 1)
      <3> HIDE DEF g
      <3> QED
        BY <2>2, <2>3, Zenon DEF FlatFcn
    <2>5. k + 1 \in 0 .. n
      OBVIOUS
    <2> HIDE DEF g
    <2> QED
      BY <2>4, <2>5, Zenon
  <1>3. n \in T
    <2> HIDE DEF T
    <2>1. \A k \in 0 .. n : k \in T
      BY <1>1, <1>2, UpTo, Zenon
    <2> QED
      BY <2>1
  <1> QED
    BY <1>3, Zenon

\* Some sequences, each ordered and ahead of the next ones.
AllOrdered(ss, n, V, R) ==
    /\ n \in Nat
    /\ \A i \in 1 .. n : ss[i] \in Seq(V) /\ Ordered(ss[i], R)
    /\ \A i, j \in 1 .. n : i < j => Ahead(ss[i], ss[j], R)

\* Every element of u is one of the first k sequences.
From(u, ss, k) == \A m \in DOMAIN u : \E i \in 1 .. k : \E l \in DOMAIN ss[i] : u[m] = ss[i][l]

\* The empty sequence is in any order.
LEMMA EmptyOrdered ==
    ASSUME NEW V, NEW R, NEW s
    PROVE  << >> \in Seq(V) /\ Ordered(<< >>, R) /\ Ahead(s, << >>, R) /\ Range(<< >>) = {}
  BY DEF Ordered, Ahead, Range

\* One after the other, they are ordered.
LEMMA FlatOrdered ==
    ASSUME NEW V, NEW R, NEW ss, NEW n, AllOrdered(ss, n, V, R), NEW f, FlatFcn(f, ss, n)
    PROVE  f[n] \in Seq(V) /\ Ordered(f[n], R) /\ From(f[n], ss, n)
  <1> DEFINE T == {k \in 0 .. n : f[k] \in Seq(V) /\ Ordered(f[k], R) /\ From(f[k], ss, k)}
  <1>0. n \in Nat
    BY DEF AllOrdered
  <1>3. \A i \in 0 .. n : f[i] = IF i = 0 THEN << >> ELSE f[i - 1] \o ss[i]
    BY Zenon DEF FlatFcn
  <1>4. /\ \A i \in 1 .. n : ss[i] \in Seq(V) /\ Ordered(ss[i], R)
        /\ \A i, j \in 1 .. n : i < j => Ahead(ss[i], ss[j], R)
    BY Zenon DEF AllOrdered
  <1>5. 0 \in T
    <2>1. 0 \in 0 .. n /\ DOMAIN << >> = {}
      BY <1>0
    <2>2. f[0] = << >>
      BY <1>3, <2>1, Zenon
    <2>3. << >> \in Seq(V) /\ Ordered(<< >>, R)
      BY EmptyOrdered, Zenon
    <2>4. From(<< >>, ss, 0)
      BY <2>1, Zenon DEF From
    <2> QED
      BY <2>1, <2>2, <2>3, <2>4, Zenon
  <1>6. ASSUME NEW k \in 0 .. n - 1, k \in T PROVE k + 1 \in T
    <2>0. k + 1 \in 1 .. n /\ k + 1 \in 0 .. n /\ k \in Nat
      BY <1>0
    <2>1. ss[k + 1] \in Seq(V) /\ Ordered(ss[k + 1], R)
      BY <1>4, <2>0, Zenon
    <2>2. f[k + 1] = f[k] \o ss[k + 1]
      <3> DEFINE j == k + 1
      <3>1. j \in 0 .. n /\ j # 0 /\ j - 1 = k
        BY <2>0
      <3> HIDE DEF j
      <3>2. f[j] = f[j - 1] \o ss[j]
        BY <1>3, <3>1, Zenon
      <3>3. f[j] = f[k] \o ss[j]
        BY <3>1, <3>2, Zenon
      <3> QED
        BY <3>3, Zenon DEF j
    <2>3. f[k] \in Seq(V) /\ Ordered(f[k], R) /\ From(f[k], ss, k)
      BY <1>6
    <2>4. Ahead(f[k], ss[k + 1], R)
      <3> SUFFICES ASSUME NEW m \in DOMAIN f[k], NEW j \in DOMAIN ss[k + 1]
                   PROVE  <<f[k][m], ss[k + 1][j]>> \in R
        BY Zenon DEF Ahead
      <3>1. PICK i \in 1 .. k : \E l \in DOMAIN ss[i] : f[k][m] = ss[i][l]
        BY <2>3, Zenon DEF From
      <3>2. i \in 1 .. n /\ i < k + 1
        BY <1>0, <2>0
      <3>3. Ahead(ss[i], ss[k + 1], R)
        BY <1>4, <2>0, <3>2, Zenon
      <3> QED
        BY <3>1, <3>3, Zenon DEF Ahead
    <2>5. f[k + 1] \in Seq(V) /\ Ordered(f[k + 1], R)
      <3>1. \A s, t \in Seq(V) : s \o t \in Seq(V)
        OBVIOUS
      <3>2. Ordered(f[k] \o ss[k + 1], R)
        BY <2>1, <2>3, <2>4, ConcatOrdered, Zenon
      <3> QED
        BY <2>1, <2>2, <2>3, <3>1, <3>2, Zenon
    <2>6. From(f[k + 1], ss, k + 1)
      <3> DEFINE s == f[k]
                 t == ss[k + 1]
      <3>1. \A m \in DOMAIN (s \o t) :
               \/ m \in DOMAIN s /\ (s \o t)[m] = s[m]
               \/ m - Len(s) \in DOMAIN t /\ (s \o t)[m] = t[m - Len(s)]
        <4>1. s \in Seq(V) /\ t \in Seq(V)
          BY <2>1, <2>3
        <4> HIDE DEF s, t
        <4> QED
          BY <4>1, ConcatElements
      <3>2. \A i \in 1 .. k : i \in 1 .. k + 1
        BY <2>0
      <3>3. k + 1 \in 1 .. k + 1
        BY <2>0
      <3> SUFFICES ASSUME NEW m \in DOMAIN (s \o t)
                   PROVE  \E i \in 1 .. k + 1 : \E l \in DOMAIN ss[i] : (s \o t)[m] = ss[i][l]
        BY <2>2, Zenon DEF From
      <3>4. CASE m \in DOMAIN s /\ (s \o t)[m] = s[m]
        BY <2>3, <3>2, <3>4, Zenon DEF From
      <3>5. CASE m - Len(s) \in DOMAIN t /\ (s \o t)[m] = t[m - Len(s)]
        BY <3>3, <3>5, Zenon
      <3> QED
        BY <3>1, <3>4, <3>5, Zenon
    <2> QED
      BY <2>0, <2>5, <2>6, Zenon
  <1>7. \A k \in 0 .. n : k \in T
    <2> HIDE DEF T
    <2> QED
      BY <1>0, <1>5, <1>6, UpTo, Zenon
  <1>8. n \in 0 .. n
    BY <1>0
  <1> QED
    BY <1>7, <1>8, Zenon
----------------------------------------------------------------------------
(* The order of the calls *)

\* The calls of the application and of the peer.
Calls == Values \cup (0 .. Piped)

\* The calls that may arrive in this order.
Order == {p \in Calls \X Calls : (p[1] \in Values <=> p[2] \in Values) => MadeBefore(p[1], p[2])}

\* What waits in the queue is in the order in which it was made.
WInv ==
    /\ made \in Seq(Values) /\ fifo \in Seq(Values)
    /\ Ordered(fifo, Order) /\ Range(fifo) \subseteq Range(made)

\* So is what arrived; a call of the application arrives only at a client that
\* knows its capability.
AInv ==
    /\ arrived \in Seq(Calls) /\ piped \in 0 .. Piped
    /\ Ordered(arrived, Order)
    /\ \A i \in DOMAIN arrived :
          IF arrived[i] \in Values THEN arrived[i] \in Range(made) /\ client_redirect # None
          ELSE arrived[i] \in 1 .. piped

\* Two calls are in the order, or not.
LEMMA OrderIs ==
    ASSUME NEW x \in Calls, NEW y \in Calls
    PROVE  <<x, y>> \in Order <=> ((x \in Values <=> y \in Values) => MadeBefore(x, y))
  BY DEF Order

\* A call that is made takes nothing back.
LEMMA OrderGrows ==
    ASSUME made \in Seq(Values), NEW v \in Values, made' = made \/ made' = Append(made, v)
    PROVE  Order \subseteq Order' /\ Range(made) \subseteq Range(made')
  <1>1. DOMAIN made \subseteq DOMAIN made' /\ \A i \in DOMAIN made : made'[i] = made[i]
    BY AppendElements
  <1>2. Range(made) \subseteq Range(made')
    BY <1>1, Zenon DEF Range
  <1>3. \A x, y : MadeBefore(x, y) => MadeBefore(x, y)'
    BY <1>1, Zenon DEF MadeBefore
  <1>4. Order \subseteq Order'
    BY <1>3, Zenon DEF Order
  <1> QED
    BY <1>2, <1>4

\* It comes after all that were made.
LEMMA LastInOrder ==
    ASSUME made \in Seq(Values), NEW v \in Values, made' = Append(made, v)
    PROVE  /\ \A x \in Range(made) : <<x, v>> \in Order'
           /\ \A x \in 0 .. Piped : <<x, v>> \in Order'
           /\ v \in Range(made')
  <1>1. /\ DOMAIN made = 1 .. Len(made) /\ Len(made) \in Nat
        /\ DOMAIN made' = 1 .. Len(made) + 1
        /\ \A i \in DOMAIN made : made'[i] = made[i] /\ i < Len(made) + 1 /\ i \in DOMAIN made'
        /\ Len(made) + 1 \in DOMAIN made' /\ made'[Len(made) + 1] = v
    BY AppendElements
  <1>2. ASSUME NEW x \in Range(made) PROVE <<x, v>> \in Order'
    <2>1. PICK i \in DOMAIN made : made[i] = x
      BY Zenon DEF Range
    <2>2. x \in Values
      BY <2>1
    <2>3. \E k, l \in DOMAIN made' : k < l /\ made'[k] = x /\ made'[l] = v
      BY <1>1, <2>1, Zenon
    <2>4. MadeBefore(x, v)'
      BY <2>2, <2>3, Zenon DEF MadeBefore
    <2>5. <<x, v>> \in Calls \X Calls
      BY <2>2 DEF Calls
    <2> QED
      BY <2>4, <2>5 DEF Order
  <1>3. ASSUME NEW x \in 0 .. Piped PROVE <<x, v>> \in Order'
    <2>1. x \notin Values /\ v \in Values
      BY ValuesAssumption
    <2>2. <<x, v>> \in Calls \X Calls
      BY DEF Calls
    <2> QED
      BY <2>1, <2>2 DEF Order
  <1>4. v \in Range(made')
    BY <1>1, Zenon DEF Range
  <1> QED
    BY <1>2, <1>3, <1>4

\* A promise that waits has its value in the queue.
LEMMA PendingIsQueued ==
    ASSUME SInv, FInv, NEW v \in Values, outcome[v] = "pending"
    PROVE  \E k \in DOMAIN fifo : fifo[k] = v
  <1>1. remover[v] \in DOMAIN map /\ map[remover[v]] = v
    BY Zenon DEF SInv, OwnIds, FInv
  <1>2. PICK s : Lists(s, DOMAIN map) /\ fifo = [k \in 1 .. Cardinality(DOMAIN map) |-> map[s[k]]]
    BY Zenon DEF FInv
  <1>3. PICK k \in 1 .. Cardinality(DOMAIN map) : s[k] = remover[v]
    <2>1. \A x \in DOMAIN map : \E i \in 1 .. Cardinality(DOMAIN map) : s[i] = x
      BY <1>2, ListFacts, Zenon
    <2> QED
      BY <1>1, <2>1, Zenon
  <1> QED
    BY <1>1, <1>2, <1>3

\* What is left of an ordered queue is ordered.
LEMMA RemoveOrdered ==
    ASSUME NEW V, NEW s \in Seq(V), NEW p \in 1 .. Len(s), NEW R, Ordered(s, R)
    PROVE  /\ Without(s, p) \in Seq(V) /\ Ordered(Without(s, p), R)
           /\ Range(Without(s, p)) \subseteq Range(s)
  <1> DEFINE n == Len(s)
             t == [k \in 1 .. n - 1 |-> IF k < p THEN s[k] ELSE s[k + 1]]
  <1>1. Without(s, p) = t
    BY WithoutIs
  <1>2. n \in Nat /\ p \in 1 .. n /\ DOMAIN s = 1 .. n /\ n - 1 \in Nat
    OBVIOUS
  <1> DEFINE at(k) == IF k < p THEN k ELSE k + 1
  <1> HIDE DEF n
  <1>3. \A k \in 1 .. n - 1 : at(k) \in 1 .. n
    BY <1>2
  <1>4. \A k \in 1 .. n - 1 : t[k] = s[at(k)]
    OBVIOUS
  <1>5. \A j, k \in 1 .. n - 1 : j < k => at(j) < at(k)
    BY <1>2
  <1>6. DOMAIN t = 1 .. n - 1 /\ t = [k \in 1 .. n - 1 |-> t[k]]
    OBVIOUS
  <1> HIDE DEF t, at
  <1>7. \A k \in 1 .. n - 1 : t[k] \in V
    BY <1>2, <1>3, <1>4
  <1>8. t \in Seq(V)
    <2>1. t \in [1 .. n - 1 -> V]
      BY <1>6, <1>7, Zenon
    <2> QED
      BY <1>2, <2>1
  <1>9. Ordered(t, R)
    BY <1>2, <1>3, <1>4, <1>5, <1>6, Zenon DEF Ordered
  <1>10. Range(t) \subseteq Range(s)
    BY <1>2, <1>3, <1>4, <1>6, Zenon DEF Range
  <1> QED
    BY <1>1, <1>8, <1>9, <1>10, Zenon

\* The queue loses entries, or all of them.
LEMMA DropPromiseFifo ==
    ASSUME SInv, FInv, WInv, NEW v \in Values, DropPromise(v)
    PROVE  /\ fifo' \in Seq(Values) /\ Ordered(fifo', Order)
           /\ Range(fifo') \subseteq Range(fifo)
  <1>1. CASE outcome[v] = "pending"
    <2> DEFINE p == CHOOSE k \in DOMAIN fifo : fifo[k] = v
    <2>1. p \in DOMAIN fifo
      BY <1>1, PendingIsQueued, Zenon
    <2>2. fifo' = Without(fifo, p)
      BY <1>1, Zenon DEF DropPromise
    <2> HIDE DEF p
    <2>3. p \in 1 .. Len(fifo) /\ fifo \in Seq(Values) /\ Ordered(fifo, Order)
      BY <2>1 DEF WInv
    <2> QED
      BY <2>2, <2>3, RemoveOrdered, Zenon
  <1>2. CASE outcome[v] # "pending"
    BY <1>2, Zenon DEF DropPromise, WInv
  <1> QED
    BY <1>1, <1>2

\* A sequence of one.
LEMMA OneOrdered ==
    ASSUME NEW V, NEW v \in V, NEW R
    PROVE  /\ <<v>> \in Seq(V) /\ Ordered(<<v>>, R) /\ DOMAIN <<v>> = {1} /\ <<v>>[1] = v
  BY DEF Ordered

\* Client::call adds what it queues at the end.
LEMMA CallWInv ==
    ASSUME WInv, NEW v \in Values, Call(v)
    PROVE  WInv'
  <1>1. made' = Append(made, v) /\ made \in Seq(Values) /\ made' \in Seq(Values)
    BY DEF Call, WInv
  <1>2. Order \subseteq Order' /\ Range(made) \subseteq Range(made')
    BY <1>1, OrderGrows, Zenon
  <1>3. v \in Range(made') /\ \A x \in Range(made) : <<x, v>> \in Order'
    BY <1>1, LastInOrder, Zenon
  <1>4. fifo' = fifo \/ fifo' = Append(fifo, v)
    BY Zenon DEF Call, Push, Pushes, vars
  <1>5. fifo \in Seq(Values) /\ Ordered(fifo, Order') /\ Range(fifo) \subseteq Range(made')
    BY <1>2, Zenon DEF WInv, Ordered
  <1>6. CASE fifo' = Append(fifo, v)
    <2>1. fifo' = fifo \o <<v>>
      BY <1>5, <1>6
    <2>2. <<v>> \in Seq(Values) /\ Ordered(<<v>>, Order') /\ DOMAIN <<v>> = {1} /\ <<v>>[1] = v
      BY OneOrdered, Zenon
    <2>3. \A i \in DOMAIN fifo : fifo[i] \in Range(made)
      BY Zenon DEF WInv, Range
    <2>4. Ahead(fifo, <<v>>, Order')
      BY <1>3, <2>2, <2>3, Zenon DEF Ahead
    <2>5. Ordered(fifo', Order')
      BY <1>5, <2>1, <2>2, <2>4, ConcatOrdered, Zenon
    <2>6. fifo' \in Seq(Values) /\ Range(fifo') \subseteq Range(made')
      <3>1. fifo' \in Seq(Values) /\ Range(fifo') = Range(fifo) \cup {v}
        BY <1>5, <1>6, AppendElements DEF Range
      <3> QED
        BY <1>3, <1>5, <3>1, Zenon
    <2> QED
      BY <1>1, <2>5, <2>6, Zenon DEF WInv
  <1> QED
    BY <1>1, <1>4, <1>5, <1>6, Zenon DEF WInv

\* What the queue holds becomes less.
LEMMA LessWInv ==
    ASSUME WInv, made' = made, fifo' \in Seq(Values), Ordered(fifo', Order),
           Range(fifo') \subseteq Range(fifo)
    PROVE  WInv'
  <1>1. Order' = Order
    BY DEF Order, MadeBefore
  <1> QED
    BY <1>1, Zenon DEF WInv

\* Every step of the client keeps the order of its queue.
LEMMA NextWInv == SInv /\ FInv /\ WInv /\ [QNext]_all_vars => WInv'
  <1> SUFFICES ASSUME SInv, FInv, WInv, [QNext]_all_vars PROVE WInv'
    OBVIOUS
  <1>1. CASE \E v \in Values : Call(v)
    BY <1>1, CallWInv
  <1>2. CASE \E v \in Values : CancelCall(v)
    <2>1. PICK v \in Values : DropPromise(v) /\ made' = made
      BY <1>2, Zenon DEF CancelCall
    <2> QED
      BY <2>1, DropPromiseFifo, LessWInv, Zenon
  <1>3. CASE made' = made /\ (fifo' = fifo \/ fifo' = << >>)
    BY <1>3, EmptyOrdered, LessWInv, Zenon DEF WInv
  <1>4. CASE GetPipelinedCap \/ PipedCall \/ DropPipeline \/ (\E r \in Outcomes : Ready(r))
             \/ (\E w \in Waiters : WhenMoreResolved(w)) \/ UNCHANGED all_vars
    BY <1>3, <1>4, Zenon
    DEF GetPipelinedCap, PipedCall, DropPipeline, Ready, WhenMoreResolved, all_vars, queued_vars, vars
  <1>5. CASE DropHandle \/ Drive \/ \E r \in Outcomes : ResolvePipeline(r)
    BY <1>3, <1>5, Zenon
    DEF DropHandle, Drive, ResolvePipeline, ResolveClient, Drain, DropQueue, vars
  <1> QED
    BY <1>1, <1>2, <1>4, <1>5, Zenon DEF QNext
----------------------------------------------------------------------------
\* What t adds to the calls that arrived.
Arrives(t) ==
    /\ t \in Seq(Calls) /\ Ordered(t, Order') /\ Ahead(arrived, t, Order')
    /\ \A k \in DOMAIN t :
          IF t[k] \in Values THEN t[k] \in Range(made') /\ client_redirect' # None
          ELSE t[k] \in 1 .. piped'

\* Calls are made and clients resolved, and neither is undone.
Grows ==
    /\ Order \subseteq Order' /\ Range(made) \subseteq Range(made')
    /\ client_redirect # None => client_redirect' # None
    /\ piped' \in 0 .. Piped /\ piped <= piped'

\* Calls arrive behind the others.
LEMMA ArrivesAInv ==
    ASSUME AInv, Grows, NEW t, Arrives(t), arrived' = arrived \/ arrived' = arrived \o t
    PROVE  AInv'
  <1>1. arrived \in Seq(Calls) /\ Ordered(arrived, Order')
    BY Zenon DEF AInv, Grows, Ordered
  <1>2. \A i \in DOMAIN arrived :
           IF arrived[i] \in Values THEN arrived[i] \in Range(made') /\ client_redirect' # None
           ELSE arrived[i] \in 1 .. piped'
    BY PipedAssumption DEF AInv, Grows
  <1>3. CASE arrived' = arrived
    BY <1>1, <1>2, <1>3, Zenon DEF AInv, Grows
  <1>4. CASE arrived' = arrived \o t
    <2>1. Ordered(arrived', Order')
      BY <1>1, <1>4, ConcatOrdered, Zenon DEF Arrives
    <2>2. arrived' \in Seq(Calls)
      BY <1>1, <1>4 DEF Arrives
    <2>3. \A i \in DOMAIN arrived' :
             (\E j \in DOMAIN arrived : arrived'[i] = arrived[j]) \/ (\E j \in DOMAIN t : arrived'[i] = t[j])
      <3>1. t \in Seq(Calls)
        BY DEF Arrives
      <3>2. \A i \in DOMAIN (arrived \o t) :
               \/ i \in DOMAIN arrived /\ (arrived \o t)[i] = arrived[i]
               \/ i - Len(arrived) \in DOMAIN t /\ (arrived \o t)[i] = t[i - Len(arrived)]
        BY <1>1, <3>1, ConcatElements
      <3> QED
        BY <1>4, <3>2, Zenon
    <2>4. \A i \in DOMAIN arrived' :
             IF arrived'[i] \in Values THEN arrived'[i] \in Range(made') /\ client_redirect' # None
             ELSE arrived'[i] \in 1 .. piped'
      BY <1>2, <2>3, Zenon DEF Arrives
    <2> QED
      BY <2>1, <2>2, <2>4, Zenon DEF AInv, Grows
  <1> QED
    BY <1>3, <1>4
----------------------------------------------------------------------------
(* The clients of the pipeline *)

\* The pipeline hands out clients until it is resolved, and nothing arrives before;
\* they are in the order of the calls, and the application has one of them.
HInv ==
    /\ pipeline \in BOOLEAN
    /\ source \in {"pipeline", "future"}
    /\ clients \in Seq(0 .. Piped)
    /\ pipeline => source = "pipeline"
    /\ clients # << >> => source = "pipeline" /\ ready = None
    /\ pipeline_redirect = None /\ pipeline => ready = None
    /\ source = "pipeline" /\ ready = None =>
          arrived = << >> /\ client_redirect = None /\ pipeline_redirect = None
    /\ \A i \in DOMAIN clients : clients[i] <= piped
    /\ \A i, j \in DOMAIN clients : i < j /\ clients[j] # 0 => clients[i] < clients[j]
    /\ \A i, j \in DOMAIN clients : clients[i] = clients[j] => i = j

\* The invariants hold initially.
LEMMA InitHInv == QInit => WInv /\ AInv /\ HInv
  <1> SUFFICES ASSUME QInit PROVE WInv /\ AInv /\ HInv
    OBVIOUS
  <1>1. fifo = << >> /\ made = << >> /\ arrived = << >> /\ piped = 0 /\ clients = << >>
    BY Zenon DEF QInit, Init
  <1>2. WInv /\ AInv
    BY <1>1, EmptyOrdered, PipedAssumption DEF WInv, AInv
  <1>3. pipeline \in BOOLEAN /\ (pipeline => source = "pipeline") /\ source \in {"pipeline", "future"}
    BY Zenon DEF QInit
  <1>4. ready = None /\ client_redirect = None /\ pipeline_redirect = None
    BY Zenon DEF QInit
  <1> QED
    BY <1>1, <1>2, <1>3, <1>4 DEF HInv

\* The elements of a sequence.
LEMMA SeqElements == ASSUME NEW S, NEW s \in Seq(S) PROVE \A i \in DOMAIN s : s[i] \in S
  OBVIOUS

\* A client is added behind the others.
LEMMA MoreClients ==
    ASSUME HInv, AInv, NEW c \in 0 .. Piped, clients' = Append(clients, c), piped' \in 0 .. Piped,
           piped <= piped', c <= piped', c \notin Range(clients), c # 0 => c > piped
    PROVE  /\ clients' \in Seq(0 .. Piped)
           /\ \A i \in DOMAIN clients' : clients'[i] <= piped'
           /\ \A i, j \in DOMAIN clients' : i < j /\ clients'[j] # 0 => clients'[i] < clients'[j]
           /\ \A i, j \in DOMAIN clients' : clients'[i] = clients'[j] => i = j
  <1> DEFINE n == Len(clients)
  <1>1. /\ clients \in Seq(0 .. Piped) /\ n \in Nat /\ DOMAIN clients = 1 .. n
        /\ piped \in 0 .. Piped
    BY DEF HInv, AInv
  <1>2. /\ clients' \in Seq(0 .. Piped) /\ DOMAIN clients' = 1 .. n + 1
        /\ clients'[n + 1] = c /\ \A i \in 1 .. n : clients'[i] = clients[i]
    BY <1>1, AppendElements
  <1>3. \A i \in 1 .. n : clients[i] # c /\ clients[i] \in 0 .. Piped /\ clients[i] <= piped
    <2>1. \A i \in 1 .. n : clients[i] # c
      BY <1>1, Zenon DEF Range
    <2>2. \A i \in 1 .. n : clients[i] \in 0 .. Piped
      BY <1>1, SeqElements, Zenon
    <2>3. \A i \in 1 .. n : clients[i] <= piped
      BY <1>1, Zenon DEF HInv
    <2> QED
      BY <2>1, <2>2, <2>3
  <1>4. /\ \A i, j \in 1 .. n : i < j /\ clients[j] # 0 => clients[i] < clients[j]
        /\ \A i, j \in 1 .. n : clients[i] = clients[j] => i = j
    BY <1>1, Zenon DEF HInv
  <1> HIDE DEF n
  <1>5. \A i \in 1 .. n + 1 : i \in 1 .. n \/ i = n + 1
    BY <1>1
  <1>6. \A i \in 1 .. n : ~ (n + 1 < i)
    BY <1>1
  <1>7. ~ (n + 1 < n + 1)
    BY <1>1
  <1>8. \A i \in 1 .. n : clients[i] <= piped' /\ (c # 0 => clients[i] < c)
    BY <1>1, <1>3, PipedAssumption
  <1>9. \A i \in 1 .. n + 1 : clients'[i] <= piped'
    BY <1>2, <1>5, <1>8, Zenon
  <1>10. \A i, j \in 1 .. n + 1 : i < j /\ clients'[j] # 0 => clients'[i] < clients'[j]
    BY <1>2, <1>4, <1>5, <1>6, <1>7, <1>8, Zenon
  <1>11. \A i, j \in 1 .. n + 1 : clients'[i] = clients'[j] => i = j
    BY <1>2, <1>3, <1>4, <1>5, Zenon
  <1> QED
    BY <1>2, <1>9, <1>10, <1>11, Zenon

\* Every step of the client keeps the invariant.
LEMMA NextHInv == AInv /\ HInv /\ [QNext]_all_vars => HInv'
  <1> SUFFICES ASSUME AInv, HInv, [QNext]_all_vars PROVE HInv'
    OBVIOUS
  <1>1. CASE GetPipelinedCap
    <2>1. CASE pipeline_redirect = None
      <3>1. 0 \in 0 .. Piped /\ piped \in 0 .. Piped /\ piped <= piped /\ 0 <= piped
        BY PipedAssumption DEF AInv
      <3>2. clients' = Append(clients, 0) /\ 0 \notin Range(clients) /\ piped' = piped
        BY <1>1, <2>1, Zenon DEF GetPipelinedCap
      <3>3. /\ clients' \in Seq(0 .. Piped)
            /\ \A i \in DOMAIN clients' : clients'[i] <= piped'
            /\ \A i, j \in DOMAIN clients' : i < j /\ clients'[j] # 0 => clients'[i] < clients'[j]
            /\ \A i, j \in DOMAIN clients' : clients'[i] = clients'[j] => i = j
        BY <3>1, <3>2, MoreClients
      <3>4. pipeline /\ UNCHANGED <<pipeline, source, ready, arrived, client_redirect, pipeline_redirect>>
        BY <1>1, <2>1 DEF GetPipelinedCap
      <3> QED
        BY <2>1, <3>3, <3>4 DEF HInv
    <2>2. CASE pipeline_redirect # None
      BY <1>1, <2>2 DEF GetPipelinedCap, HInv
    <2> QED
      BY <2>1, <2>2
  <1>2. CASE PipedCall
    <2>1. piped' = piped + 1 /\ piped' \in 0 .. Piped /\ piped \in 0 .. Piped
          /\ UNCHANGED <<pipeline, source, ready, client_redirect, pipeline_redirect>> /\ pipeline
      BY <1>2, PipedAssumption DEF PipedCall, AInv
    <2>2. CASE pipeline_redirect = None
      <3>1. clients' = Append(clients, piped') /\ arrived' = arrived
        BY <1>2, <2>2, NoneAssumption DEF PipedCall
      <3>2. piped <= piped' /\ piped' <= piped' /\ piped' > piped
            /\ \A i \in DOMAIN clients : clients[i] # piped'
        BY <2>1 DEF HInv
      <3>3. piped' \notin Range(clients)
        BY <3>2, Zenon DEF Range
      <3>4. /\ clients' \in Seq(0 .. Piped)
            /\ \A i \in DOMAIN clients' : clients'[i] <= piped'
            /\ \A i, j \in DOMAIN clients' : i < j /\ clients'[j] # 0 => clients'[i] < clients'[j]
            /\ \A i, j \in DOMAIN clients' : clients'[i] = clients'[j] => i = j
        BY <2>1, <3>1, <3>2, <3>3, MoreClients
      <3> QED
        BY <2>1, <2>2, <3>1, <3>4 DEF HInv
    <2>3. CASE pipeline_redirect # None
      <3>1. clients' = clients
        BY <1>2, <2>3, Zenon DEF PipedCall
      <3>2. ~ (source = "pipeline" /\ ready = None)
        BY <2>3, Zenon DEF HInv
      <3>3. \A i \in DOMAIN clients : clients[i] <= piped'
        <4>1. \A i \in DOMAIN clients : clients[i] \in 0 .. Piped /\ clients[i] <= piped
          BY SeqElements, Zenon DEF HInv
        <4> QED
          BY <2>1, <4>1, PipedAssumption
      <3> QED
        BY <2>1, <2>3, <3>1, <3>2, <3>3 DEF HInv
    <2> QED
      BY <2>2, <2>3
  <1>3. CASE DropPipeline
    BY <1>3 DEF DropPipeline, HInv
  <1>4. CASE DropHandle \/ (\E w \in Waiters : WhenMoreResolved(w)) \/ (\E v \in Values : CancelCall(v))
             \/ UNCHANGED all_vars
    <2>1. UNCHANGED <<pipeline, source, clients, ready, client_redirect, pipeline_redirect, arrived, piped>>
      BY <1>4, Zenon DEF DropHandle, WhenMoreResolved, CancelCall, all_vars, queued_vars
    <2> QED
      BY <2>1 DEF HInv
  <1>5. CASE \E v \in Values : Call(v)
    <2>1. UNCHANGED <<pipeline, source, clients, ready, client_redirect, pipeline_redirect, piped>>
          /\ (client_redirect = None => arrived' = arrived)
      BY <1>5, Zenon DEF Call
    <2> QED
      BY <2>1 DEF HInv
  <1>6. CASE \E r \in Outcomes : Ready(r)
    BY <1>6 DEF Ready, HInv
  <1>7. CASE Drive
    <2>1. UNCHANGED <<pipeline, source, clients, ready, pipeline_redirect, piped>> /\ source = "future"
      BY <1>7, Zenon DEF Drive
    <2> QED
      BY <2>1 DEF HInv
  <1>8. CASE \E r \in Outcomes : ResolvePipeline(r)
    <2>1. PICK r \in Outcomes : ResolvePipeline(r)
      BY <1>8
    <2>2. ready' = r /\ r # None /\ clients' = << >> /\ UNCHANGED <<source, pipeline, piped>>
          /\ pipeline_redirect' = IF PipelineAlive THEN r ELSE None
      BY <2>1, NoneAssumption DEF ResolvePipeline, Outcomes
    <2> QED
      BY <2>2 DEF HInv, PipelineAlive
  <1> QED
    BY <1>1, <1>2, <1>3, <1>4, <1>5, <1>6, <1>7, <1>8, Zenon DEF QNext
----------------------------------------------------------------------------
\* Every step of the client makes calls and resolves clients, or does neither.
LEMMA NextGrows == WInv /\ AInv /\ TInv /\ [QNext]_all_vars => Grows
  <1> SUFFICES ASSUME WInv, AInv, TInv, [QNext]_all_vars PROVE Grows
    OBVIOUS
  <1>1. client_redirect # None => client_redirect' # None
    <2>1. CASE GetPipelinedCap
      BY <2>1 DEF GetPipelinedCap
    <2>2. CASE Drive
      <3>1. client_redirect = None
        BY <2>2 DEF Drive
      <3> QED
        BY <3>1
    <2>3. CASE \E r \in Outcomes : ResolvePipeline(r)
      BY <2>3, NoneAssumption DEF ResolvePipeline, ResolveClient, Outcomes
    <2>4. CASE client_redirect' = client_redirect
      BY <2>4
    <2> QED
      BY <2>1, <2>2, <2>3, <2>4, Zenon
      DEF QNext, DropHandle, WhenMoreResolved, CancelCall, Call, PipedCall, DropPipeline, Ready,
          all_vars, queued_vars
  <1>2. piped' \in 0 .. Piped /\ piped <= piped'
    <2>1. piped \in 0 .. Piped
      BY DEF AInv
    <2>2. CASE PipedCall
      BY <2>1, <2>2, PipedAssumption DEF PipedCall
    <2>3. CASE piped' = piped
      BY <2>1, <2>3, PipedAssumption
    <2> QED
      BY <2>2, <2>3, Zenon
      DEF QNext, DropHandle, WhenMoreResolved, CancelCall, Call, GetPipelinedCap, DropPipeline, Ready,
          Drive, ResolvePipeline, all_vars, queued_vars
  <1>3. Order \subseteq Order' /\ Range(made) \subseteq Range(made')
    <2>1. CASE \E v \in Values : Call(v)
      BY <2>1, OrderGrows, Zenon DEF Call, WInv
    <2>2. CASE made' = made
      BY <2>2 DEF Order, MadeBefore
    <2> QED
      BY <2>1, <2>2, Zenon
      DEF QNext, DropHandle, WhenMoreResolved, CancelCall, PipedCall, GetPipelinedCap, DropPipeline,
          Ready, Drive, ResolvePipeline, all_vars, queued_vars
  <1> QED
    BY <1>1, <1>2, <1>3, Zenon DEF Grows

\* No call arrives.
LEMMA NoneArrives == Arrives(<< >>)
  <1>1. << >> \in Seq(Calls) /\ Ordered(<< >>, Order') /\ Ahead(arrived, << >>, Order')
    BY EmptyOrdered
  <1> QED
    BY <1>1 DEF Arrives

\* A call of the application is after all that arrived.
LEMMA CallArrives ==
    ASSUME WInv, AInv, NEW v \in Values, made' = Append(made, v), client_redirect' # None
    PROVE  Arrives(<<v>>)
  <1>1. v \in Calls /\ \A i \in DOMAIN arrived : arrived[i] \in Range(made) \/ arrived[i] \in 0 .. Piped
    BY PipedAssumption DEF Calls, AInv
  <1>2. /\ \A x \in Range(made) : <<x, v>> \in Order'
        /\ \A x \in 0 .. Piped : <<x, v>> \in Order'
        /\ v \in Range(made')
    BY LastInOrder, Zenon DEF WInv
  <1>3. <<v>> \in Seq(Calls) /\ Ordered(<<v>>, Order') /\ DOMAIN <<v>> = {1} /\ <<v>>[1] = v
    BY <1>1, OneOrdered, Zenon
  <1>4. Ahead(arrived, <<v>>, Order')
    BY <1>1, <1>2, <1>3, Zenon DEF Ahead
  <1> QED
    BY <1>2, <1>3, <1>4, Zenon DEF Arrives

\* A call of the application, and one of the peer, in either order.
LEMMA OrderMixed ==
    ASSUME NEW v \in Values, NEW c \in 0 .. Piped
    PROVE  <<v, c>> \in Order /\ <<c, v>> \in Order
  <1>1. c \notin Values /\ v \in Calls /\ c \in Calls
    BY ValuesAssumption DEF Calls
  <1> QED
    BY <1>1, OrderIs, Zenon

\* Two calls of the peer.
LEMMA OrderPeer ==
    ASSUME NEW c \in 0 .. Piped, NEW d \in 0 .. Piped, c < d
    PROVE  <<c, d>> \in Order
  <1>1. c \notin Values /\ c \in Calls /\ d \in Calls
    BY ValuesAssumption DEF Calls
  <1>2. MadeBefore(c, d)
    BY <1>1, Zenon DEF MadeBefore
  <1> QED
    BY <1>1, <1>2, OrderIs, Zenon

\* The calls that arrived are the application's or the peer's.
LEMMA ArrivedKinds ==
    ASSUME AInv, NEW i \in DOMAIN arrived
    PROVE  \/ arrived[i] \in Values /\ client_redirect # None
           \/ arrived[i] \in 0 .. Piped /\ arrived[i] <= piped
  BY PipedAssumption DEF AInv

\* A call of the peer is after all that arrived.
LEMMA PipedArrives ==
    ASSUME AInv, made' = made, piped' = piped + 1, piped' \in 0 .. Piped
    PROVE  Arrives(<<piped'>>)
  <1> DEFINE c == piped'
  <1>0. piped \in 0 .. Piped /\ c = piped + 1 /\ c \in 0 .. Piped /\ c \in 1 .. c
    BY PipedAssumption DEF AInv
  <1>1. c \notin Values /\ c \in Calls
    BY <1>0, ValuesAssumption DEF Calls
  <1>2. Order' = Order
    BY DEF Order, MadeBefore
  <1>3. \A x \in 0 .. Piped : x <= piped => x < c
    BY <1>0, PipedAssumption
  <1> HIDE DEF c
  <1>4. <<c>> \in Seq(Calls) /\ Ordered(<<c>>, Order') /\ DOMAIN <<c>> = {1} /\ <<c>>[1] = c
    BY <1>1, OneOrdered, Zenon
  <1>5. ASSUME NEW i \in DOMAIN arrived PROVE <<arrived[i], c>> \in Order
    <2>1. CASE arrived[i] \in Values
      BY <1>0, <2>1, OrderMixed, Zenon
    <2>2. CASE arrived[i] \in 0 .. Piped /\ arrived[i] <= piped
      BY <1>0, <1>3, <2>2, OrderPeer, Zenon
    <2> QED
      BY <2>1, <2>2, ArrivedKinds, Zenon
  <1>6. Ahead(arrived, <<c>>, Order')
    BY <1>2, <1>4, <1>5, Zenon DEF Ahead
  <1>7. \A k \in DOMAIN <<c>> : <<c>>[k] \notin Values /\ <<c>>[k] \in 1 .. piped'
    BY <1>0, <1>1, <1>4, Zenon DEF c
  <1> QED
    BY <1>4, <1>6, <1>7, Zenon DEF Arrives, c

\* The queued calls, when the application's client is the one that is resolved.
LEMMA QueuedArrives ==
    ASSUME WInv, AInv, client_redirect = None, made' = made, client_redirect' # None
    PROVE  Arrives(fifo)
  <1>1. Order' = Order
    BY DEF Order, MadeBefore
  <1>2. fifo \in Seq(Values) /\ fifo \in Seq(Calls) /\ Ordered(fifo, Order)
    BY DEF WInv, Calls
  <1>3. \A k \in DOMAIN fifo : fifo[k] \in Values /\ fifo[k] \in Range(made)
    BY <1>2, SeqElements, Zenon DEF WInv, Range
  <1>4. ASSUME NEW i \in DOMAIN arrived, NEW j \in DOMAIN fifo PROVE <<arrived[i], fifo[j]>> \in Order
    BY <1>3, ArrivedKinds, OrderMixed, Zenon
  <1>5. Ahead(arrived, fifo, Order')
    BY <1>1, <1>4, Zenon DEF Ahead
  <1> QED
    BY <1>1, <1>2, <1>3, <1>5, Zenon DEF Arrives
----------------------------------------------------------------------------
(* The resolution of the pipeline *)

\* The calls of a client of the pipeline.
CallsOfClient(c) == IF c # 0 THEN <<c>> ELSE IF ClientAlive THEN Queued ELSE << >>

\* What can be among them.
LEMMA CallsOfClientIs ==
    ASSUME WInv, QueueIsFifo, NEW c \in 0 .. Piped
    PROVE  /\ CallsOfClient(c) \in Seq(Calls) /\ Ordered(CallsOfClient(c), Order)
           /\ \A l \in DOMAIN CallsOfClient(c) :
                 \/ c = 0 /\ CallsOfClient(c)[l] \in Range(made) /\ CallsOfClient(c)[l] \in Values
                    /\ ClientAlive
                 \/ c # 0 /\ CallsOfClient(c)[l] = c
  <1>1. CASE c # 0
    <2>1. CallsOfClient(c) = <<c>> /\ c \in Calls
      BY <1>1 DEF CallsOfClient, Calls
    <2>2. <<c>> \in Seq(Calls) /\ Ordered(<<c>>, Order) /\ DOMAIN <<c>> = {1} /\ <<c>>[1] = c
      BY <2>1, OneOrdered, Zenon
    <2>3. \A l \in DOMAIN <<c>> : <<c>>[l] = c
      BY <2>2, Zenon
    <2> QED
      BY <1>1, <2>1, <2>2, <2>3, Zenon
  <1>2. CASE c = 0 /\ ClientAlive
    <2>1. CallsOfClient(c) = fifo
      BY <1>2 DEF CallsOfClient, QueueIsFifo, Queued
    <2>2. fifo \in Seq(Values) /\ fifo \in Seq(Calls) /\ Ordered(fifo, Order)
      BY DEF WInv, Calls
    <2>3. \A k \in DOMAIN fifo : fifo[k] \in Values /\ fifo[k] \in Range(made)
      BY <2>2, SeqElements, Zenon DEF WInv, Range
    <2> QED
      BY <1>2, <2>1, <2>2, <2>3, Zenon
  <1>3. CASE c = 0 /\ ~ ClientAlive
    <2>1. CallsOfClient(c) = << >>
      BY <1>3 DEF CallsOfClient
    <2>2. << >> \in Seq(Calls) /\ Ordered(<< >>, Order) /\ DOMAIN << >> = {}
      BY EmptyOrdered
    <2> QED
      BY <2>1, <2>2, Zenon
  <1> QED
    BY <1>1, <1>2, <1>3

\* The clients of the pipeline, in the order they were handed out, have their calls
\* in the order they were made.
LEMMA ClientsOrdered ==
    ASSUME WInv, AInv, HInv, QueueIsFifo
    PROVE  AllOrdered([i \in DOMAIN clients |-> CallsOfClient(clients[i])], Len(clients), Calls, Order)
  <1> DEFINE ss == [i \in DOMAIN clients |-> CallsOfClient(clients[i])]
             n == Len(clients)
  <1>1. clients \in Seq(0 .. Piped) /\ n \in Nat /\ DOMAIN clients = 1 .. n
    BY DEF HInv
  <1>2. \A i \in 1 .. n : clients[i] \in 0 .. Piped
    BY <1>1, SeqElements, Zenon
  <1>3. \A i \in 1 .. n : ss[i] = CallsOfClient(clients[i])
    BY <1>1
  <1> HIDE DEF ss, n
  <1>5. ASSUME NEW i \in 1 .. n PROVE ss[i] \in Seq(Calls) /\ Ordered(ss[i], Order)
    BY <1>2, <1>3, CallsOfClientIs, Zenon
  <1>6. ASSUME NEW i \in 1 .. n, NEW j \in 1 .. n, i < j PROVE Ahead(ss[i], ss[j], Order)
    <2> DEFINE c == clients[i]
               d == clients[j]
    <2>0. i # j
      BY <1>1, <1>6
    <2>1. c \in 0 .. Piped /\ d \in 0 .. Piped /\ ~ (c = 0 /\ d = 0) /\ (d # 0 => c < d)
      BY <1>1, <1>2, <1>6, <2>0 DEF HInv
    <2> HIDE DEF c, d
    <2>2. /\ \A l \in DOMAIN ss[i] : \/ c = 0 /\ ss[i][l] \in Values
                                     \/ c # 0 /\ ss[i][l] = c
          /\ \A l \in DOMAIN ss[j] : \/ d = 0 /\ ss[j][l] \in Values
                                     \/ d # 0 /\ ss[j][l] = d
      BY <1>3, <2>1, CallsOfClientIs, Zenon DEF c, d
    <2>3. ASSUME NEW k \in DOMAIN ss[i], NEW l \in DOMAIN ss[j] PROVE <<ss[i][k], ss[j][l]>> \in Order
      <3>1. CASE c = 0 /\ ss[i][k] \in Values
        BY <2>1, <2>2, <3>1, OrderMixed, Zenon
      <3>2. CASE c # 0 /\ ss[i][k] = c
        <4>1. CASE d = 0 /\ ss[j][l] \in Values
          BY <2>1, <3>2, <4>1, OrderMixed, Zenon
        <4>2. CASE d # 0 /\ ss[j][l] = d
          BY <2>1, <3>2, <4>2, OrderPeer, Zenon
        <4> QED
          BY <2>2, <4>1, <4>2, Zenon
      <3> QED
        BY <2>2, <3>1, <3>2, Zenon
    <2> QED
      BY <2>3, Zenon DEF Ahead
  <1>7. AllOrdered(ss, n, Calls, Order)
    BY <1>1, <1>5, <1>6, Zenon DEF AllOrdered
  <1> QED
    BY <1>7 DEF ss, n

\* The recursion of ResolvePipeline.
FirstFcn(f) ==
    f = [n \in 0 .. Len(clients) |-> IF n = 0 THEN << >> ELSE f[n - 1] \o CallsOfClient(clients[n])]

\* PipelineInner::resolve forwards the calls of all clients in order.
LEMMA PipelineArrives ==
    ASSUME WInv, AInv, HInv, QueueIsFifo, NEW r \in Outcomes, ResolvePipeline(r)
    PROVE  \E t : Arrives(t) /\ (arrived' = arrived \/ arrived' = arrived \o t)
  <1> DEFINE ss == [i \in DOMAIN clients |-> CallsOfClient(clients[i])]
             n == Len(clients)
             f == CHOOSE g : FirstFcn(g)
             t == f[n]
  <1>2. arrived' = arrived \/ arrived' = arrived \o t
    BY Zenon DEF ResolvePipeline, Forward, CallsOfClient, FirstFcn
  <1>3. arrived = << >> /\ made' = made /\ piped' = piped
    BY Zenon DEF ResolvePipeline, HInv
  <1>4. Order' = Order
    BY <1>3 DEF Order, MadeBefore
  <1>5. clients \in Seq(0 .. Piped) /\ n \in Nat /\ DOMAIN clients = 1 .. n
    BY DEF HInv
  <1>7. \A i \in 1 .. n : ss[i] = CallsOfClient(clients[i]) /\ clients[i] \in 0 .. Piped
    BY <1>5, SeqElements, Zenon
  <1>8. AllOrdered(ss, n, Calls, Order)
    BY ClientsOrdered, Zenon
  <1> HIDE DEF ss, f
  <1>9. \A g : FirstFcn(g) <=> FlatFcn(g, ss, n)
    <2>1. \A k \in 0 .. n : k # 0 => k \in 1 .. n
      BY <1>5
    <2> HIDE DEF n
    <2>2. ASSUME NEW g, NEW k \in 0 .. n
          PROVE  (IF k = 0 THEN << >> ELSE g[k - 1] \o CallsOfClient(clients[k]))
                 = (IF k = 0 THEN << >> ELSE g[k - 1] \o ss[k])
      BY <1>7, <2>1, Zenon
    <2> QED
      BY <2>2, Zenon DEF FirstFcn, FlatFcn, n
  <1>10. FlatFcn(f, ss, n)
    <2>1. \E g : FirstFcn(g)
      BY <1>5, <1>9, FlatExists, Zenon
    <2>2. FirstFcn(f)
      BY <2>1, Zenon DEF f
    <2> QED
      BY <1>9, <2>2, Zenon
  <1> HIDE DEF n
  <1>11. Arrives(t)
    <2>1. t \in Seq(Calls) /\ Ordered(t, Order) /\ From(t, ss, n)
      BY <1>8, <1>10, FlatOrdered, Zenon
    <2> HIDE DEF t
    <2>2. ASSUME NEW k \in DOMAIN t
          PROVE  IF t[k] \in Values THEN t[k] \in Range(made') /\ client_redirect' # None
                 ELSE t[k] \in 1 .. piped'
      <3>1. PICK i \in 1 .. n : \E l \in DOMAIN ss[i] : t[k] = ss[i][l]
        BY <2>1, Zenon DEF From
      <3> DEFINE c == clients[i]
      <3>2. c \in 0 .. Piped /\ c <= piped /\ c \in Range(clients)
        BY <1>5, <1>7, Zenon DEF HInv, Range
      <3>3. \/ c = 0 /\ t[k] \in Range(made) /\ t[k] \in Values /\ ClientAlive
            \/ c # 0 /\ t[k] = c
        BY <1>7, <3>1, <3>2, CallsOfClientIs, Zenon
      <3> HIDE DEF c
      <3>4. CASE c = 0 /\ t[k] \in Range(made) /\ t[k] \in Values /\ ClientAlive
        <4>1. client_redirect' = r
          BY <3>2, <3>4, Zenon DEF ResolvePipeline, ResolveClient
        <4>2. r # None
          BY NoneAssumption DEF Outcomes
        <4> QED
          BY <1>3, <3>4, <4>1, <4>2, Zenon
      <3>5. CASE c # 0 /\ t[k] = c
        <4>1. c \notin Values
          BY <3>2, ValuesAssumption
        <4>2. c \in 1 .. piped
          BY <3>2, <3>5, PipedAssumption DEF AInv
        <4> QED
          BY <1>3, <3>5, <4>1, <4>2, Zenon
      <3> QED
        BY <3>3, <3>4, <3>5, Zenon
    <2>3. Ahead(arrived, t, Order')
      BY <1>3 DEF Ahead
    <2> QED
      BY <1>4, <2>1, <2>2, <2>3, Zenon DEF Arrives
  <1> HIDE DEF t
  <1> QED
    BY <1>2, <1>11, Zenon

\* Every step keeps the order of what arrived.
LEMMA NextAInv ==
    SInv /\ FInv /\ TInv /\ WInv /\ AInv /\ HInv /\ [QNext]_all_vars => AInv'
  <1> SUFFICES ASSUME SInv, FInv, TInv, WInv, AInv, HInv, [QNext]_all_vars PROVE AInv'
    OBVIOUS
  <1>0. Grows
    BY NextGrows
  <1> DEFINE Appends == \E t : Arrives(t) /\ (arrived' = arrived \/ arrived' = arrived \o t)
  <1> SUFFICES Appends
    BY <1>0, ArrivesAInv, Zenon
  <1>1. CASE arrived' = arrived
    BY <1>1, NoneArrives, Zenon
  <1>2. ASSUME NEW v \in Values, Call(v) PROVE Appends
    <2>1. CASE client_redirect = None
      BY <1>1, <1>2, <2>1, Zenon DEF Call
    <2>2. CASE client_redirect # None
      <3>1. made' = Append(made, v) /\ client_redirect' # None
            /\ (arrived' = arrived \/ arrived' = arrived \o <<v>>)
        BY <1>2, <2>2, Zenon DEF Call, Forward
      <3> QED
        BY <3>1, CallArrives, Zenon
    <2> QED
      BY <2>1, <2>2
  <1>3. CASE PipedCall
    <2>1. made' = made /\ piped' = piped + 1 /\ piped' \in 0 .. Piped
      BY <1>0, <1>3, Zenon DEF PipedCall, Grows
    <2>2. arrived' = arrived \/ arrived' = arrived \o <<piped'>>
      <3>1. CASE pipeline_redirect = None
        BY <1>3, <3>1, NoneAssumption DEF PipedCall
      <3>2. CASE pipeline_redirect = "cap"
        BY <1>3, <3>2, NoneAssumption DEF PipedCall, Forward
      <3>3. CASE pipeline_redirect # None /\ pipeline_redirect # "cap"
        BY <1>3, <3>3 DEF PipedCall
      <3> QED
        BY <3>1, <3>2, <3>3
    <2> QED
      BY <2>1, <2>2, PipedArrives, Zenon
  <1>4. CASE Drive
    <2>1. /\ client_redirect = None /\ made' = made /\ client_redirect' = ready /\ ready # None
          /\ (arrived' = arrived \/ arrived' = arrived \o Queued)
      BY <1>4, Zenon DEF Drive, ResolveClient, Forward
    <2>2. Queued = fifo
      BY FInvIsFifo, Zenon DEF QueueIsFifo, Queued
    <2> QED
      BY <2>1, <2>2, QueuedArrives, Zenon
  <1>5. CASE \E r \in Outcomes : ResolvePipeline(r)
    BY <1>5, FInvIsFifo, PipelineArrives, Zenon
  <1> HIDE DEF Appends
  <1> QED
    BY <1>1, <1>2, <1>3, <1>4, <1>5, Zenon
    DEF QNext, GetPipelinedCap, DropHandle, WhenMoreResolved, CancelCall, DropPipeline, Ready,
        all_vars, queued_vars

\* Whatever is queued, in the application's client or in the ones a pipeline hands
\* out, cancelled or called after the resolution: the calls that reach the
\* capability come in the order in which each of the two has made them.
THEOREM CallsArriveInOrder == QSpec => []ForwardedInOrder
  <1>1. AInv => ForwardedInOrder
    <2> SUFFICES ASSUME AInv, NEW i \in DOMAIN arrived, NEW j \in DOMAIN arrived, i < j,
                        arrived[i] \in Values <=> arrived[j] \in Values
                 PROVE  MadeBefore(arrived[i], arrived[j])
      BY Zenon DEF ForwardedInOrder
    <2>1. arrived[i] \in Calls /\ arrived[j] \in Calls /\ <<arrived[i], arrived[j]>> \in Order
      BY SeqElements, Zenon DEF AInv, Ordered
    <2> QED
      BY <2>1, OrderIs, Zenon
  <1>2. QInit => SInv /\ FInv
    <2>1. Init => NothingQueued
      BY DEF Init, NothingQueued
    <2> QED
      BY <2>1, InitSInv, EmptyFInv DEF QInit
  <1> QED
    BY <1>1, <1>2, InitTInv, InitHInv, NextSInv, NextFInv, NextTInv, NextWInv, NextAInv, NextHInv,
       QNextIsNext, PTL DEF QSpec
=============================================================================
