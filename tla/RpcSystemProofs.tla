-------------------------- MODULE RpcSystemProofs ---------------------------
(***************************************************************************)
(* For any number of messages, of calls of terminate and of                *)
(* ConnectionStates on the connection.  First the write queue by itself    *)
(* (module WriteQueue), then the rpc system that drives it.                *)
(***************************************************************************)
EXTENDS RpcSystem, TLAPS

\* What the channel holds while the task runs, when messages up to b have been
\* taken, n have been sent and terminate has been called t times: the messages
\* above b and all of the Dones, each kind in order, and no message behind a Done
\* that was sent before it.
QueueOK(q, b, n, t, sb) ==
    /\ \A i, j \in DOMAIN q : i < j /\ q[i] \in Messages /\ q[j] \in Messages => q[i] < q[j]
    /\ \A i, j \in DOMAIN q : i < j /\ q[i] \in Dones /\ q[j] \in Dones => q[j] < q[i]
    /\ \A i, j \in DOMAIN q : i < j /\ q[i] \in Dones /\ q[j] \in Messages => sb[q[i]] < q[j]
    /\ \A i \in DOMAIN q : q[i] \in Messages => b < q[i] /\ q[i] <= n
    /\ \A i \in DOMAIN q : q[i] \in Dones => -t <= q[i] /\ sb[q[i]] <= n
    /\ \A m \in Messages : b < m /\ m <= n => \E i \in DOMAIN q : q[i] = m
    /\ \A d \in Dones : -t <= d => \E i \in DOMAIN q : q[i] = d

\* Kinds of items.
LEMMA Kinds ==
    /\ \A x \in Messages : x \in Int /\ x >= 1 /\ x <= MaxSends /\ x \notin Dones
    /\ \A x \in Dones : x \in Int /\ x <= -1 /\ -MaxTerminates <= x /\ x \notin Messages
    /\ \A x \in Int : x >= 1 /\ x <= MaxSends => x \in Messages
    /\ \A x \in Int : x <= -1 /\ -MaxTerminates <= x => x \in Dones
  BY MaxSendsAssumption, MaxTerminatesAssumption DEF Messages, Dones

\* The elements of a longer sequence.
LEMMA AppendElements ==
    ASSUME NEW S, NEW q \in Seq(S), NEW x \in S
    PROVE  /\ Append(q, x) \in Seq(S) /\ Len(q) \in Nat
           /\ DOMAIN q = 1 .. Len(q) /\ DOMAIN Append(q, x) = 1 .. Len(q) + 1
           /\ \A i \in DOMAIN q : Append(q, x)[i] = q[i]
           /\ Append(q, x)[Len(q) + 1] = x
           /\ q \o <<x>> = Append(q, x)
           /\ ToSet(<<x>>) = {x}
  <1>1. ToSet(<<x>>) = {x}
    BY DEF ToSet
  <1>. QED  BY <1>1

\* The elements of the rest of a sequence.
LEMMA TailElements ==
    ASSUME NEW S, NEW q \in Seq(S), q # << >>
    PROVE  /\ Tail(q) \in Seq(S) /\ Head(q) = q[1] /\ Head(q) \in S /\ 1 \in DOMAIN q
           /\ \A i \in DOMAIN Tail(q) : i + 1 \in DOMAIN q /\ Tail(q)[i] = q[i + 1] /\ i \in Nat /\ i > 0
           /\ \A i \in DOMAIN q : i # 1 => i - 1 \in DOMAIN Tail(q) /\ Tail(q)[i - 1] = q[i]
           /\ \A i \in DOMAIN q : i # 1 => 1 < i
  OBVIOUS

\* send appends the next message.
LEMMA QueueMessage ==
    ASSUME NEW q \in Seq(Items), NEW b \in Nat, NEW n \in Nat, NEW t \in Nat,
           NEW sb \in [Dones -> 0 .. MaxSends],
           QueueOK(q, b, n, t, sb), b <= n, n + 1 <= MaxSends
    PROVE  QueueOK(Append(q, n + 1), b, n + 1, t, sb)
  <1>. DEFINE p == Append(q, n + 1)
  <1>1. n + 1 \in Messages /\ n + 1 \in Items /\ n + 1 \notin Dones
    BY Kinds DEF Items
  <1>2. /\ DOMAIN q = 1 .. Len(q) /\ Len(q) \in Nat /\ DOMAIN p = 1 .. Len(q) + 1
        /\ \A i \in DOMAIN q : p[i] = q[i]
        /\ p[Len(q) + 1] = n + 1
    BY <1>1, AppendElements
  <1>. HIDE DEF p
  <1>3. PICK l \in Nat : l = Len(q) /\ DOMAIN q = 1 .. l /\ DOMAIN p = 1 .. l + 1
    BY <1>2, Zenon
  <1>4. \A i, j \in DOMAIN p : i < j => i \in DOMAIN q /\ (j \in DOMAIN q \/ j = l + 1)
    BY <1>3
  <1>5. \A i \in DOMAIN p : i \in DOMAIN q \/ i = l + 1
    BY <1>3
  <1>6. /\ \A i, j \in DOMAIN p : i < j /\ p[i] \in Messages /\ p[j] \in Messages => p[i] < p[j]
        /\ \A i, j \in DOMAIN p : i < j /\ p[i] \in Dones /\ p[j] \in Dones => p[j] < p[i]
        /\ \A i, j \in DOMAIN p : i < j /\ p[i] \in Dones /\ p[j] \in Messages => sb[p[i]] < p[j]
    <2>1. /\ \A i \in DOMAIN q : q[i] \in Messages => q[i] \in Int /\ q[i] <= n
          /\ \A i \in DOMAIN q : q[i] \in Dones => sb[q[i]] \in Int /\ sb[q[i]] <= n
      BY Kinds DEF QueueOK
    <2>2. /\ \A i \in DOMAIN q : q[i] \in Messages => q[i] < n + 1
          /\ \A i \in DOMAIN q : q[i] \in Dones => sb[q[i]] < n + 1
      BY <2>1
    <2>3. \A i, j \in DOMAIN p : i < j /\ p[i] \in Messages /\ p[j] \in Messages => p[i] < p[j]
      BY <1>2, <1>3, <1>4, <2>2 DEF QueueOK
    <2>4. \A i, j \in DOMAIN p : i < j /\ p[i] \in Dones /\ p[j] \in Dones => p[j] < p[i]
      BY <1>1, <1>2, <1>3, <1>4 DEF QueueOK
    <2>5. \A i, j \in DOMAIN p : i < j /\ p[i] \in Dones /\ p[j] \in Messages => sb[p[i]] < p[j]
      BY <1>2, <1>3, <1>4, <2>2 DEF QueueOK
    <2>. QED  BY <2>3, <2>4, <2>5
  <1>7. /\ \A i \in DOMAIN p : p[i] \in Messages => b < p[i] /\ p[i] <= n + 1
        /\ \A i \in DOMAIN p : p[i] \in Dones => -t <= p[i] /\ sb[p[i]] <= n + 1
    <2>1. /\ b < n + 1
          /\ \A i \in DOMAIN q : q[i] \in Messages => b < q[i] /\ q[i] <= n + 1
          /\ \A i \in DOMAIN q : q[i] \in Dones => -t <= q[i] /\ sb[q[i]] <= n + 1
      BY Kinds DEF QueueOK
    <2>2. \A i \in DOMAIN p : p[i] \in Messages => b < p[i] /\ p[i] <= n + 1
      BY <1>2, <1>3, <1>5, <2>1
    <2>3. \A i \in DOMAIN p : p[i] \in Dones => -t <= p[i] /\ sb[p[i]] <= n + 1
      BY <1>1, <1>2, <1>3, <1>5, <2>1
    <2>. QED  BY <2>2, <2>3, Zenon
  <1>8. \A m \in Messages : b < m /\ m <= n + 1 => \E i \in DOMAIN p : p[i] = m
    <2>1. DOMAIN q \subseteq DOMAIN p /\ l + 1 \in DOMAIN p
      BY <1>3
    <2>2. \A m \in Messages : m <= n + 1 => m <= n \/ m = n + 1
      BY Kinds
    <2>. QED  BY <1>2, <1>3, <2>1, <2>2 DEF QueueOK
  <1>9. \A d \in Dones : -t <= d => \E i \in DOMAIN p : p[i] = d
    BY <1>2, <1>3 DEF QueueOK
  <1>. QED  BY <1>6, <1>7, <1>8, <1>9, Zenon DEF QueueOK, p

\* terminate appends the next Done.
LEMMA QueueDone ==
    ASSUME NEW q \in Seq(Items), NEW b \in Nat, NEW n \in 0 .. MaxSends, NEW t \in Nat,
           NEW sb \in [Dones -> 0 .. MaxSends],
           QueueOK(q, b, n, t, sb), t + 1 <= MaxTerminates
    PROVE  QueueOK(Append(q, -(t + 1)), b, n, t + 1, [sb EXCEPT ![-(t + 1)] = n])
  <1>. DEFINE e == -(t + 1)
              p == Append(q, e)
              sc == [sb EXCEPT ![e] = n]
  <1>1. e \in Dones /\ e \in Items /\ e \notin Messages /\ e \in Int
    BY Kinds, MaxTerminatesAssumption DEF Items
  <1>2. /\ DOMAIN q = 1 .. Len(q) /\ Len(q) \in Nat /\ DOMAIN p = 1 .. Len(q) + 1
        /\ \A i \in DOMAIN q : p[i] = q[i]
        /\ p[Len(q) + 1] = e
    BY <1>1, AppendElements
  <1>a. sc[e] = n /\ \A d \in Dones : d # e => sc[d] = sb[d]
    BY <1>1
  <1>b. -t = e + 1 /\ -(t + 1) = e
    OBVIOUS
  <1>. HIDE DEF p, e, sc
  <1>3. PICK l \in Nat : l = Len(q) /\ DOMAIN q = 1 .. l /\ DOMAIN p = 1 .. l + 1
    BY <1>2, Zenon
  <1>4. \A i, j \in DOMAIN p : i < j => i \in DOMAIN q /\ (j \in DOMAIN q \/ j = l + 1)
    BY <1>3
  <1>5. \A i \in DOMAIN p : i \in DOMAIN q \/ i = l + 1
    BY <1>3
  <1>c. \A i \in DOMAIN q : q[i] \in Dones => e < q[i] /\ q[i] # e /\ sc[q[i]] = sb[q[i]]
    <2>1. \A i \in DOMAIN q : q[i] \in Dones => q[i] \in Int /\ e + 1 <= q[i]
      BY <1>b, Kinds DEF QueueOK
    <2>2. \A i \in DOMAIN q : q[i] \in Dones => e < q[i] /\ q[i] # e
      BY <1>1, <2>1
    <2>. QED  BY <2>2, <1>a
  <1>6. /\ \A i, j \in DOMAIN p : i < j /\ p[i] \in Messages /\ p[j] \in Messages => p[i] < p[j]
        /\ \A i, j \in DOMAIN p : i < j /\ p[i] \in Dones /\ p[j] \in Dones => p[j] < p[i]
        /\ \A i, j \in DOMAIN p : i < j /\ p[i] \in Dones /\ p[j] \in Messages => sc[p[i]] < p[j]
    <2>1. \A i, j \in DOMAIN p : i < j /\ p[i] \in Messages /\ p[j] \in Messages => p[i] < p[j]
      BY <1>1, <1>2, <1>3, <1>4 DEF QueueOK
    <2>2. \A i, j \in DOMAIN p : i < j /\ p[i] \in Dones /\ p[j] \in Dones => p[j] < p[i]
      BY <1>2, <1>3, <1>4, <1>c DEF QueueOK
    <2>3. \A i, j \in DOMAIN p : i < j /\ p[i] \in Dones /\ p[j] \in Messages => sc[p[i]] < p[j]
      BY <1>1, <1>2, <1>3, <1>4, <1>c DEF QueueOK
    <2>. QED  BY <2>1, <2>2, <2>3, Zenon
  <1>7. /\ \A i \in DOMAIN p : p[i] \in Messages => b < p[i] /\ p[i] <= n
        /\ \A i \in DOMAIN p : p[i] \in Dones => e <= p[i] /\ sc[p[i]] <= n
    <2>1. \A i \in DOMAIN q : q[i] \in Dones => e <= q[i] /\ sc[q[i]] <= n
      <3>1. \A i \in DOMAIN q : q[i] \in Dones => q[i] \in Int /\ e < q[i] /\ sc[q[i]] <= n
        BY <1>c, Kinds DEF QueueOK
      <3>. QED  BY <1>1, <3>1
    <2>2. e <= e /\ n <= n
      BY <1>1
    <2>3. \A i \in DOMAIN p : p[i] \in Messages => b < p[i] /\ p[i] <= n
      BY <1>1, <1>2, <1>3, <1>5 DEF QueueOK
    <2>. QED  BY <1>2, <1>3, <1>5, <1>a, <2>1, <2>2, <2>3
  <1>8. \A m \in Messages : b < m /\ m <= n => \E i \in DOMAIN p : p[i] = m
    BY <1>2, <1>3 DEF QueueOK
  <1>9. \A d \in Dones : e <= d => \E i \in DOMAIN p : p[i] = d
    <2>1. DOMAIN q \subseteq DOMAIN p /\ l + 1 \in DOMAIN p
      BY <1>3
    <2>2. \A d \in Dones : e <= d => -t <= d \/ d = e
      BY <1>1, <1>b, Kinds
    <2>. QED  BY <1>2, <1>3, <2>1, <2>2 DEF QueueOK
  <1>. QED  BY <1>6, <1>7, <1>8, <1>9, <1>b, Zenon DEF QueueOK, p, e, sc

\* The message at the head is the next one.
LEMMA QueueTakeMessage ==
    ASSUME NEW q \in Seq(Items), NEW b \in Nat, NEW n \in 0 .. MaxSends, NEW t \in Nat,
           NEW sb \in [Dones -> 0 .. MaxSends],
           QueueOK(q, b, n, t, sb), q # << >>, Head(q) \in Messages
    PROVE  Head(q) = b + 1 /\ b + 1 <= n /\ QueueOK(Tail(q), b + 1, n, t, sb)
  <1>. DEFINE p == Tail(q)
  <1>1. /\ Head(q) = q[1] /\ 1 \in DOMAIN q
        /\ \A i \in DOMAIN p : i + 1 \in DOMAIN q /\ p[i] = q[i + 1] /\ i \in Nat /\ i > 0
        /\ \A i \in DOMAIN q : i # 1 => i - 1 \in DOMAIN p /\ p[i - 1] = q[i]
        /\ \A i \in DOMAIN q : i # 1 => 1 < i
    BY TailElements
  <1>. HIDE DEF p
  <1>2. q[1] \in Int /\ b < q[1] /\ q[1] <= n /\ n \in Int /\ n <= MaxSends /\ MaxSends \in Int
    BY <1>1, Kinds, MaxSendsAssumption DEF QueueOK
  <1>3. b + 1 <= n /\ b + 1 \in Messages /\ b + 1 <= q[1]
    <2>1. b + 1 <= q[1] /\ b + 1 <= n
      BY <1>2
    <2>. QED  BY <1>2, <2>1, Kinds
  <1>4. PICK k \in DOMAIN q : q[k] = b + 1
    <2>1. b < b + 1
      OBVIOUS
    <2>. QED  BY <1>3, <2>1 DEF QueueOK
  <1>5. k = 1
    <2>. SUFFICES ASSUME k # 1 PROVE FALSE
      OBVIOUS
    <2>1. q[1] < q[k]
      BY <1>1, <1>3, <1>4 DEF QueueOK
    <2>. QED  BY <2>1, <1>2, <1>3, <1>4
  <1>6. \A i, j \in DOMAIN p : i < j => i + 1 < j + 1
    BY <1>1
  <1>7. /\ \A i, j \in DOMAIN p : i < j /\ p[i] \in Messages /\ p[j] \in Messages => p[i] < p[j]
        /\ \A i, j \in DOMAIN p : i < j /\ p[i] \in Dones /\ p[j] \in Dones => p[j] < p[i]
        /\ \A i, j \in DOMAIN p : i < j /\ p[i] \in Dones /\ p[j] \in Messages => sb[p[i]] < p[j]
    BY <1>1, <1>6 DEF QueueOK
  <1>8. \A i \in DOMAIN p : p[i] \in Messages => b + 1 < p[i] /\ p[i] <= n
    <2>1. \A i \in DOMAIN p : 1 < i + 1
      BY <1>1
    <2>. QED  BY <1>1, <1>3, <1>4, <1>5, <2>1 DEF QueueOK
  <1>9. \A i \in DOMAIN p : p[i] \in Dones => -t <= p[i] /\ sb[p[i]] <= n
    BY <1>1 DEF QueueOK
  <1>10. \A m \in Messages : b + 1 < m /\ m <= n => \E i \in DOMAIN p : p[i] = m
    <2>. SUFFICES ASSUME NEW m \in Messages, b + 1 < m, m <= n
                  PROVE  \E i \in DOMAIN p : p[i] = m
      OBVIOUS
    <2>1. b < m /\ m # b + 1
      BY Kinds
    <2>2. PICK i \in DOMAIN q : q[i] = m
      BY <2>1 DEF QueueOK
    <2>. QED  BY <1>1, <1>4, <1>5, <2>1, <2>2
  <1>11. \A d \in Dones : -t <= d => \E i \in DOMAIN p : p[i] = d
    <2>. SUFFICES ASSUME NEW d \in Dones, -t <= d PROVE \E i \in DOMAIN p : p[i] = d
      OBVIOUS
    <2>1. PICK i \in DOMAIN q : q[i] = d
      BY DEF QueueOK
    <2>2. i # 1
      BY <1>3, <1>4, <1>5, <2>1, Kinds
    <2>. QED  BY <1>1, <2>1, <2>2
  <1>. QED  BY <1>1, <1>3, <1>4, <1>5, <1>7, <1>8, <1>9, <1>10, <1>11 DEF QueueOK, p

\* The Done at the head is the first one, and every message sent before it has been
\* taken.
LEMMA QueueTakeDone ==
    ASSUME NEW q \in Seq(Items), NEW b \in Nat, NEW n \in 0 .. MaxSends, NEW t \in Nat,
           NEW sb \in [Dones -> 0 .. MaxSends],
           QueueOK(q, b, n, t, sb), q # << >>, Head(q) \in Dones
    PROVE  Head(q) = -1 /\ 1 <= t /\ sb[Head(q)] <= b
  <1>1. /\ Head(q) = q[1] /\ 1 \in DOMAIN q
        /\ \A i \in DOMAIN q : i # 1 => 1 < i
    BY TailElements
  <1>2. q[1] \in Int /\ -t <= q[1] /\ q[1] <= -1 /\ -MaxTerminates <= q[1]
    BY <1>1, Kinds DEF QueueOK
  <1>3. 1 <= t /\ -t <= -1 /\ -1 \in Dones
    <2>1. 1 <= t /\ -t <= -1 /\ -MaxTerminates <= -1
      BY <1>2, MaxTerminatesAssumption
    <2>. QED  BY <2>1, Kinds
  <1>4. q[1] = -1
    <2>. SUFFICES ASSUME q[1] # -1 PROVE FALSE
      OBVIOUS
    <2>1. PICK i \in DOMAIN q : q[i] = -1
      BY <1>3 DEF QueueOK
    <2>2. q[i] < q[1]
      BY <1>1, <1>3, <2>1 DEF QueueOK
    <2>. QED  BY <1>2, <2>1, <2>2
  <1>5. sb[q[1]] <= b
    <2>. SUFFICES ASSUME b < sb[q[1]] PROVE FALSE
      BY <1>1
    <2>1. sb[q[1]] \in Int /\ sb[q[1]] <= n /\ n \in Int /\ n <= MaxSends
      BY <1>1, MaxSendsAssumption DEF QueueOK
    <2>2. b + 1 <= sb[q[1]] /\ b + 1 <= n /\ b < b + 1 /\ b + 1 <= MaxSends
      BY <2>1, MaxSendsAssumption
    <2>3. b + 1 \in Messages
      BY <2>2, Kinds
    <2>4. PICK i \in DOMAIN q : q[i] = b + 1
      BY <2>2, <2>3 DEF QueueOK
    <2>5. i # 1
      BY <1>1, <2>3, <2>4, Kinds
    <2>6. sb[q[1]] < b + 1
      BY <1>1, <2>3, <2>4, <2>5 DEF QueueOK
    <2>. QED  BY <2>1, <2>2, <2>6
  <1>. QED  BY <1>1, <1>3, <1>4, <1>5

----------------------------------------------------------------------------
(* The inductive invariant *)

Outcomes == {"none", "pending", "ok", "failed"}

\* How many messages the task has taken.
Taken == IF phase = "writing" THEN Len(wire) + 1 ELSE Len(wire)

\* Of a task that runs: where it is with the message it has, and what is left.
Running ==
    /\ QueueOK(queue, Taken, calls, terminates, sent_before)
    /\ Taken <= calls /\ in_flight + Len(wire) = 0
    /\ phase = "writing" => current = Taken
    /\ phase = "flushing" => current = Len(wire)
    /\ phase # "flushing" => flushed = Len(wire)
    /\ \A d \in Dones : -terminates <= d => outcome[d] = "pending"

WInv ==
    /\ TypeOK /\ WireInOrder /\ OkMeansFlushed /\ TerminateDrains
    /\ phase # "over" => Running

\* The invariant holds initially.
LEMMA InitWInv == Init => WInv
  <1>. SUFFICES ASSUME Init PROVE WInv
    OBVIOUS
  <1>1. TypeOK
    <2>1. senders \in BOOLEAN
      BY DEF Init
    <2>. QED  BY <2>1, MaxSendsAssumption, MaxTerminatesAssumption DEF Init, TypeOK, Messages
  <1>2. WireInOrder /\ OkMeansFlushed /\ TerminateDrains
    BY DEF Init, WireInOrder, OkMeansFlushed, TerminateDrains, Items
  <1>3. Running
    <2>1. Taken = 0 /\ Len(wire) = 0 /\ calls = 0 /\ terminates = 0 /\ DOMAIN queue = {}
      BY DEF Init, Taken
    <2>2. \A d \in Dones : ~ (-terminates <= d)
      BY <2>1, Kinds
    <2>3. \A m \in Messages : ~ (m <= 0)
      BY Kinds
    <2>4. QueueOK(queue, Taken, calls, terminates, sent_before)
      BY <2>1, <2>2, <2>3 DEF QueueOK
    <2>5. Taken <= calls /\ phase = "next" /\ flushed = Len(wire)
      BY <2>1 DEF Init
    <2>7. in_flight + Len(wire) = 0
      BY <2>1 DEF Init
    <2>. QED  BY <2>2, <2>4, <2>5, <2>7 DEF Running
  <1>. QED  BY <1>1, <1>2, <1>3 DEF WInv

\* Items are sent: to a task that runs they are appended to what it has to do.
LEMMA EnqueueWInv ==
    ASSUME WInv, NEW items, Enqueue(items),
           calls' \in 0 .. MaxSends, terminates' \in 0 .. MaxTerminates, calls <= calls',
           sent_before' \in [Dones -> 0 .. MaxSends],
           \A d \in Dones : d \notin ToSet(items) => sent_before'[d] = sent_before[d],
           \A d \in Dones : -terminates' <= d => -terminates <= d \/ d \in ToSet(items),
           phase # "over" => /\ queue \o items \in Seq(Items)
                             /\ QueueOK(queue \o items, Taken, calls', terminates', sent_before'),
           senders' \in BOOLEAN, UNCHANGED <<phase, current, in_flight, stream>>
    PROVE  WInv'
  <1>1. PICK x \in {"pending", "failed"} :
            /\ outcome' = [i \in Items |-> IF i \in ToSet(items) THEN x ELSE outcome[i]]
            /\ phase # "over" => x = "pending"
    BY DEF Enqueue
  <1>2. /\ outcome' \in [Items -> Outcomes]
        /\ \A i \in Items : i \in ToSet(items) => outcome'[i] = x
        /\ \A i \in Items : i \notin ToSet(items) => outcome'[i] = outcome[i]
    BY <1>1 DEF WInv, TypeOK, Outcomes
  <1>3. queue' \in Seq(Items) /\ (phase # "over" => queue' = queue \o items)
    BY Zenon DEF Enqueue, WInv, TypeOK
  <1>4. TypeOK'
    BY <1>2, <1>3 DEF WInv, TypeOK, stream, Outcomes
  <1>5. WireInOrder'
    BY DEF WInv, WireInOrder, stream
  <1>6. \A i \in Items : outcome'[i] = "ok" => i \notin ToSet(items) /\ outcome[i] = "ok"
    BY <1>1, <1>2
  <1>7. OkMeansFlushed' /\ TerminateDrains'
    BY <1>6 DEF WInv, OkMeansFlushed, TerminateDrains, stream, Items
  <1>8. ASSUME phase # "over" PROVE Running'
    <2>1. /\ wire' = wire /\ flushed' = flushed /\ phase' = phase /\ current' = current
          /\ in_flight' = in_flight /\ Taken' = Taken
      BY DEF stream, Taken
    <2>2. QueueOK(queue', Taken, calls', terminates', sent_before')
      BY <1>3, <1>8, Zenon
    <2>3. Taken <= calls'
      <3>1. PICK n \in Int : n = calls'
        OBVIOUS
      <3>2. Taken \in Int /\ calls \in Int /\ Taken <= calls /\ calls <= n
        BY <1>8, <3>1 DEF WInv, Running, TypeOK, Taken
      <3>3. Taken <= n
        BY <3>2
      <3>. QED  BY <3>1, <3>3
    <2>4. \A d \in Dones : -terminates' <= d => outcome'[d] = "pending"
      BY <1>1, <1>2, <1>8 DEF WInv, Running, Items
    <2>. QED  BY <1>8, <2>1, <2>2, <2>3, <2>4 DEF WInv, Running
  <1>. QED  BY <1>4, <1>5, <1>7, <1>8 DEF WInv

\* The task ends: no outcome gets better than it was, unless res says so rightly.
LEMMA EndsWInv ==
    ASSUME WInv, NEW res \in [Items -> Outcomes], Ends(res),
           \A i \in Items : res[i] = "ok" =>
               outcome[i] = "ok" \/ (i \in Dones /\ sent_before[i] <= flushed),
           in_flight' \in -MaxSends .. MaxSends, UNCHANGED <<sending, stream>>
    PROVE  WInv'
  <1>1. /\ phase' = "over" /\ queue' = << >> /\ current' = 0
        /\ outcome' \in [Items -> Outcomes]
        /\ \A i \in Items : outcome'[i] = "ok" => res[i] = "ok"
    BY DEF Ends, Outcomes
  <1>2. TypeOK'
    BY <1>1 DEF WInv, TypeOK, sending, stream, Outcomes
  <1>3. WireInOrder'
    BY DEF WInv, WireInOrder, stream
  <1>4. OkMeansFlushed' /\ TerminateDrains'
    BY <1>1, Kinds DEF WInv, OkMeansFlushed, TerminateDrains, stream, sending, Items
  <1>. QED  BY <1>1, <1>2, <1>3, <1>4 DEF WInv

\* send, whoever calls it.
LEMMA SendWInv ==
    ASSUME WInv, calls < MaxSends, calls' = calls + 1, Enqueue(<<calls'>>),
           UNCHANGED <<senders, terminates, sent_before, phase, current, in_flight, stream>>
    PROVE  WInv'
  <1>1. PICK n \in 0 .. MaxSends : n = calls /\ n + 1 = calls' /\ n + 1 <= MaxSends
    BY MaxSendsAssumption DEF WInv, TypeOK
  <1>2. n \in Nat /\ n + 1 \in Messages /\ n + 1 \in Items /\ n + 1 \in 0 .. MaxSends
    BY <1>1, Kinds, MaxSendsAssumption DEF Items
  <1>3. ToSet(<<n + 1>>) = {n + 1} /\ queue \o <<n + 1>> = Append(queue, n + 1)
        /\ Append(queue, n + 1) \in Seq(Items)
    BY <1>2, AppendElements DEF WInv, TypeOK
  <1>4. ASSUME phase # "over"
        PROVE  QueueOK(queue \o <<n + 1>>, Taken, n + 1, terminates, sent_before)
    <2>1. Taken \in Nat /\ Taken <= n /\ QueueOK(queue, Taken, n, terminates, sent_before)
      BY <1>1, <1>4 DEF WInv, Running, TypeOK, Taken
    <2>2. terminates \in Nat /\ sent_before \in [Dones -> 0 .. MaxSends] /\ queue \in Seq(Items)
      BY MaxTerminatesAssumption DEF WInv, TypeOK
    <2>3. QueueOK(Append(queue, n + 1), Taken, n + 1, terminates, sent_before)
      BY <1>1, <1>2, <2>1, <2>2, QueueMessage
    <2>. QED  BY <1>3, <2>3, Zenon
  <1>5. Enqueue(<<n + 1>>) /\ calls <= calls' /\ calls' \in 0 .. MaxSends
    BY <1>1, <1>2
  <1>6. terminates' \in 0 .. MaxTerminates /\ sent_before' \in [Dones -> 0 .. MaxSends]
    BY DEF WInv, TypeOK
  <1>7. senders' \in BOOLEAN
    BY DEF WInv, TypeOK
  <1>8. phase # "over" => /\ queue \o <<n + 1>> \in Seq(Items)
                          /\ QueueOK(queue \o <<n + 1>>, Taken, calls', terminates', sent_before')
    BY <1>1, <1>3, <1>4
  <1>9. /\ \A d \in Dones : d \notin ToSet(<<n + 1>>) => sent_before'[d] = sent_before[d]
        /\ \A d \in Dones : -terminates' <= d => -terminates <= d \/ d \in ToSet(<<n + 1>>)
    OBVIOUS
  <1>. QED  BY <1>5, <1>6, <1>7, <1>8, <1>9, EnqueueWInv, Zenon

\* terminate
LEMMA TerminateWInv == ASSUME WInv, Terminate PROVE WInv'
  <1>1. PICK t \in Nat : t = terminates /\ t + 1 = terminates' /\ t + 1 <= MaxTerminates
    BY MaxTerminatesAssumption DEF WInv, TypeOK, Terminate
  <1>. DEFINE e == -(t + 1)
  <1>2. e \in Dones /\ e \in Items /\ e = -terminates' /\ t + 1 \in 0 .. MaxTerminates
    BY <1>1, Kinds, MaxTerminatesAssumption DEF Items
  <1>3. /\ sent_before' = [sent_before EXCEPT ![e] = calls] /\ Enqueue(<<e>>)
        /\ UNCHANGED <<senders, calls, phase, current, in_flight, stream>>
    BY <1>2, Zenon DEF Terminate
  <1>4. ToSet(<<e>>) = {e} /\ queue \o <<e>> = Append(queue, e) /\ Append(queue, e) \in Seq(Items)
    BY <1>2, AppendElements DEF WInv, TypeOK
  <1>5. calls \in 0 .. MaxSends /\ calls <= calls' /\ calls' \in 0 .. MaxSends
    BY <1>3, MaxSendsAssumption DEF WInv, TypeOK
  <1>6. ASSUME phase # "over"
        PROVE  QueueOK(queue \o <<e>>, Taken, calls, t + 1, sent_before')
    <2>1. Taken \in Nat /\ QueueOK(queue, Taken, calls, t, sent_before)
      BY <1>1, <1>6 DEF WInv, Running, TypeOK, Taken
    <2>2. sent_before \in [Dones -> 0 .. MaxSends] /\ queue \in Seq(Items)
      BY DEF WInv, TypeOK
    <2>3. QueueOK(Append(queue, e), Taken, calls, t + 1, [sent_before EXCEPT ![e] = calls])
      BY <1>1, <1>5, <2>1, <2>2, QueueDone, Zenon
    <2>. HIDE DEF e
    <2>. QED  BY <1>3, <1>4, <2>3, Zenon
  <1>7. sent_before' \in [Dones -> 0 .. MaxSends]
        /\ \A d \in Dones : d \notin ToSet(<<e>>) => sent_before'[d] = sent_before[d]
    BY <1>2, <1>3, <1>4, <1>5 DEF WInv, TypeOK
  <1>8. \A d \in Dones : -terminates' <= d => -terminates <= d \/ d \in ToSet(<<e>>)
    <2>1. \A d \in Dones : -(t + 1) <= d => -t <= d \/ d = e
      BY Kinds
    <2>. QED  BY <1>1, <1>4, <2>1
  <1>9. phase # "over" => /\ queue \o <<e>> \in Seq(Items)
                          /\ QueueOK(queue \o <<e>>, Taken, calls', terminates', sent_before')
    BY <1>1, <1>3, <1>4, <1>6
  <1>10. senders' \in BOOLEAN
    BY <1>3 DEF WInv, TypeOK
  <1>11. terminates' \in 0 .. MaxTerminates
    BY <1>1, <1>2
  <1>. HIDE DEF e
  <1>. QED  BY <1>3, <1>5, <1>7, <1>8, <1>9, <1>10, <1>11, EnqueueWInv, Zenon

\* The task takes a message.
LEMMA TakeMessageWInv == ASSUME WInv, TakeMessage PROVE WInv'
  <1>1. /\ phase = "next" /\ queue # << >> /\ Head(queue) \in Messages
        /\ current' = Head(queue) /\ queue' = Tail(queue) /\ phase' = "writing"
        /\ UNCHANGED <<in_flight, outcome, sending, stream>>
    BY DEF TakeMessage
  <1>2. Running /\ Taken = Len(wire) /\ Taken' = Len(wire) + 1 /\ Len(wire) \in Nat
    BY <1>1 DEF WInv, Taken, stream, TypeOK
  <1>3. /\ calls \in 0 .. MaxSends /\ terminates \in Nat /\ queue \in Seq(Items)
        /\ sent_before \in [Dones -> 0 .. MaxSends]
    BY MaxTerminatesAssumption DEF WInv, TypeOK
  <1>4. /\ Head(queue) = Len(wire) + 1 /\ Len(wire) + 1 <= calls
        /\ QueueOK(Tail(queue), Len(wire) + 1, calls, terminates, sent_before)
    BY <1>1, <1>2, <1>3, QueueTakeMessage DEF Running
  <1>5. TypeOK'
    <2>1. Tail(queue) \in Seq(Items)
      BY <1>1, <1>3, TailElements
    <2>. QED  BY <1>1, <2>1 DEF WInv, TypeOK, sending, stream
  <1>6. (WireInOrder /\ OkMeansFlushed /\ TerminateDrains)'
    BY <1>1 DEF WInv, WireInOrder, OkMeansFlushed, TerminateDrains, sending, stream
  <1>7. Running'
    BY <1>1, <1>2, <1>4 DEF Running, sending, stream
  <1>. QED  BY <1>5, <1>6, <1>7 DEF WInv

\* Item::Done is answered, with everything before it flushed.
LEMMA TakeDoneWInv == ASSUME WInv, TakeDone PROVE WInv' /\ Head(queue) = -1
  <1>1. /\ phase = "next" /\ queue # << >> /\ Head(queue) \in Dones
        /\ Ends([outcome EXCEPT ![Head(queue)] = "ok"])
        /\ UNCHANGED <<in_flight, sending, stream>>
    BY DEF TakeDone
  <1>2. Running /\ Taken = Len(wire) /\ Len(wire) \in Nat /\ flushed = Len(wire)
    BY <1>1 DEF WInv, Taken, TypeOK, Running
  <1>3. /\ calls \in 0 .. MaxSends /\ terminates \in Nat /\ queue \in Seq(Items)
        /\ sent_before \in [Dones -> 0 .. MaxSends]
    BY MaxTerminatesAssumption DEF WInv, TypeOK
  <1>4. Head(queue) = -1 /\ sent_before[Head(queue)] <= flushed
    BY <1>1, <1>2, <1>3, QueueTakeDone, Zenon DEF Running
  <1>5. [outcome EXCEPT ![Head(queue)] = "ok"] \in [Items -> Outcomes]
    BY Zenon DEF WInv, TypeOK, Outcomes
  <1>6. in_flight' \in -MaxSends .. MaxSends
    BY <1>1 DEF WInv, TypeOK
  <1>7. \A i \in Items : [outcome EXCEPT ![Head(queue)] = "ok"][i] = "ok" =>
            outcome[i] = "ok" \/ (i \in Dones /\ sent_before[i] <= flushed)
    BY <1>1, <1>4 DEF WInv, TypeOK
  <1>. QED  BY <1>1, <1>4, <1>5, <1>6, <1>7, EndsWInv, Zenon

\* A message is written.
LEMMA WriteDoneWInv == ASSUME WInv, WriteDone PROVE WInv'
  <1>1. /\ phase = "writing" /\ wire' = Append(wire, current) /\ in_flight' = in_flight - 1
        /\ phase' = "flushing" /\ UNCHANGED <<queue, current, outcome, flushed, sending>>
    BY DEF WriteDone
  <1>2. PICK l \in Nat : l = Len(wire)
    BY DEF WInv, TypeOK
  <1>3. /\ current = l + 1 /\ l + 1 <= calls /\ in_flight + l = 0 /\ Taken = l + 1 /\ flushed = l
        /\ QueueOK(queue, l + 1, calls, terminates, sent_before)
    BY <1>1, <1>2 DEF WInv, Running, Taken
  <1>4. current \in Messages /\ l + 1 <= MaxSends
    <2>1. l + 1 <= MaxSends
      BY <1>3, MaxSendsAssumption DEF WInv, TypeOK
    <2>. QED  BY <1>3, <2>1, Kinds
  <1>5. /\ wire' \in Seq(Messages) /\ Len(wire') = l + 1 /\ wire'[l + 1] = l + 1
        /\ \A k \in 1 .. l : wire'[k] = wire[k]
    BY <1>1, <1>2, <1>3, <1>4, AppendElements DEF WInv, TypeOK
  <1>6. in_flight' + (l + 1) = 0 /\ in_flight' \in -MaxSends .. MaxSends
    <2>1. PICK f \in Int : f = in_flight /\ in_flight' = f - 1
      BY <1>1 DEF WInv, TypeOK
    <2>2. f - 1 + (l + 1) = 0 /\ f - 1 \in -MaxSends .. MaxSends
      BY <1>3, <1>4, <2>1, MaxSendsAssumption
    <2>. QED  BY <2>1, <2>2
  <1>7. TypeOK'
    <2>1. flushed' \in 0 .. Len(wire')
      BY <1>1, <1>3, <1>5
    <2>. QED  BY <1>1, <1>5, <1>6, <2>1 DEF WInv, TypeOK, sending
  <1>8. WireInOrder'
    <2>1. \A k \in 1 .. l : wire'[k] = k
      BY <1>2, <1>5 DEF WInv, WireInOrder
    <2>2. \A k \in 1 .. l + 1 : k \in 1 .. l \/ k = l + 1
      OBVIOUS
    <2>. QED  BY <1>5, <2>1, <2>2 DEF WireInOrder
  <1>9. OkMeansFlushed' /\ TerminateDrains'
    BY <1>1 DEF WInv, OkMeansFlushed, TerminateDrains, sending
  <1>10. Running'
    <2>1. Taken' = l + 1
      BY <1>1, <1>5 DEF Taken
    <2>2. in_flight' + Len(wire') = 0
      BY <1>5, <1>6, Zenon
    <2>3. \A d \in Dones : -terminates' <= d => outcome'[d] = "pending"
      BY <1>1 DEF WInv, Running, sending
    <2>. QED  BY <1>1, <1>3, <1>5, <2>1, <2>2, <2>3 DEF Running, sending
  <1>. QED  BY <1>7, <1>8, <1>9, <1>10 DEF WInv

\* The flush succeeds and the sender is told.
LEMMA FlushDoneWInv == ASSUME WInv, FlushDone PROVE WInv'
  <1>1. /\ phase = "flushing" /\ flushed' = Len(wire)
        /\ outcome' = [outcome EXCEPT ![current] = "ok"]
        /\ phase' = "next" /\ current' = 0 /\ UNCHANGED <<queue, in_flight, wire, sending>>
    BY DEF FlushDone
  <1>2. PICK l \in Nat : l = Len(wire) /\ current = l /\ Taken = l /\ Taken' = l
    BY <1>1 DEF WInv, TypeOK, Running, Taken
  <1>3. current \notin Dones
    BY <1>2, Kinds
  <1>4. /\ outcome' \in [Items -> Outcomes]
        /\ \A i \in Items : i # current => outcome'[i] = outcome[i]
    BY <1>1, Zenon DEF WInv, TypeOK, Outcomes
  <1>5. TypeOK'
    <2>1. flushed' \in 0 .. Len(wire')
      BY <1>1, <1>2
    <2>. QED  BY <1>1, <1>4, <2>1 DEF WInv, TypeOK, sending, Outcomes
  <1>6. WireInOrder'
    BY <1>1 DEF WInv, WireInOrder
  <1>7. flushed \in Nat /\ flushed <= l
    BY <1>2 DEF WInv, TypeOK
  <1>8. OkMeansFlushed'
    <2>1. \A m \in Messages : m # current /\ outcome'[m] = "ok" => m <= flushed
      BY <1>4 DEF WInv, OkMeansFlushed, Items
    <2>2. \A m \in Messages : m <= flushed => m <= l
      BY <1>7, Kinds
    <2>3. l <= l
      OBVIOUS
    <2>. QED  BY <1>1, <1>2, <2>1, <2>2, <2>3 DEF OkMeansFlushed
  <1>9. TerminateDrains'
    <2>1. \A d \in Dones : outcome'[d] = "ok" => flushed >= sent_before[d] /\ sent_before[d] \in Nat
      BY <1>3, <1>4 DEF WInv, TypeOK, TerminateDrains, Items
    <2>2. \A d \in Dones : outcome'[d] = "ok" => l >= sent_before[d]
      BY <1>7, <2>1
    <2>. QED  BY <1>1, <1>2, <2>2 DEF TerminateDrains, sending
  <1>10. Running'
    <2>1. \A d \in Dones : -terminates' <= d => outcome'[d] = "pending"
      BY <1>1, <1>3, <1>4 DEF WInv, Running, sending, Items
    <2>. QED  BY <1>1, <1>2, <2>1 DEF WInv, Running, sending
  <1>. QED  BY <1>5, <1>6, <1>8, <1>9, <1>10 DEF WInv

\* The task ends without an answer: every Sender is gone, the stream fails, or it
\* is dropped.
LEMMA EndWInv ==
    ASSUME WInv, StreamEnds \/ WriteFails \/ FlushFails \/ DropTask
    PROVE  WInv'
  <1>1. Ends(outcome) /\ UNCHANGED <<sending, stream>>
    BY DEF StreamEnds, WriteFails, FlushFails, DropTask
  <1>2. in_flight' \in -MaxSends .. MaxSends
    <2>1. CASE WriteFails
      <3>1. PICK l \in Nat : l = Len(wire)
        BY DEF WInv, TypeOK
      <3>2. PICK f \in Int : f = in_flight /\ f + l = 0 /\ in_flight' = f - 1 /\ l + 1 <= calls
        BY <2>1, <3>1 DEF WInv, TypeOK, Running, Taken, WriteFails
      <3>3. l + 1 <= MaxSends
        BY <3>2, MaxSendsAssumption DEF WInv, TypeOK
      <3>4. f - 1 \in -MaxSends .. MaxSends
        BY <3>2, <3>3, MaxSendsAssumption
      <3>. QED  BY <3>2, <3>4
    <2>2. CASE in_flight' = in_flight
      BY <2>2 DEF WInv, TypeOK
    <2>. QED  BY <2>1, <2>2 DEF StreamEnds, FlushFails, DropTask
  <1>3. outcome \in [Items -> Outcomes]
    BY DEF WInv, TypeOK, Outcomes
  <1>. QED  BY <1>1, <1>2, <1>3, EndsWInv

\* The invariant is preserved by every step.
LEMMA NextWInv == WInv /\ [Next]_vars => WInv'
  <1>. SUFFICES ASSUME WInv, [Next]_vars PROVE WInv'
    OBVIOUS
  <1>1. CASE UNCHANGED vars
    BY <1>1 DEF vars, sending, stream, WInv, TypeOK, WireInOrder, OkMeansFlushed, TerminateDrains,
                Running, Taken
  <1>2. CASE Send
    BY <1>2, SendWInv DEF Send
  <1>3. CASE DropSenders
    BY <1>3, Zenon DEF DropSenders, stream, WInv, TypeOK, WireInOrder, OkMeansFlushed, TerminateDrains,
                Running, Taken
  <1>. QED  BY <1>1, <1>2, <1>3, TerminateWInv, TakeMessageWInv, TakeDoneWInv, WriteDoneWInv,
               FlushDoneWInv, EndWInv DEF Next, Writing

----------------------------------------------------------------------------
\* Type correctness of the write queue, in_flight included, which only goes down.
THEOREM WriteQueueTyped == Spec => []TypeOK
  BY InitWInv, NextWInv, PTL DEF Spec, WInv

\* Messages reach the stream in the order of the calls of send, none skipped, none
\* twice, for any number of messages (write_queue).
THEOREM WritesInOrder == Spec => []WireInOrder
  BY InitWInv, NextWInv, PTL DEF Spec, WInv

\* A sender that is told its message is written can rely on the flush (write_queue).
THEOREM AnswersAreTrue == Spec => []OkMeansFlushed
  BY InitWInv, NextWInv, PTL DEF Spec, WInv

\* An answered terminate means that all messages sent before it are flushed
\* (terminate, Item::Done).
THEOREM ShutdownLosesNothing == Spec => []TerminateDrains
  BY InitWInv, NextWInv, PTL DEF Spec, WInv

\* The states are made and disconnected one after the other: those up to terminates
\* are down, and only the next can be up, and then it is the system's.
StatesInOrder ==
    /\ \A s \in States : connection[s] = "err" <=> s <= terminates
    /\ \A s \in States : connection[s] = "ok" => s = terminates + 1 /\ connection_state = s
    /\ connection_state # 0 => connection[connection_state] # "none"
    /\ \A s \in States : shutdown[s] \in {"sent", "closing"} => connection[s] = "err"
    /\ \A s \in States : shutdown[s] = "sent" => connection_state = s
    /\ accepted => connection[1] # "none"

\* The on_disconnect task of a state that is down has the Connection while the write
\* queue runs, and the queue ends with a failure of the stream or the first terminate.
Owned ==
    /\ system = "running" /\ phase # "over" =>
           \A s \in States : connection[s] = "err" => shutdown[s] \in {"sent", "closing"}
    /\ system = "done" => phase = "over"
    /\ system # "dropped" /\ phase = "over" /\ ~ stream_failed =>
           1 <= terminates /\ outcome[-1] = "ok"

\* The bounds leave room for the Abort of each state.
Room == terminates <= MaxStates /\ calls + MaxStates - terminates <= MaxSends

JInv == WInv /\ RTypeOK /\ StatesInOrder /\ Owned /\ Room

\* The invariant holds initially.
LEMMA InitJInv == RInit => JInv
  <1>. SUFFICES ASSUME RInit PROVE JInv
    OBVIOUS
  <1>1. Init /\ WInv
    BY InitWInv DEF RInit
  <1>2. RTypeOK
    <2>1. TypeOK
      BY <1>1 DEF WInv
    <2>2. accepted \in BOOLEAN /\ stream_failed \in BOOLEAN
      BY Zenon DEF RInit
    <2>. QED  BY <2>1, <2>2 DEF RInit, RTypeOK
  <1>3. terminates = 0 /\ calls = 0 /\ phase = "next"
    BY <1>1 DEF Init
  <1>4. \A s \in States : ~ (s <= 0)
    BY MaxStatesAssumption DEF States
  <1>5. StatesInOrder
    BY <1>3, <1>4 DEF RInit, StatesInOrder
  <1>6. Owned
    BY <1>3 DEF RInit, Owned
  <1>7. Room
    BY <1>3, MaxStatesAssumption, MaxSendsAssumption DEF Room
  <1>. QED  BY <1>1, <1>2, <1>5, <1>6, <1>7 DEF JInv

\* A message is sent on the write queue.
LEMMA SendsWInv == ASSUME JInv, Sends PROVE WInv' /\ Room'
  <1>1. PICK n \in Nat, t \in Nat :
            n = calls /\ t = terminates /\ t <= MaxStates /\ n + MaxStates - t < MaxSends
    BY MaxTerminatesAssumption, MaxSendsAssumption DEF JInv, RTypeOK, TypeOK, Room, Sends
  <1>2. calls < MaxSends /\ n + 1 + MaxStates - t <= MaxSends
    BY <1>1, MaxStatesAssumption, MaxSendsAssumption
  <1>3. WInv'
    BY <1>2, SendWInv DEF Sends, JInv
  <1>4. calls' = n + 1 /\ terminates' = t
    BY <1>1 DEF Sends
  <1>. QED  BY <1>1, <1>2, <1>3, <1>4 DEF Room

\* disconnect puts the Abort and a Done on the write queue, in this order.
LEMMA DisconnectWInv ==
    ASSUME JInv, NEW s \in States, connection[s] = "ok", Disconnect(s)
    PROVE  WInv' /\ Room' /\ s = terminates' /\ terminates' = terminates + 1
  <1>1. PICK n \in Nat, t \in Nat : n = calls /\ t = terminates
    BY MaxTerminatesAssumption, MaxSendsAssumption DEF JInv, RTypeOK, TypeOK
  <1>. DEFINE e == -(t + 1)
              items == <<n + 1, e>>
  <1>2. s = t + 1 /\ t + 1 <= MaxStates /\ n + MaxStates - t <= MaxSends
    BY <1>1, MaxStatesAssumption DEF JInv, StatesInOrder, Room, States
  <1>3. t + 1 <= MaxTerminates /\ n + 1 <= MaxSends
    BY <1>2, MaxStatesAssumption, MaxSendsAssumption, MaxTerminatesAssumption
  <1>4. /\ calls' = n + 1 /\ terminates' = t + 1
        /\ sent_before' = [sent_before EXCEPT ![e] = n + 1] /\ Enqueue(items)
        /\ UNCHANGED <<senders, phase, current, in_flight, stream>>
    BY <1>1 DEF Disconnect
  <1>5. /\ n + 1 \in Messages /\ n + 1 \in Items /\ e \in Dones /\ e \in Items
        /\ n + 1 \in 0 .. MaxSends /\ t + 1 \in 0 .. MaxTerminates
    BY <1>3, Kinds, MaxSendsAssumption, MaxTerminatesAssumption DEF Items
  <1>6. queue \in Seq(Items) /\ sent_before \in [Dones -> 0 .. MaxSends]
    BY DEF JInv, RTypeOK, TypeOK
  <1>7. /\ Append(queue, n + 1) \in Seq(Items)
        /\ Append(Append(queue, n + 1), e) \in Seq(Items)
        /\ queue \o items = Append(Append(queue, n + 1), e)
    BY <1>5, <1>6
  <1>8. e \in ToSet(items)
    BY DEF ToSet
  <1>9. ASSUME phase # "over"
        PROVE  QueueOK(queue \o items, Taken, n + 1, t + 1, sent_before')
    <2>1. Taken \in Nat /\ Taken <= n /\ QueueOK(queue, Taken, n, t, sent_before)
      BY <1>1, <1>9 DEF JInv, WInv, Running, TypeOK, Taken
    <2>2. QueueOK(Append(queue, n + 1), Taken, n + 1, t, sent_before)
      BY <1>3, <1>6, <2>1, QueueMessage
    <2>3. QueueOK(Append(Append(queue, n + 1), e), Taken, n + 1, t + 1,
                  [sent_before EXCEPT ![e] = n + 1])
      BY <1>3, <1>5, <1>6, <1>7, <2>1, <2>2, QueueDone, Zenon
    <2>. HIDE DEF e, items
    <2>. QED  BY <1>4, <1>7, <2>3, Zenon
  <1>10. /\ sent_before' \in [Dones -> 0 .. MaxSends]
         /\ \A d \in Dones : d \notin ToSet(items) => sent_before'[d] = sent_before[d]
    BY <1>4, <1>5, <1>6, <1>8
  <1>11. \A d \in Dones : -terminates' <= d => -terminates <= d \/ d \in ToSet(items)
    <2>1. \A d \in Dones : -(t + 1) <= d => -t <= d \/ d = e
      BY Kinds
    <2>. HIDE DEF items
    <2>. QED  BY <1>1, <1>4, <1>8, <2>1
  <1>12. phase # "over" => /\ queue \o items \in Seq(Items)
                           /\ QueueOK(queue \o items, Taken, calls', terminates', sent_before')
    <2>. HIDE DEF e, items
    <2>. QED  BY <1>4, <1>7, <1>9
  <1>13. senders' \in BOOLEAN
    BY <1>4 DEF JInv, RTypeOK, TypeOK
  <1>14. calls' \in 0 .. MaxSends /\ terminates' \in 0 .. MaxTerminates /\ calls <= calls'
    BY <1>1, <1>4, <1>5
  <1>15. WInv'
    <2>. HIDE DEF items
    <2>. QED  BY <1>4, <1>10, <1>11, <1>12, <1>13, <1>14, EnqueueWInv, Zenon DEF JInv
  <1>16. Room'
    <2>1. n + 1 + MaxStates - (t + 1) <= MaxSends
      BY <1>2, MaxStatesAssumption, MaxSendsAssumption
    <2>. QED  BY <1>2, <1>4, <2>1 DEF Room
  <1>. QED  BY <1>1, <1>2, <1>4, <1>15, <1>16

\* Once the first Done has been answered, what is sent later does not change that.
LEMMA AnswerStays ==
    ASSUME WInv, NEW items, Enqueue(items), 1 <= terminates, -1 \notin ToSet(items)
    PROVE  outcome'[-1] = outcome[-1]
  <1>1. -1 \in Items
    <2>1. terminates \in Nat /\ terminates <= MaxTerminates
      BY MaxTerminatesAssumption DEF WInv, TypeOK
    <2>2. -MaxTerminates <= -1
      BY <2>1, MaxTerminatesAssumption
    <2>. QED  BY <2>2, Kinds DEF Items
  <1>. QED  BY <1>1 DEF Enqueue

\* The same for a message of the vat.
LEMMA SendsOwned ==
    ASSUME JInv, Sends, system' = system, stream_failed' = stream_failed,
           \A s \in States : connection'[s] = "err" => connection[s] = "err" /\ shutdown'[s] = shutdown[s]
    PROVE  Owned'
  <1>1. phase' = phase /\ terminates' = terminates
    BY DEF Sends
  <1>2. ASSUME 1 <= terminates PROVE outcome'[-1] = outcome[-1]
    <2>1. PICK n \in Nat : calls' = n /\ Enqueue(<<n>>)
      BY MaxSendsAssumption DEF Sends, JInv, RTypeOK, TypeOK
    <2>2. -1 \notin ToSet(<<n>>)
      <3>1. n # -1
        BY <2>1
      <3>. QED  BY <3>1 DEF ToSet
    <2>. QED  BY <1>2, <2>1, <2>2, AnswerStays DEF JInv
  <1>. QED  BY <1>1, <1>2 DEF JInv, Owned

\* SendMessage and SendDraft.
LEMMA SendJInv ==
    ASSUME JInv, NEW s \in States, SendMessage(s) \/ SendDraft(s) PROVE JInv'
  <1>1. /\ Sends /\ UNCHANGED <<life, connection_state, connection, held, loop, input, shutdown>>
        /\ draft' \subseteq draft
    BY DEF SendMessage, SendDraft, states
  <1>2. WInv' /\ Room'
    BY <1>1, SendsWInv
  <1>3. RTypeOK'
    BY <1>1, <1>2 DEF WInv, JInv, RTypeOK, life
  <1>4. StatesInOrder'
    BY <1>1 DEF JInv, StatesInOrder, life, Sends
  <1>5. Owned'
    BY <1>1, SendsOwned DEF life
  <1>. QED  BY <1>2, <1>3, <1>4, <1>5 DEF JInv

\* get_connection_state makes a state only when the ones before are down.
LEMMA GetConnectionStateEffect ==
    ASSUME JInv, NEW s \in States, GetConnectionState(s)
    PROVE  /\ connection_state' \in States /\ connection_state' = s
           /\ connection' \in [States -> {"none", "ok", "err"}]
           /\ loop' \in [States -> {"none", "reading", "broken", "over"}]
           /\ input' \in States \cup {0, Lost}
           /\ shutdown' \in [States -> {"none", "waiting", "sent", "closing", "done"}]
           /\ \A r \in States : loop'[r] = "reading" => input' = r
           /\ \A r \in States : connection'[r] = "err" <=> r <= terminates
           /\ \A r \in States : connection'[r] = "ok" => r = terminates + 1 /\ s = r
           /\ connection'[s] # "none" /\ connection'[1] # "none"
           /\ \A r \in States : shutdown'[r] \in {"sent", "closing"} => connection'[r] = "err"
           /\ \A r \in States : shutdown'[r] = "sent" => s = r
           /\ \A r \in States : connection'[r] = "err" => connection[r] = "err" /\ shutdown'[r] = shutdown[r]
  <1>1. PICK t \in Nat : t = terminates
    BY MaxTerminatesAssumption DEF JInv, RTypeOK, TypeOK
  <1>2. /\ \A r \in States : connection[r] = "err" <=> r <= t
        /\ \A r \in States : connection[r] = "ok" => r = t + 1 /\ connection_state = r
        /\ connection \in [States -> {"none", "ok", "err"}]
    BY <1>1 DEF JInv, StatesInOrder, RTypeOK
  <1>3. 1 \in States /\ 0 \notin States /\ \A r \in States : r \in Nat /\ 1 <= r
    BY MaxStatesAssumption DEF States
  <1>4. CASE connection_state # 0
    <2>1. s = connection_state /\ UNCHANGED <<connection_state, connection, loop, input, shutdown>>
      BY <1>4 DEF GetConnectionState
    <2>2. connection[s] # "none"
      BY <1>4, <2>1 DEF JInv, StatesInOrder
    <2>3. connection[1] # "none"
      <3>1. CASE connection[s] = "err"
        <4>1. s <= t
          BY <1>2, <3>1
        <4>2. 1 <= t
          BY <1>3, <4>1
        <4>. QED  BY <1>2, <1>3, <4>2
      <3>2. CASE connection[s] = "ok"
        <4>1. s = t + 1
          BY <1>2, <3>2
        <4>2. s = 1 \/ 1 <= t
          BY <4>1
        <4>. QED  BY <1>2, <1>3, <2>2, <4>2
      <3>. QED  BY <1>2, <2>2, <3>1, <3>2
    <2>. QED  BY <1>1, <1>2, <2>1, <2>2, <2>3 DEF JInv, RTypeOK, StatesInOrder
  <1>5. CASE connection_state = 0
    <2>1. /\ connection[s] = "none" /\ \A r \in 1 .. s - 1 : connection[r] # "none"
          /\ connection_state' = s
          /\ connection' = [connection EXCEPT ![s] = "ok"]
          /\ shutdown' = [shutdown EXCEPT ![s] = "waiting"]
          /\ StartLoop(s, input = 0)
      BY <1>5 DEF GetConnectionState
    <2>2. \A r \in States : connection[r] # "ok"
      BY <1>2, <1>3, <1>5
    <2>3. s = t + 1
      <3>1. ~ (s <= t)
        BY <1>2, <2>1
      <3>2. ASSUME s # t + 1 PROVE FALSE
        <4>1. t + 1 \in 1 .. s - 1 /\ t + 1 \in States /\ ~ (t + 1 <= t)
          BY <1>3, <3>1, <3>2, MaxStatesAssumption DEF States
        <4>. QED  BY <1>2, <2>1, <2>2, <4>1
      <3>. QED  BY <3>2
    <2>4. \A r \in States : connection'[r] = IF r = s THEN "ok" ELSE connection[r]
      BY <1>2, <2>1
    <2>5. /\ shutdown' \in [States -> {"none", "waiting", "sent", "closing", "done"}]
          /\ \A r \in States : shutdown'[r] = IF r = s THEN "waiting" ELSE shutdown[r]
      BY <2>1 DEF JInv, RTypeOK
    <2>6. /\ loop' \in [States -> {"none", "reading", "broken", "over"}]
          /\ input' \in States \cup {0, Lost}
          /\ \A r \in States : loop'[r] = "reading" => input' = r
      BY <1>3, <2>1 DEF JInv, RTypeOK, StartLoop
    <2>7. connection' \in [States -> {"none", "ok", "err"}]
      BY <1>2, <2>1
    <2>8. \A r \in States : connection'[r] = "err" <=> r <= t
      BY <1>2, <2>1, <2>4
    <2>9. \A r \in States : connection'[r] = "ok" => r = t + 1 /\ s = r
      BY <2>2, <2>3, <2>4
    <2>10. connection'[1] # "none"
      <3>1. s = 1 \/ 1 <= t
        BY <2>3
      <3>. QED  BY <1>2, <1>3, <2>4, <3>1
    <2>11. \A r \in States : shutdown'[r] \in {"sent", "closing"} => connection'[r] = "err"
      BY <2>4, <2>5 DEF JInv, StatesInOrder
    <2>12. \A r \in States : shutdown'[r] = "sent" => s = r
      BY <1>3, <1>5, <2>5 DEF JInv, StatesInOrder
    <2>. QED  BY <1>1, <2>1, <2>4, <2>5, <2>6, <2>7, <2>8, <2>9, <2>10, <2>11, <2>12
  <1>. QED  BY <1>4, <1>5

\* bootstrap and accept.
LEMMA ConnectJInv == ASSUME JInv, Bootstrap \/ Accept PROVE JInv'
  <1>1. PICK s \in States : GetConnectionState(s)
    BY DEF Bootstrap, Accept
  <1>2. /\ Sends \/ UNCHANGED vars
        /\ held' \cup draft' \subseteq States /\ accepted' \in BOOLEAN
        /\ UNCHANGED <<system, peer, disconnector, stream_failed>>
    BY Zenon DEF Bootstrap, Accept, life, JInv, RTypeOK
  <1>3. WInv' /\ Room' /\ terminates' = terminates
    <2>1. CASE Sends
      BY <2>1, SendsWInv DEF Sends
    <2>2. CASE UNCHANGED vars
      BY <2>2 DEF JInv, WInv, vars, sending, stream, TypeOK, WireInOrder, OkMeansFlushed,
                  TerminateDrains, Running, Taken, Room
    <2>. QED  BY <1>2, <2>1, <2>2
  <1>4. StatesInOrder'
    BY <1>1, <1>3, GetConnectionStateEffect DEF StatesInOrder
  <1>5. RTypeOK'
    BY <1>1, <1>2, <1>3, GetConnectionStateEffect DEF WInv, JInv, RTypeOK
  <1>6. Owned'
    <2>1. \A r \in States : connection'[r] = "err" => connection[r] = "err" /\ shutdown'[r] = shutdown[r]
      BY <1>1, GetConnectionStateEffect
    <2>2. CASE Sends
      BY <1>2, <2>1, <2>2, SendsOwned
    <2>3. CASE UNCHANGED vars
      BY <1>2, <2>1, <2>3 DEF JInv, Owned, vars, sending
    <2>. QED  BY <1>2, <2>2, <2>3
  <1>. QED  BY <1>3, <1>4, <1>5, <1>6 DEF JInv

\* What is not touched when the write queue is not.
LEMMA QueueStutters == ASSUME JInv, UNCHANGED vars PROVE WInv' /\ Room'
  BY DEF JInv, WInv, vars, sending, stream, TypeOK, WireInOrder, OkMeansFlushed, TerminateDrains,
         Running, Taken, Room

\* disconnect, on a state that is up.
LEMMA DisconnectEffect ==
    ASSUME JInv, NEW s \in States, DisconnectIfUp(s),
           UNCHANGED <<system, stream_failed, accepted, connection_state>>
    PROVE  /\ WInv' /\ Room' /\ StatesInOrder' /\ Owned'
           /\ connection' \in [States -> {"none", "ok", "err"}]
           /\ shutdown' \in [States -> {"none", "waiting", "sent", "closing", "done"}]
  <1>1. CASE Alive(s) /\ connection[s] = "ok"
    <2>1. Disconnect(s)
      BY <1>1 DEF DisconnectIfUp
    <2>2. PICK t \in Nat : t = terminates /\ t + 1 = terminates' /\ s = t + 1
      BY <1>1, <2>1, DisconnectWInv, MaxTerminatesAssumption DEF JInv, RTypeOK, TypeOK
    <2>3. WInv' /\ Room'
      BY <1>1, <2>1, DisconnectWInv
    <2>. DEFINE x == IF system = "dropped" THEN "done" ELSE "sent"
    <2>4. /\ shutdown' = [shutdown EXCEPT ![s] = x]
          /\ x \in {"none", "waiting", "sent", "closing", "done"}
          /\ system = "running" => x = "sent"
      BY <2>1 DEF Disconnect
    <2>. HIDE DEF x
    <2>5. /\ connection' \in [States -> {"none", "ok", "err"}]
          /\ \A r \in States : connection'[r] = IF r = s THEN "err" ELSE connection[r]
      BY <2>1 DEF Disconnect, JInv, RTypeOK
    <2>6. /\ shutdown' \in [States -> {"none", "waiting", "sent", "closing", "done"}]
          /\ \A r \in States : shutdown'[r] = IF r = s THEN x ELSE shutdown[r]
      <3>1. shutdown \in [States -> {"none", "waiting", "sent", "closing", "done"}]
        BY DEF JInv, RTypeOK
      <3>. QED  BY <2>4, <3>1
    <2>7. connection_state = s
      BY <1>1 DEF JInv, StatesInOrder
    <2>8. StatesInOrder'
      <3>1. \A r \in States : r <= t + 1 <=> r <= t \/ r = s
        BY <2>2, MaxStatesAssumption DEF States
      <3>2. \A r \in States : connection'[r] = "err" <=> r <= terminates'
        BY <2>2, <2>5, <3>1 DEF JInv, StatesInOrder
      <3>3. \A r \in States : connection'[r] # "ok"
        BY <2>2, <2>5, <2>7 DEF JInv, StatesInOrder
      <3>4. connection'[connection_state'] # "none"
        BY <2>5, <2>7
      <3>5. \A r \in States : shutdown'[r] \in {"sent", "closing"} => connection'[r] = "err"
        BY <2>5, <2>6 DEF JInv, StatesInOrder
      <3>6. \A r \in States : shutdown'[r] = "sent" => connection_state' = r
        BY <2>6, <2>7 DEF JInv, StatesInOrder
      <3>7. accepted' => connection'[1] # "none"
        BY <2>5, MaxStatesAssumption DEF JInv, StatesInOrder, States
      <3>. QED  BY <3>2, <3>3, <3>4, <3>5, <3>6, <3>7 DEF StatesInOrder
    <2>9. phase' = phase
      BY <2>1 DEF Disconnect
    <2>10. ASSUME 1 <= terminates PROVE outcome'[-1] = outcome[-1]
      <3>1. PICK n \in Nat : Enqueue(<<n, -(t + 1)>>)
        <4>1. Enqueue(<<calls', -terminates'>>) /\ calls' \in Nat
          BY <2>1, MaxSendsAssumption DEF Disconnect, JInv, RTypeOK, TypeOK
        <4>. QED  BY <2>2, <4>1
      <3>2. -1 # n /\ -1 # -(t + 1)
        BY <2>2, <2>10
      <3>3. -1 \notin ToSet(<<n, -(t + 1)>>)
        BY <3>2 DEF ToSet
      <3>. QED  BY <2>10, <3>1, <3>3, AnswerStays DEF JInv
    <2>11. 1 <= terminates => 1 <= terminates'
      <3>1. 1 <= t => 1 <= t + 1
        OBVIOUS
      <3>. QED  BY <2>2, <3>1
    <2>12. Owned'
      <3>1. Owned
        BY DEF JInv
      <3>2. system' = "running" /\ phase' # "over" =>
                \A r \in States : connection'[r] = "err" => shutdown'[r] \in {"sent", "closing"}
        BY <2>4, <2>5, <2>6, <2>9, <3>1 DEF Owned
      <3>3. system' # "dropped" /\ phase' = "over" /\ ~ stream_failed' =>
                1 <= terminates' /\ outcome'[-1] = "ok"
        BY <2>9, <2>10, <2>11, <3>1 DEF Owned
      <3>4. system' = "done" => phase' = "over"
        BY <2>9, <3>1 DEF Owned
      <3>. QED  BY <3>2, <3>3, <3>4 DEF Owned
    <2>. QED  BY <2>3, <2>5, <2>6, <2>8, <2>12
  <1>2. CASE ~ (Alive(s) /\ connection[s] = "ok")
    <2>1. UNCHANGED <<vars, connection, shutdown>>
      BY <1>2 DEF DisconnectIfUp
    <2>2. terminates' = terminates /\ phase' = phase /\ outcome' = outcome
      BY <2>1 DEF vars, sending
    <2>3. WInv' /\ Room'
      BY <2>1, QueueStutters
    <2>. QED  BY <2>1, <2>2, <2>3 DEF JInv, RTypeOK, StatesInOrder, Owned
  <1>. QED  BY <1>1, <1>2

\* All tasks go: with the system, or in a panic.
LEMMA TasksGoEffect ==
    ASSUME JInv, TasksGo, UNCHANGED <<accepted, connection_state, peer, disconnector, stream_failed>>,
           held' \cup draft' \subseteq States
    PROVE  JInv'
  <1>1. WInv' /\ Room' /\ terminates' = terminates
    <2>1. CASE UNCHANGED vars
      BY <2>1, QueueStutters DEF vars, sending
    <2>2. CASE DropTask
      <3>1. WInv'
        BY <2>2, EndWInv DEF JInv
      <3>. QED  BY <2>2, <3>1 DEF DropTask, sending, JInv, Room
    <2>. QED  BY <2>1, <2>2 DEF TasksGo
  <1>2. /\ loop' \in [States -> {"none", "reading", "broken", "over"}]
        /\ shutdown' \in [States -> {"none", "waiting", "sent", "closing", "done"}]
        /\ \A s \in States : loop'[s] # "reading" /\ shutdown'[s] \in {"none", "done"}
        /\ connection' = connection /\ input' = input /\ system' = "dropped"
    BY DEF TasksGo
  <1>3. RTypeOK'
    BY <1>1, <1>2 DEF WInv, JInv, RTypeOK
  <1>4. StatesInOrder'
    BY <1>1, <1>2 DEF JInv, StatesInOrder
  <1>5. Owned'
    BY <1>2 DEF Owned
  <1>. QED  BY <1>1, <1>3, <1>4, <1>5 DEF JInv

\* A message loop handles a message, or ends.
LEMMA LoopJInv ==
    ASSUME JInv, NEW s \in States, HandleMessage(s) \/ ReadEnd(s) \/ LoopFails(s)
    PROVE  JInv'
  <1>1. UNCHANGED <<accepted, connection_state, peer, disconnector, stream_failed, draft>>
        /\ held' \cup draft' \subseteq States
    BY DEF HandleMessage, ReadEnd, LoopFails, life, JInv, RTypeOK
  <1>2. CASE TasksGo
    BY <1>1, <1>2, TasksGoEffect
  <1>3. CASE UNCHANGED <<vars, connection, loop, input, shutdown, system>>
    <2>1. terminates' = terminates /\ phase' = phase /\ outcome' = outcome
      BY <1>3 DEF vars, sending
    <2>2. WInv' /\ Room'
      BY <1>3, QueueStutters
    <2>3. RTypeOK'
      BY <1>1, <1>3, <2>2 DEF WInv, JInv, RTypeOK
    <2>. QED  BY <1>1, <1>3, <2>1, <2>2, <2>3 DEF JInv, StatesInOrder, Owned
  <1>4. CASE /\ loop' = [loop EXCEPT ![s] = "over"] /\ DisconnectIfUp(s) /\ system' = system
             /\ \/ loop[s] = "reading" /\ input' \in {0, Lost}
                \/ input' = input
    <2>1. /\ WInv' /\ Room' /\ StatesInOrder' /\ Owned'
          /\ connection' \in [States -> {"none", "ok", "err"}]
          /\ shutdown' \in [States -> {"none", "waiting", "sent", "closing", "done"}]
      BY <1>1, <1>4, DisconnectEffect
    <2>2. /\ loop' \in [States -> {"none", "reading", "broken", "over"}]
          /\ loop'[s] = "over" /\ \A r \in States : r # s => loop'[r] = loop[r]
          /\ input' \in States \cup {0, Lost}
      BY <1>4 DEF JInv, RTypeOK
    <2>3. \A r \in States : loop'[r] = "reading" => input' = r
      BY <1>4, <2>2 DEF JInv, RTypeOK
    <2>4. RTypeOK'
      BY <1>1, <1>4, <2>1, <2>2, <2>3 DEF WInv, JInv, RTypeOK
    <2>. QED  BY <2>1, <2>4 DEF JInv
  <1>. QED  BY <1>2, <1>3, <1>4 DEF HandleMessage, ReadEnd, LoopFails, life

\* The on_disconnect task: it clears connection_state, and ends with terminate.
LEMMA ShutdownJInv ==
    ASSUME JInv, NEW s \in States, OnDisconnect(s) \/ FinishShutdown(s)
    PROVE  JInv'
  <1>1. UNCHANGED <<vars, life, connection, held, draft, loop, input>>
    BY DEF OnDisconnect, FinishShutdown
  <1>2. WInv' /\ Room' /\ terminates' = terminates /\ phase' = phase /\ outcome' = outcome
    BY <1>1, QueueStutters DEF vars, sending
  <1>3. /\ system' = system /\ accepted' = accepted /\ stream_failed' = stream_failed
        /\ peer' = peer /\ disconnector' = disconnector
    BY <1>1 DEF life
  <1>4. connection[s] = "err"
    BY DEF OnDisconnect, FinishShutdown, JInv, StatesInOrder
  <1>5. CASE OnDisconnect(s)
    <2>1. shutdown[s] = "sent" /\ connection_state = s /\ connection_state' = 0
      BY <1>5 DEF OnDisconnect, JInv, StatesInOrder
    <2>2. /\ shutdown' \in [States -> {"none", "waiting", "sent", "closing", "done"}]
          /\ \A r \in States : shutdown'[r] = IF r = s THEN "closing" ELSE shutdown[r]
      BY <1>5 DEF OnDisconnect, JInv, RTypeOK
    <2>3. RTypeOK'
      BY <1>1, <1>2, <1>3, <2>1, <2>2 DEF JInv, WInv, RTypeOK
    <2>4. StatesInOrder'
      BY <1>1, <1>2, <1>3, <1>4, <2>1, <2>2 DEF JInv, StatesInOrder
    <2>5. Owned'
      BY <1>1, <1>2, <1>3, <2>2 DEF JInv, Owned
    <2>. QED  BY <1>2, <2>3, <2>4, <2>5 DEF JInv
  <1>6. CASE FinishShutdown(s)
    <2>1. shutdown[s] = "closing" /\ connection_state' = connection_state /\ outcome[-s] # "pending"
      BY <1>6 DEF FinishShutdown
    <2>2. /\ shutdown' \in [States -> {"none", "waiting", "sent", "closing", "done"}]
          /\ \A r \in States : shutdown'[r] = IF r = s THEN "done" ELSE shutdown[r]
      BY <1>6 DEF FinishShutdown, JInv, RTypeOK
    <2>3. phase = "over"
      <3>. SUFFICES ASSUME phase # "over" PROVE FALSE
        OBVIOUS
      <3>1. PICK t \in Nat : t = terminates /\ t <= MaxTerminates /\ s <= t
        BY <1>4, MaxTerminatesAssumption DEF JInv, RTypeOK, TypeOK, StatesInOrder
      <3>2. -t <= -s /\ -s \in Dones
        <4>1. s \in Nat /\ 1 <= s
          BY MaxStatesAssumption DEF States
        <4>2. -t <= -s /\ -s <= -1 /\ -MaxTerminates <= -s
          BY <3>1, <4>1, MaxTerminatesAssumption
        <4>. QED  BY <4>1, <4>2, Kinds
      <3>. QED  BY <2>1, <3>1, <3>2 DEF JInv, WInv, Running
    <2>4. RTypeOK'
      BY <1>1, <1>2, <1>3, <2>1, <2>2 DEF JInv, WInv, RTypeOK
    <2>5. StatesInOrder'
      BY <1>1, <1>2, <1>3, <2>1, <2>2 DEF JInv, StatesInOrder
    <2>6. Owned'
      BY <1>1, <1>2, <1>3, <2>3, Zenon DEF JInv, Owned
    <2>. QED  BY <1>2, <2>4, <2>5, <2>6 DEF JInv
  <1>. QED  BY <1>5, <1>6

\* The execution driver: the write queue, then the end of the system.
LEMMA DriveJInv == ASSUME JInv, Drive PROVE JInv'
  <1>1. /\ system = "running"
        /\ UNCHANGED <<accepted, peer, disconnector, connection_state, connection, held, draft,
                       loop, input, shutdown>>
    BY DEF Drive, states
  <1>2. /\ WInv' /\ terminates' = terminates /\ calls' = calls
        /\ system' \in {"running", "done"} /\ stream_failed' \in BOOLEAN
    <2>1. CASE /\ TakeMessage \/ TakeDone \/ WriteDone \/ FlushDone
               /\ UNCHANGED <<system, stream_failed>>
      <3>1. WInv'
        BY <2>1, TakeMessageWInv, TakeDoneWInv, WriteDoneWInv, FlushDoneWInv DEF JInv
      <3>2. terminates' = terminates /\ calls' = calls
        BY <2>1 DEF TakeMessage, TakeDone, WriteDone, FlushDone, sending
      <3>. QED  BY <1>1, <2>1, <3>1, <3>2 DEF JInv, RTypeOK
    <2>2. CASE (WriteFails \/ FlushFails) /\ stream_failed' = TRUE /\ UNCHANGED system
      <3>1. WInv'
        BY <2>2, EndWInv DEF JInv
      <3>2. terminates' = terminates /\ calls' = calls
        BY <2>2 DEF WriteFails, FlushFails, sending
      <3>. QED  BY <1>1, <2>2, <3>1, <3>2
    <2>3. CASE system' = "done" /\ UNCHANGED <<vars, stream_failed>>
      <3>1. WInv' /\ terminates' = terminates /\ calls' = calls
        BY <2>3, QueueStutters DEF vars, sending
      <3>. QED  BY <2>3, <3>1 DEF JInv, RTypeOK
    <2>. QED  BY <2>1, <2>2, <2>3, Zenon DEF Drive
  <1>3. RTypeOK'
    BY <1>1, <1>2 DEF JInv, WInv, RTypeOK
  <1>4. StatesInOrder' /\ Room'
    BY <1>1, <1>2 DEF JInv, StatesInOrder, Room
  <1>5. Owned'
    <2>1. CASE TakeDone /\ UNCHANGED <<system, stream_failed>>
      <3>1. phase = "next" /\ Head(queue) = -1 /\ phase' = "over"
            /\ Ends([outcome EXCEPT ![-1] = "ok"]) /\ -1 \in Items
        BY <2>1, TakeDoneWInv DEF JInv, TakeDone, Ends, Items
      <3>2. outcome'[-1] = "ok"
        BY <3>1 DEF Ends, JInv, WInv, TypeOK
      <3>3. 1 <= terminates
        <4>1. /\ calls \in 0 .. MaxSends /\ terminates \in Nat /\ queue \in Seq(Items)
              /\ sent_before \in [Dones -> 0 .. MaxSends] /\ Taken \in Nat
          BY <3>1, MaxTerminatesAssumption DEF JInv, WInv, TypeOK, Taken
        <4>2. /\ QueueOK(queue, Taken, calls, terminates, sent_before)
              /\ queue # << >> /\ Head(queue) \in Dones
          BY <2>1, <3>1 DEF JInv, WInv, Running, TakeDone
        <4>. QED  BY <4>1, <4>2, QueueTakeDone
      <3>. QED  BY <1>1, <1>2, <2>1, <3>1, <3>2, <3>3 DEF Owned
    <2>2. CASE (TakeMessage \/ WriteDone \/ FlushDone) /\ UNCHANGED <<system, stream_failed>>
      <3>1. phase # "over" /\ phase' # "over"
        BY <2>2 DEF TakeMessage, WriteDone, FlushDone
      <3>. QED  BY <1>1, <2>2, <3>1 DEF JInv, Owned
    <2>3. CASE (WriteFails \/ FlushFails) /\ stream_failed' = TRUE /\ UNCHANGED system
      <3>1. phase' = "over"
        BY <2>3 DEF WriteFails, FlushFails, Ends
      <3>. QED  BY <2>3, <3>1 DEF Owned
    <2>4. CASE phase = "over" /\ system' = "done" /\ UNCHANGED <<vars, stream_failed>>
      BY <1>1, <2>4 DEF JInv, Owned, vars, sending
    <2>. QED  BY <2>1, <2>2, <2>3, <2>4, Zenon DEF Drive
  <1>. QED  BY <1>2, <1>3, <1>4, <1>5 DEF JInv

\* Steps that touch neither the write queue nor a state.
LEMMA OutsideJInv ==
    ASSUME JInv, UNCHANGED <<vars, system, accepted, stream_failed, connection_state, connection,
                             loop, input, shutdown>>,
           held' \cup draft' \subseteq States, peer' \in {"open", "closed"},
           disconnector' \in {"new", "disconnecting", "disconnected"}
    PROVE  JInv'
  <1>1. WInv' /\ Room' /\ terminates' = terminates /\ phase' = phase /\ outcome' = outcome
    BY QueueStutters DEF vars, sending
  <1>2. RTypeOK'
    BY <1>1 DEF JInv, WInv, RTypeOK
  <1>. QED  BY <1>1, <1>2 DEF JInv, StatesInOrder, Owned

\* The Disconnector.
LEMMA DisconnectorJInv == ASSUME JInv, PollDisconnector PROVE JInv'
  <1>1. CASE UNCHANGED <<vars, connection, shutdown>>
    BY <1>1, OutsideJInv DEF PollDisconnector, states, JInv, RTypeOK
  <1>2. CASE connection_state # 0 /\ DisconnectIfUp(connection_state)
             /\ disconnector' = "disconnecting"
             /\ UNCHANGED <<system, accepted, peer, stream_failed, connection_state, held, draft,
                            loop, input>>
    <2>1. connection_state \in States
      BY <1>2 DEF JInv, RTypeOK
    <2>2. /\ WInv' /\ Room' /\ StatesInOrder' /\ Owned'
          /\ connection' \in [States -> {"none", "ok", "err"}]
          /\ shutdown' \in [States -> {"none", "waiting", "sent", "closing", "done"}]
      BY <1>2, <2>1, DisconnectEffect
    <2>3. RTypeOK'
      BY <1>2, <2>2 DEF JInv, WInv, RTypeOK
    <2>. QED  BY <2>2, <2>3 DEF JInv
  <1>. QED  BY <1>1, <1>2 DEF PollDisconnector, states

\* The invariant is preserved by every step.
LEMMA NextJInv == JInv /\ [RNext]_all_vars => JInv'
  <1>. SUFFICES ASSUME JInv, [RNext]_all_vars PROVE JInv'
    OBVIOUS
  <1>1. CASE UNCHANGED all_vars
    BY <1>1, OutsideJInv DEF all_vars, life, states, JInv, RTypeOK
  <1>2. ASSUME NEW s \in States, BeginMessage(s) \/ DropClients(s) PROVE JInv'
    BY <1>2, OutsideJInv DEF BeginMessage, DropClients, life, JInv, RTypeOK
  <1>3. CASE PeerCloses
    BY <1>3, OutsideJInv DEF PeerCloses, states, JInv, RTypeOK
  <1>4. CASE DropSystem
    BY <1>4, TasksGoEffect DEF DropSystem, JInv, RTypeOK
  <1>. QED  BY <1>1, <1>2, <1>3, <1>4, SendJInv, ConnectJInv, LoopJInv, ShutdownJInv, DriveJInv,
               DisconnectorJInv DEF RNext, Tasks

\* The invariant holds in every behaviour of the vat.
LEMMA JInvariance == RSpec => []JInv
  BY InitJInv, NextJInv, PTL DEF RSpec

----------------------------------------------------------------------------
\* Type correctness; one message loop at a time has the input stream.
THEOREM SystemTyped == RSpec => []RTypeOK
  <1>1. JInv => RTypeOK
    BY DEF JInv
  <1>. QED  BY JInvariance, <1>1, PTL

\* The write queue's promises hold in the vat, whose disconnects send an Abort and
\* terminate in one step: order, true answers, and a terminate that drains.
THEOREM SystemWrites == RSpec => []WritesAsPromised
  <1>1. JInv => WritesAsPromised
    BY DEF JInv, WInv, WritesAsPromised
  <1>. QED  BY JInvariance, <1>1, PTL

\* The Connection outlives the write queue, whatever tasks, clients and handles go
\* before (disconnect, get_connection_state).
THEOREM SenderIsLeft == RSpec => []SenderLeft
  <1>1. JInv => SenderLeft
    <2>. SUFFICES ASSUME JInv, system = "running", phase # "over" PROVE InnerAlive
      BY DEF SenderLeft
    <2>1. CASE ~ accepted
      BY <2>1 DEF InnerAlive
    <2>2. CASE accepted
      <3>1. 1 \in States /\ connection[1] \in {"ok", "err"}
        BY <2>2, MaxStatesAssumption DEF JInv, RTypeOK, StatesInOrder, States
      <3>2. CASE connection[1] = "ok"
        BY <3>1, <3>2 DEF JInv, StatesInOrder, InnerAlive, Alive
      <3>3. CASE connection[1] = "err"
        BY <3>1, <3>3 DEF JInv, Owned, InnerAlive
      <3>. QED  BY <3>1, <3>2, <3>3
    <2>3. accepted \in BOOLEAN
      BY DEF JInv, RTypeOK
    <2>. QED  BY <2>1, <2>2, <2>3
  <1>. QED  BY JInvariance, <1>1, PTL

\* A vat whose future is done, on a stream that has not failed, has flushed all it
\* sent before its first disconnect, and the Abort (RpcSystem::new, disconnect).
THEOREM ShutdownIsGraceful == RSpec => []GracefulShutdown
  <1>1. JInv => GracefulShutdown
    <2>. SUFFICES ASSUME JInv, system = "done", ~ stream_failed
                  PROVE  outcome[-1] = "ok" /\ flushed >= sent_before[-1]
      BY DEF GracefulShutdown
    <2>1. 1 <= terminates /\ outcome[-1] = "ok"
      BY DEF JInv, Owned
    <2>2. -1 \in Dones
      <3>1. terminates \in Nat /\ terminates <= MaxTerminates
        BY MaxTerminatesAssumption DEF JInv, WInv, TypeOK
      <3>2. -MaxTerminates <= -1
        BY <2>1, <3>1, MaxTerminatesAssumption
      <3>. QED  BY <3>2, Kinds
    <2>. QED  BY <2>1, <2>2 DEF JInv, WInv, TerminateDrains
  <1>. QED  BY JInvariance, <1>1, PTL

=============================================================================
