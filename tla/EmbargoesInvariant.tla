------------------------- MODULE EmbargoesInvariant -------------------------
(***************************************************************************)
(* The inductive invariant of module Embargoes, for any number of calls,   *)
(* made by either vat or both, and connections lost at any moment, and the *)
(* proofs that it is kept by what either vat does to the promise it has    *)
(* exported or imported and by the embargo protocol.  The calls themselves *)
(* and the theorems are in EmbargoesProofs.                                *)
(*                                                                         *)
(* It holds as long as promises are resolved to objects.  When one is      *)
(* resolved to the peer's promise, calls do overtake each other: see the   *)
(* run of EmbargoesTribble.cfg.                                            *)
(***************************************************************************)
EXTENDS Embargoes, NaturalsInduction, WellFoundedInduction, TLAPS

(* Sequences *)

\* Induction up to n, for membership in a set.
LEMMA UpTo ==
    ASSUME NEW n \in Nat, NEW T, 0 \in T, \A k \in 0 .. n - 1 : k \in T => k + 1 \in T
    PROVE  \A k \in 0 .. n : k \in T
  <1> DEFINE Out == {k \in 0 .. n : k \notin T}
  <1>1. Out \subseteq Nat
    OBVIOUS
  <1>2. ASSUME Out # {} PROVE FALSE
    <2>1. PICK k \in Out : \A m \in Out : ~ (<<m, k>> \in OpToRel(<, Nat))
      BY <1>1, <1>2, WFMin, NatLessThanWellFounded, Zenon
    <2>2. \A m \in Out : ~ (m < k)
      <3> HIDE DEF Out
      <3> QED
        BY <1>1, <2>1, Zenon DEF OpToRel
    <2>3. k # 0 /\ k - 1 \in 0 .. n - 1 /\ k - 1 + 1 = k
      OBVIOUS
    <2>4. k - 1 \in T
      BY <2>2, <2>3
    <2> QED
      BY <2>3, <2>4
  <1> QED
    BY <1>2

\* The elements of a sequence.
LEMMA SeqElements == ASSUME NEW S, NEW s \in Seq(S) PROVE \A i \in DOMAIN s : s[i] \in S
  OBVIOUS

\* The elements of an appended sequence.
LEMMA AppendElements ==
    ASSUME NEW V, NEW s \in Seq(V), NEW v \in V
    PROVE  /\ Append(s, v) \in Seq(V) /\ DOMAIN Append(s, v) = 1 .. Len(s) + 1
           /\ Append(s, v)[Len(s) + 1] = v
           /\ \A i \in DOMAIN s : i \in DOMAIN Append(s, v) /\ Append(s, v)[i] = s[i]
           /\ \A i \in DOMAIN Append(s, v) : i \in DOMAIN s \/ i = Len(s) + 1
  <1> DEFINE u == Append(s, v)
  <1>1. u \in Seq(V) /\ Len(u) = Len(s) + 1 /\ DOMAIN s = 1 .. Len(s) /\ Len(s) \in Nat
        /\ \A k \in 1 .. Len(s) + 1 : u[k] = IF k = Len(s) + 1 THEN v ELSE s[k]
    OBVIOUS
  <1> HIDE DEF u
  <1>2. DOMAIN u = 1 .. Len(s) + 1
    BY <1>1
  <1> QED
    BY <1>1, <1>2 DEF u

\* Where the elements of a concatenation are from.
LEMMA ConcatElements ==
    ASSUME NEW V, NEW s \in Seq(V), NEW t \in Seq(V)
    PROVE  /\ s \o t \in Seq(V) /\ DOMAIN (s \o t) = 1 .. Len(s) + Len(t)
           /\ \A i \in DOMAIN s : (s \o t)[i] = s[i] /\ i \in DOMAIN (s \o t)
           /\ \A i \in DOMAIN (s \o t) :
                 \/ i \in DOMAIN s /\ (s \o t)[i] = s[i]
                 \/ /\ i - Len(s) \in DOMAIN t /\ (s \o t)[i] = t[i - Len(s)]
                    /\ \A j \in DOMAIN s : j < i
  <1>1. s \o t \in Seq(V) /\ Len(s) \in Nat /\ Len(t) \in Nat /\ DOMAIN s = 1 .. Len(s) /\ DOMAIN t = 1 .. Len(t)
        /\ Len(s \o t) = Len(s) + Len(t)
    OBVIOUS
  <1> DEFINE u == s \o t
  <1>2. DOMAIN u = 1 .. Len(s) + Len(t)
    <2>1. u \in Seq(V) /\ Len(u) = Len(s) + Len(t)
      BY <1>1
    <2> HIDE DEF u
    <2> QED
      BY <2>1
  <1>3. \A i \in 1 .. Len(s) : (s \o t)[i] = s[i]
    OBVIOUS
  <1>4. \A i \in 1 .. Len(s) + Len(t) : ~ (i <= Len(s)) => (s \o t)[i] = t[i - Len(s)]
    OBVIOUS
  <1>5. ASSUME NEW i \in 1 .. Len(s) + Len(t), ~ (i <= Len(s))
        PROVE  i - Len(s) \in 1 .. Len(t) /\ \A j \in 1 .. Len(s) : j < i
    BY <1>1, <1>5
  <1>6. ASSUME NEW i \in 1 .. Len(s) + Len(t), i <= Len(s) PROVE i \in 1 .. Len(s)
    BY <1>1, <1>6
  <1>7. ASSUME NEW i \in 1 .. Len(s) PROVE i \in 1 .. Len(s) + Len(t)
    BY <1>1
  <1> QED
    BY <1>1, <1>2, <1>3, <1>4, <1>5, <1>6, <1>7, Zenon

\* The elements behind the first.
LEMMA TailElements ==
    ASSUME NEW V, NEW s \in Seq(V), s # << >>
    PROVE  /\ Tail(s) \in Seq(V) /\ Head(s) = s[1] /\ 1 \in DOMAIN s
           /\ \A i \in DOMAIN Tail(s) :
                 i \in Nat /\ i + 1 \in DOMAIN s /\ Tail(s)[i] = s[i + 1] /\ 1 < i + 1
  OBVIOUS

\* Every element comes before those behind it.
Ordered(t, R) == \A i, j \in DOMAIN t : i < j => <<t[i], t[j]>> \in R

\* The elements of a sequence, as a set.
Elements(s) == {s[i] : i \in DOMAIN s}

\* Every element of the one comes before every element of the other.
Ahead(s, t, R) == \A a \in Elements(s), b \in Elements(t) : <<a, b>> \in R

\* What is ordered and ahead of what is ordered.
LEMMA ConcatOrdered ==
    ASSUME NEW V, NEW s \in Seq(V), NEW t \in Seq(V), NEW R,
           Ordered(s, R), Ordered(t, R), Ahead(s, t, R)
    PROVE  Ordered(s \o t, R)
  <1> DEFINE u == s \o t
             n == Len(s)
  <1>1. /\ u \in Seq(V) /\ DOMAIN u = 1 .. n + Len(t)
        /\ \A i \in DOMAIN u :
              \/ i \in DOMAIN s /\ u[i] = s[i]
              \/ i - n \in DOMAIN t /\ u[i] = t[i - n] /\ \A j \in DOMAIN s : j < i
    BY ConcatElements
  <1>2. n \in Nat /\ Len(t) \in Nat /\ DOMAIN s = 1 .. n
    OBVIOUS
  <1> HIDE DEF u, n
  <1>3. ASSUME NEW i \in DOMAIN u, NEW j \in DOMAIN u, i < j PROVE <<u[i], u[j]>> \in R
    <2>1. i \in Int /\ j \in Int
      BY <1>1, <1>2
    <2>2. CASE j \in DOMAIN s /\ u[j] = s[j]
      <3>1. i \in DOMAIN s /\ u[i] = s[i]
        <4>1. ~ (j < i)
          BY <1>3, <2>1
        <4> QED
          BY <1>1, <2>2, <4>1, Zenon
      <3> QED
        BY <1>3, <2>2, <3>1, Zenon DEF Ordered
    <2>3. CASE j - n \in DOMAIN t /\ u[j] = t[j - n]
      <3>1. CASE i \in DOMAIN s /\ u[i] = s[i]
        BY <2>3, <3>1, Zenon DEF Ahead, Elements
      <3>2. CASE i - n \in DOMAIN t /\ u[i] = t[i - n]
        <4>1. i - n < j - n
          BY <1>2, <1>3, <2>1
        <4> QED
          BY <2>3, <3>2, <4>1, Zenon DEF Ordered
      <3> QED
        BY <1>1, <3>1, <3>2, Zenon
    <2> QED
      BY <1>1, <2>2, <2>3, Zenon
  <1> QED
    BY <1>3, Zenon DEF Ordered, u

\* What is behind the first is ordered, and the first is ahead of it.
LEMMA TailOrdered ==
    ASSUME NEW V, NEW s \in Seq(V), s # << >>, NEW R, Ordered(s, R)
    PROVE  Ordered(Tail(s), R) /\ \A w \in Elements(Tail(s)) : <<Head(s), w>> \in R
  <1> DEFINE t == Tail(s)
  <1>1. /\ Head(s) = s[1] /\ 1 \in DOMAIN s
        /\ \A i \in DOMAIN t : i \in Nat /\ i + 1 \in DOMAIN s /\ t[i] = s[i + 1] /\ 1 < i + 1
    BY TailElements
  <1> HIDE DEF t
  <1>2. \A i, j \in DOMAIN t : i < j => i + 1 < j + 1
    BY <1>1
  <1>3. Ordered(t, R)
    BY <1>1, <1>2, Zenon DEF Ordered
  <1>4. \A i \in DOMAIN t : <<Head(s), t[i]>> \in R
    BY <1>1, Zenon DEF Ordered
  <1> QED
    BY <1>3, <1>4, Zenon DEF Elements, t

\* The empty sequence has no elements, and is the only one without.
LEMMA EmptyElements ==
    ASSUME NEW V, NEW R
    PROVE  /\ << >> \in Seq(V) /\ Elements(<< >>) = {} /\ Ordered(<< >>, R)
           /\ \A s \in Seq(V) : Elements(s) = {} => s = << >>
  <1>1. << >> \in Seq(V) /\ DOMAIN << >> = {}
    OBVIOUS
  <1>2. \A s \in Seq(V) : s # << >> => 1 \in DOMAIN s
    OBVIOUS
  <1> QED
    BY <1>1, <1>2, Zenon DEF Elements, Ordered

\* A sequence of one element.
LEMMA OneElement ==
    ASSUME NEW V, NEW x \in V, NEW R
    PROVE  <<x>> \in Seq(V) /\ Elements(<<x>>) = {x} /\ Ordered(<<x>>, R) /\ Len(<<x>>) = 1 /\ <<x>>[1] = x
  <1>1. <<x>> \in Seq(V) /\ DOMAIN <<x>> = {1} /\ <<x>>[1] = x /\ Len(<<x>>) = 1
    OBVIOUS
  <1>2. Elements(<<x>>) = {x}
    BY <1>1, Zenon DEF Elements
  <1>3. Ordered(<<x>>, R)
    <2>1. \A i, j \in DOMAIN <<x>> : ~ (i < j)
      BY <1>1
    <2> QED
      BY <2>1, Zenon DEF Ordered
  <1> QED
    BY <1>1, <1>2, <1>3

\* The first element and the others.
LEMMA TailOf ==
    ASSUME NEW V, NEW s \in Seq(V), s # << >>
    PROVE  /\ Tail(s) \in Seq(V) /\ Elements(Tail(s)) \subseteq Elements(s)
           /\ Head(s) \in Elements(s) /\ Head(s) \in V
  <1>1. Elements(Tail(s)) \subseteq Elements(s)
    <2> SUFFICES ASSUME NEW i \in DOMAIN Tail(s) PROVE Tail(s)[i] \in Elements(s)
      BY Zenon DEF Elements
    <2>1. i + 1 \in DOMAIN s /\ Tail(s)[i] = s[i + 1]
      BY TailElements
    <2> QED
      BY <2>1, Zenon DEF Elements
  <1>2. Head(s) \in Elements(s) /\ Head(s) \in V
    <2>1. Head(s) = s[1] /\ 1 \in DOMAIN s
      BY TailElements
    <2>2. s[1] \in V
      BY <2>1, SeqElements, Zenon
    <2> QED
      BY <2>1, <2>2, Zenon DEF Elements
  <1> QED
    BY <1>1, <1>2, TailElements

\* The elements of a concatenation.
LEMMA ConcatOf ==
    ASSUME NEW V, NEW s \in Seq(V), NEW t \in Seq(V)
    PROVE  s \o t \in Seq(V) /\ Elements(s \o t) \subseteq Elements(s) \cup Elements(t)
  <1> DEFINE u == s \o t
  <1>1. u \in Seq(V) /\ \A i \in DOMAIN u : (i \in DOMAIN s /\ u[i] = s[i])
                                         \/ (i - Len(s) \in DOMAIN t /\ u[i] = t[i - Len(s)])
    BY ConcatElements
  <1> HIDE DEF u
  <1>2. Elements(u) \subseteq Elements(s) \cup Elements(t)
    BY <1>1, Zenon DEF Elements
  <1> QED
    BY <1>1, <1>2 DEF u

\* They are elements of the set the sequence is over.
LEMMA ElementsIn == ASSUME NEW V, NEW s \in Seq(V) PROVE Elements(s) \subseteq V
  BY SeqElements, Zenon DEF Elements
----------------------------------------------------------------------------
(* The numbers of calls *)

\* The recursion of NumbersOf.
NumbersFcn(f, s, u, n) ==
    f = [k \in 0 .. n |->
            IF k = 0 THEN << >>
            ELSE IF s[k].from = u THEN Append(f[k - 1], s[k].n) ELSE f[k - 1]]

\* There is a function that obeys it.
LEMMA NumbersExist == ASSUME NEW s, NEW u, NEW n \in Nat PROVE \E f : NumbersFcn(f, s, u, n)
  <1> DEFINE T == {k \in 0 .. n : \E f : NumbersFcn(f, s, u, k)}
             Step(t, k) == IF s[k].from = u THEN Append(t, s[k].n) ELSE t
  <1>1. 0 \in T
    <2>1. NumbersFcn([k \in 0 .. 0 |-> << >>], s, u, 0)
      BY DEF NumbersFcn
    <2>2. 0 \in 0 .. n
      OBVIOUS
    <2> QED
      BY <2>1, <2>2, Zenon
  <1>2. ASSUME NEW k \in 0 .. n - 1, k \in T PROVE k + 1 \in T
    <2>1. PICK f : NumbersFcn(f, s, u, k)
      BY <1>2
    <2> DEFINE g == [i \in 0 .. k + 1 |-> IF i = k + 1 THEN Step(f[k], k + 1) ELSE f[i]]
    <2>0. \A i \in 0 .. k : f[i] = IF i = 0 THEN << >> ELSE Step(f[i - 1], i)
      BY <2>1, Zenon DEF NumbersFcn
    <2>2. ASSUME NEW i \in 0 .. k + 1 PROVE g[i] = IF i = 0 THEN << >> ELSE Step(g[i - 1], i)
      <3> HIDE DEF Step
      <3>0. k \in Nat /\ i \in Nat /\ k + 1 # 0
        OBVIOUS
      <3>1. i # 0 => i - 1 \in 0 .. k + 1 /\ i - 1 # k + 1
        BY <3>0
      <3>2. i # 0 => g[i - 1] = f[i - 1]
        BY <3>1, Zenon
      <3>3. CASE i = k + 1
        <4>1. g[i] = Step(f[k], i)
          BY <3>3, Zenon
        <4>2. i - 1 = k
          BY <3>0, <3>3
        <4> HIDE DEF g
        <4> QED
          BY <3>0, <3>2, <3>3, <4>1, <4>2
      <3>4. CASE i # k + 1
        <4>1. i \in 0 .. k
          BY <3>0, <3>4
        <4>2. g[i] = f[i]
          BY <3>4, Zenon
        <4> HIDE DEF g
        <4> QED
          BY <2>0, <3>2, <4>1, <4>2, Zenon
      <3> QED
        BY <3>3, <3>4
    <2>3. g = [i \in 0 .. k + 1 |-> g[i]]
      BY Zenon
    <2>4. NumbersFcn(g, s, u, k + 1)
      <3> HIDE DEF g
      <3> QED
        BY <2>2, <2>3, Zenon DEF NumbersFcn
    <2>5. k + 1 \in 0 .. n
      OBVIOUS
    <2> HIDE DEF g
    <2> QED
      BY <2>4, <2>5, Zenon
  <1>3. n \in T
    <2> HIDE DEF T
    <2>1. \A k \in 0 .. n : k \in T
      BY <1>1, <1>2, UpTo, Zenon
    <2> QED
      BY <2>1
  <1> QED
    BY <1>3, Zenon

\* NumbersOf obeys it.
LEMMA NumbersAre ==
    ASSUME NEW s, NEW u, Len(s) \in Nat
    PROVE  \E f : NumbersFcn(f, s, u, Len(s)) /\ NumbersOf(s, u) = f[Len(s)]
  <1> DEFINE n == Len(s)
             g == CHOOSE f : NumbersFcn(f, s, u, n)
  <1>1. NumbersFcn(g, s, u, n)
    BY NumbersExist, Zenon
  <1>2. NumbersOf(s, u) = g[n]
    BY Zenon DEF NumbersOf, NumbersFcn
  <1> QED
    BY <1>1, <1>2, Zenon

\* Of calls that are all another's there are none.
LEMMA NumbersNone ==
    ASSUME NEW s \in Seq(Calls), NEW u, \A i \in DOMAIN s : s[i].from # u
    PROVE  NumbersOf(s, u) = << >>
  <1> DEFINE n == Len(s)
  <1>0. n \in Nat /\ DOMAIN s = 1 .. n
    OBVIOUS
  <1> HIDE DEF n
  <1>1. PICK f : NumbersFcn(f, s, u, n) /\ NumbersOf(s, u) = f[n]
    BY <1>0, NumbersAre, Zenon DEF n
  <1>2. \A k \in 0 .. n : f[k] = IF k = 0 THEN << >>
                                 ELSE IF s[k].from = u THEN Append(f[k - 1], s[k].n) ELSE f[k - 1]
    BY <1>1, Zenon DEF NumbersFcn
  <1> DEFINE T == {k \in 0 .. n : f[k] = << >>}
  <1>3. 0 \in T
    BY <1>0, <1>2
  <1>4. ASSUME NEW k \in 0 .. n - 1, k \in T PROVE k + 1 \in T
    <2> DEFINE j == k + 1
    <2>1. j \in 0 .. n /\ j \in DOMAIN s /\ j # 0 /\ j - 1 = k
      BY <1>0
    <2> HIDE DEF j
    <2> QED
      BY <1>2, <1>4, <2>1, Zenon DEF j
  <1>5. \A k \in 0 .. n : k \in T
    <2> HIDE DEF T
    <2> QED
      BY <1>0, <1>3, <1>4, UpTo, Zenon
  <1>6. n \in T
    BY <1>0, <1>5
  <1> QED
    BY <1>1, <1>6, Zenon

\* Of calls that are all u's there are all.
LEMMA NumbersAll ==
    ASSUME NEW s \in Seq(Calls), NEW u, \A i \in DOMAIN s : s[i].from = u
    PROVE  /\ NumbersOf(s, u) \in Seq(1 .. MaxCalls) /\ DOMAIN NumbersOf(s, u) = DOMAIN s
           /\ \A i \in DOMAIN s : NumbersOf(s, u)[i] = s[i].n
  <1> DEFINE n == Len(s)
             V == 1 .. MaxCalls
             num(i) == s[i].n
  <1>0. n \in Nat /\ DOMAIN s = 1 .. n /\ \A i \in DOMAIN s : num(i) \in V
    <2>1. \A i \in DOMAIN s : s[i] \in Calls
      BY SeqElements, Zenon
    <2>2. \A c \in Calls : c.n \in V
      BY DEF Calls
    <2>3. n \in Nat /\ DOMAIN s = 1 .. n
      OBVIOUS
    <2> QED
      BY <2>1, <2>2, <2>3, Zenon
  <1> HIDE DEF n, V
  <1>1. PICK f : NumbersFcn(f, s, u, n) /\ NumbersOf(s, u) = f[n]
    BY <1>0, NumbersAre, Zenon DEF n
  <1>2. \A k \in 0 .. n : f[k] = IF k = 0 THEN << >>
                                 ELSE IF s[k].from = u THEN Append(f[k - 1], num(k)) ELSE f[k - 1]
    BY <1>1, Zenon DEF NumbersFcn
  <1> HIDE DEF num
  <1> DEFINE T == {k \in 0 .. n : f[k] \in Seq(V) /\ Len(f[k]) = k /\ \A i \in 1 .. k : f[k][i] = num(i)}
  <1>3. 0 \in T
    <2>1. f[0] = << >> /\ 0 \in 0 .. n
      BY <1>0, <1>2
    <2>2. << >> \in Seq(V) /\ Len(<< >>) = 0 /\ \A i \in 1 .. 0 : << >>[i] = num(i)
      OBVIOUS
    <2> QED
      BY <2>1, <2>2, Zenon
  <1>4. ASSUME NEW k \in 0 .. n - 1, k \in T PROVE k + 1 \in T
    <2> DEFINE j == k + 1
               g == f[k]
               h == f[j]
    <2>1. j \in 0 .. n /\ j \in DOMAIN s /\ j # 0 /\ j - 1 = k /\ j = k + 1 /\ k \in Nat
      BY <1>0
    <2> HIDE DEF j
    <2>2. f[j] = Append(f[k], num(j)) /\ num(j) \in V
      BY <1>0, <1>2, <2>1, Zenon
    <2>3. g \in Seq(V) /\ Len(g) = k /\ \A i \in 1 .. k : g[i] = num(i)
      BY <1>4
    <2> HIDE DEF g, h
    <2>4. h = Append(g, num(j)) /\ num(j) \in V
      BY <2>2 DEF g, h
    <2>5. h \in Seq(V) /\ Len(h) = j /\ \A i \in 1 .. j : h[i] = num(i)
      BY <2>1, <2>3, <2>4
    <2> QED
      BY <2>1, <2>5 DEF h, j
  <1>5. \A k \in 0 .. n : k \in T
    <2> HIDE DEF T
    <2> QED
      BY <1>0, <1>3, <1>4, UpTo, Zenon
  <1>6. n \in T
    BY <1>0, <1>5
  <1>7. f[n] \in Seq(V) /\ Len(f[n]) = n /\ DOMAIN f[n] = 1 .. n /\ \A i \in 1 .. n : f[n][i] = num(i)
    BY <1>6
  <1> QED
    BY <1>0, <1>1, <1>7, Zenon DEF n, V, num
----------------------------------------------------------------------------
(* The invariant.  It is stated for each promise: h is the vat that holds it  *)
(* and makes calls on it, o the one that owns and resolves it.  The messages  *)
(* about it are those on the way to h, in net[h], and to o, in net[o].        *)

Messages ==
    [type : {"Call"}, target : {"promise", "object"}, call : Calls]
    \cup [type : {"Resolve", "Return"}, cap : {"senderHosted", "receiverHosted"}]
    \cup [type : {"Disembargo"}, context : {"sender", "receiver"}]
    \cup [type : {"Abort"}]

Typed ==
    /\ TypeOK
    /\ net \in [Vats -> Seq(Messages)]
    /\ kind \in [Vats -> {"export", "answer"}]

IsCall(m, h) == m.type = "Call" /\ m.call.from = h
IsSender(m) == m.type = "Disembargo" /\ m.context = "sender"
IsReceiver(m) == m.type = "Disembargo" /\ m.context = "receiver"

Earlier == {x \in Calls \X Calls : x[1].n < x[2].n}
Below == {x \in (1 .. MaxCalls) \X (1 .. MaxCalls) : x[1] < x[2]}

AfterArrived(h, n) == \A a \in Elements(arrived[h]) : a < n
BeforeHeld(h, n) == \A c \in Elements(held[h]) : n < c.n
AfterQueued(o, n) == \A c \in Elements(queue[o]) : c.n < n

\* What a CapDescriptor says of what the promise is resolved to.
DescriptorOf(c) == IF c = "object" THEN "senderHosted" ELSE "receiverHosted"

\* The Disembargo has come round, or never will.
Settled(h) == embargo[h] \in {"fulfilled", "lifted"}
Unsettled(h) == embargo[h] \in {"waiting", "failing", "broken"}

\* Calls go straight to the object, and never went elsewhere.
Direct(h) == conn[h] = TRUE /\ is_resolved[h] = TRUE /\ cap[h] = "object"

\* What the vats know of the promise agrees.
Agree(h, o) ==
    /\ redirect[o] \in {None, "object", "remote_object"}
    /\ client_hook[o] # "own" => redirect[o] # None /\ client_hook[o] = redirect[o]
    /\ resolve_op[o] = TRUE => kind[o] = "export"
    /\ resolve_op[o] = TRUE /\ conn[h] = TRUE => is_resolved[h] = FALSE
    /\ response[h] \in {None, "broken", "object", "remote_object"}
    /\ response[h] = "object" => redirect[o] = "remote_object"
    /\ response[h] = "remote_object" => redirect[o] = "object"
    /\ response[h] = "broken" => conn[h] = FALSE
    /\ response[h] # None => kind[o] = "answer"
    /\ cap[h] \in {"remote_promise", "object", "remote_object", "embargo", "broken"}
    /\ cap[h] = "remote_promise" => is_resolved[h] = FALSE
    /\ cap[h] # "remote_promise" => is_resolved[h] = TRUE
    /\ cap[h] = "remote_object" => redirect[o] = "object"
    /\ cap[h] \in {"object", "embargo"} => redirect[o] = "remote_object"
    /\ cap[h] = "broken" => conn[h] = FALSE
    /\ cap[h] = "embargo" <=> embargo[h] # "none"
    /\ embargo[h] # "none" => replacement[h] = "object"
    /\ embargo[h] = "waiting" => conn[h] = TRUE
    /\ embargo[h] \in {"failing", "broken"} => conn[h] = FALSE
    /\ echo[o] \in {None, "remote_object"}
    /\ echo[o] # None => Unsettled(h)
    /\ conn[h] = TRUE /\ received_call[h] = FALSE => made[h] = 0

\* The calls that wait are in order, behind those that have arrived.
Waiting(h, o) ==
    /\ queue[o] # << >> => redirect[o] = None
    /\ held[h] # << >> => embargo[h] \in {"waiting", "fulfilled", "failing"}
    /\ Ordered(queue[o], Earlier) /\ Ordered(held[h], Earlier) /\ Ordered(arrived[h], Below)
    /\ \A c \in Elements(queue[o]) : c.from = h /\ c.n <= made[h] /\ AfterArrived(h, c.n)
    /\ \A c \in Elements(held[h]) : c.from = h /\ c.n <= made[h] /\ AfterArrived(h, c.n)
    /\ \A a \in Elements(arrived[h]) : a <= made[h]

\* A message on the way to the holder.
ToHolder(h, o, m) ==
    /\ IsCall(m, h) =>
           /\ m.target = "object" /\ redirect[o] = "remote_object" /\ m.call.n <= made[h]
           /\ AfterArrived(h, m.call.n) /\ BeforeHeld(h, m.call.n) /\ ~ Settled(h) /\ ~ Direct(h)
    /\ m.type = "Resolve" =>
           /\ kind[o] = "export" /\ resolve_op[o] = FALSE /\ redirect[o] # None
           /\ m.cap = DescriptorOf(redirect[o]) /\ (conn[h] = TRUE => is_resolved[h] = FALSE)
    /\ m.type = "Return" =>
           kind[o] = "answer" /\ redirect[o] # None /\ m.cap = DescriptorOf(redirect[o])
    /\ IsReceiver(m) => Unsettled(h) /\ echo[o] = None

\* A message on the way to the owner.
ToOwner(h, o, m) ==
    /\ IsCall(m, h) =>
           /\ m.target = "object" => redirect[o] = "object"
           /\ m.call.n <= made[h] /\ AfterArrived(h, m.call.n) /\ AfterQueued(o, m.call.n)
           /\ BeforeHeld(h, m.call.n) /\ ~ Settled(h) /\ ~ Direct(h) /\ echo[o] = None
    /\ IsSender(m) => Unsettled(h) /\ echo[o] = None

\* m may be in front of w: on the way to the holder, on the way to the owner,
\* and when m is the one and w the other.
FrontToHolder(h, m, w) ==
    /\ IsCall(m, h) /\ IsCall(w, h) => m.call.n < w.call.n
    /\ ~ (IsReceiver(m) /\ (IsCall(w, h) \/ IsReceiver(w)))
    /\ ~ (m.type = "Resolve" /\ w.type = "Resolve")
FrontToOwner(h, m, w) ==
    /\ IsCall(m, h) /\ IsCall(w, h) => m.call.n < w.call.n
    /\ ~ (IsSender(m) /\ (IsCall(w, h) \/ IsSender(w)))
FrontAcross(h, m, w) ==
    /\ IsCall(m, h) /\ IsCall(w, h) => m.call.n < w.call.n
    /\ ~ (IsReceiver(m) /\ (IsCall(w, h) \/ IsSender(w)))

HolderOrder(h) == {x \in Messages \X Messages : FrontToHolder(h, x[1], x[2])}
OwnerOrder(h) == {x \in Messages \X Messages : FrontToOwner(h, x[1], x[2])}
AcrossOrder(h) == {x \in Messages \X Messages : FrontAcross(h, x[1], x[2])}

\* The messages s to the holder and t to the owner are in order.
Lined(h, s, t) ==
    Ordered(s, HolderOrder(h)) /\ Ordered(t, OwnerOrder(h)) /\ Ahead(s, t, AcrossOrder(h))

Streams(h, o) ==
    /\ \A m \in Elements(net[h]) : ToHolder(h, o, m)
    /\ \A m \in Elements(net[o]) : ToOwner(h, o, m)
    /\ Lined(h, net[h], net[o])

Promise(h, o) == Agree(h, o) /\ Waiting(h, o) /\ Streams(h, o)

EInv == Typed /\ NoProtocolError /\ \A h \in Vats : Promise(h, Peer(h))

\* Promises are resolved to objects.
ToObjects == Resolutions \subseteq {"object", "remote_object"}
----------------------------------------------------------------------------
(* Messages come and go *)

\* The orders, as relations.
LEMMA Orders ==
    ASSUME NEW h, NEW m \in Messages, NEW w \in Messages
    PROVE  /\ <<m, w>> \in HolderOrder(h) <=> FrontToHolder(h, m, w)
           /\ <<m, w>> \in OwnerOrder(h) <=> FrontToOwner(h, m, w)
           /\ <<m, w>> \in AcrossOrder(h) <=> FrontAcross(h, m, w)
  BY DEF HolderOrder, OwnerOrder, AcrossOrder

\* The orders of calls and of numbers.
LEMMA CallOrders ==
    /\ \A c, d \in Calls : <<c, d>> \in Earlier <=> c.n < d.n
    /\ \A i, j \in 1 .. MaxCalls : <<i, j>> \in Below <=> i < j
  BY DEF Earlier, Below

\* The first message to the holder is read.
LEMMA HolderReads ==
    ASSUME NEW h, NEW s \in Seq(Messages), NEW t \in Seq(Messages), s # << >>, Lined(h, s, t)
    PROVE  /\ Lined(h, Tail(s), t)
           /\ Elements(Tail(s)) \subseteq Elements(s) /\ Head(s) \in Elements(s) /\ Head(s) \in Messages
           /\ \A w \in Elements(Tail(s)) : FrontToHolder(h, Head(s), w)
           /\ \A w \in Elements(t) : FrontAcross(h, Head(s), w)
  <1>1. /\ Tail(s) \in Seq(Messages) /\ Elements(Tail(s)) \subseteq Elements(s)
        /\ Head(s) \in Elements(s) /\ Head(s) \in Messages
    BY TailOf
  <1>2. Ordered(Tail(s), HolderOrder(h)) /\ \A w \in Elements(Tail(s)) : <<Head(s), w>> \in HolderOrder(h)
    BY TailOrdered DEF Lined
  <1>3. Lined(h, Tail(s), t)
    BY <1>1, <1>2, Zenon DEF Lined, Ahead
  <1>4. Elements(s) \subseteq Messages /\ Elements(t) \subseteq Messages
    BY ElementsIn
  <1>5. \A w \in Elements(t) : <<Head(s), w>> \in AcrossOrder(h)
    BY <1>1, Zenon DEF Lined, Ahead
  <1> QED
    BY <1>1, <1>2, <1>3, <1>4, <1>5, Orders, Zenon

\* The first message to the owner is read.
LEMMA OwnerReads ==
    ASSUME NEW h, NEW s \in Seq(Messages), NEW t \in Seq(Messages), t # << >>, Lined(h, s, t)
    PROVE  /\ Lined(h, s, Tail(t))
           /\ Elements(Tail(t)) \subseteq Elements(t) /\ Head(t) \in Elements(t) /\ Head(t) \in Messages
           /\ \A w \in Elements(Tail(t)) : FrontToOwner(h, Head(t), w)
           /\ \A w \in Elements(s) : FrontAcross(h, w, Head(t))
  <1>1. /\ Tail(t) \in Seq(Messages) /\ Elements(Tail(t)) \subseteq Elements(t)
        /\ Head(t) \in Elements(t) /\ Head(t) \in Messages
    BY TailOf
  <1>2. Ordered(Tail(t), OwnerOrder(h)) /\ \A w \in Elements(Tail(t)) : <<Head(t), w>> \in OwnerOrder(h)
    BY TailOrdered DEF Lined
  <1>3. Lined(h, s, Tail(t))
    BY <1>1, <1>2, Zenon DEF Lined, Ahead
  <1>4. Elements(s) \subseteq Messages /\ Elements(t) \subseteq Messages
    BY ElementsIn
  <1>5. \A w \in Elements(s) : <<w, Head(t)>> \in AcrossOrder(h)
    BY <1>1, Zenon DEF Lined, Ahead
  <1> QED
    BY <1>1, <1>2, <1>3, <1>4, <1>5, Orders, Zenon

\* Messages ms are sent to the holder.
LEMMA SentToHolder ==
    ASSUME NEW h, NEW s \in Seq(Messages), NEW t \in Seq(Messages), NEW ms \in Seq(Messages), Lined(h, s, t),
           Ordered(ms, HolderOrder(h)),
           \A m \in Elements(s), w \in Elements(ms) : FrontToHolder(h, m, w),
           \A m \in Elements(ms), w \in Elements(t) : FrontAcross(h, m, w)
    PROVE  Lined(h, s \o ms, t)
  <1>1. Elements(s) \subseteq Messages /\ Elements(t) \subseteq Messages /\ Elements(ms) \subseteq Messages
    BY ElementsIn
  <1>2. Ahead(s, ms, HolderOrder(h)) /\ Ahead(ms, t, AcrossOrder(h))
    BY <1>1, Orders, Zenon DEF Ahead
  <1>3. Ordered(s \o ms, HolderOrder(h))
    BY <1>2, ConcatOrdered DEF Lined
  <1>4. Elements(s \o ms) \subseteq Elements(s) \cup Elements(ms)
    BY ConcatOf
  <1>5. Ahead(s \o ms, t, AcrossOrder(h))
    BY <1>2, <1>4, Zenon DEF Ahead, Lined
  <1> QED
    BY <1>3, <1>5 DEF Lined

\* Messages ms are sent to the owner.
LEMMA SentToOwner ==
    ASSUME NEW h, NEW s \in Seq(Messages), NEW t \in Seq(Messages), NEW ms \in Seq(Messages), Lined(h, s, t),
           Ordered(ms, OwnerOrder(h)),
           \A m \in Elements(t), w \in Elements(ms) : FrontToOwner(h, m, w),
           \A m \in Elements(s), w \in Elements(ms) : FrontAcross(h, m, w)
    PROVE  Lined(h, s, t \o ms)
  <1>1. Elements(s) \subseteq Messages /\ Elements(t) \subseteq Messages /\ Elements(ms) \subseteq Messages
    BY ElementsIn
  <1>2. Ahead(t, ms, OwnerOrder(h)) /\ Ahead(s, ms, AcrossOrder(h))
    BY <1>1, Orders, Zenon DEF Ahead
  <1>3. Ordered(t \o ms, OwnerOrder(h))
    BY <1>2, ConcatOrdered DEF Lined
  <1>4. Elements(t \o ms) \subseteq Elements(t) \cup Elements(ms)
    BY ConcatOf
  <1>5. Ahead(s, t \o ms, AcrossOrder(h))
    BY <1>2, <1>4, Zenon DEF Ahead, Lined
  <1> QED
    BY <1>3, <1>5 DEF Lined

\* A message that has nothing to do with the promise h holds.
Other(h, m) == ~ IsCall(m, h) /\ m.type \notin {"Resolve", "Return"} /\ ~ IsReceiver(m)
OtherOwned(h, m) == ~ IsCall(m, h) /\ ~ IsSender(m)

\* Such messages may be anywhere on the way to the holder.
LEMMA OthersToHolder ==
    ASSUME NEW h, NEW s \in Seq(Messages), NEW t \in Seq(Messages), NEW ms \in Seq(Messages), Lined(h, s, t),
           \A m \in Elements(ms) : Other(h, m)
    PROVE  Lined(h, s \o ms, t)
  <1>1. Elements(ms) \subseteq Messages
    BY ElementsIn
  <1>2. \A m, w \in Elements(ms) : <<m, w>> \in HolderOrder(h)
    BY <1>1, Orders, Zenon DEF Other, FrontToHolder
  <1>3. Ordered(ms, HolderOrder(h))
    BY <1>2, Zenon DEF Ordered, Elements
  <1>4. \A m \in Elements(s), w \in Elements(ms) : FrontToHolder(h, m, w)
    BY Zenon DEF Other, FrontToHolder
  <1>5. \A m \in Elements(ms), w \in Elements(t) : FrontAcross(h, m, w)
    BY Zenon DEF Other, FrontAcross
  <1> QED
    BY <1>3, <1>4, <1>5, SentToHolder, Zenon

\* And on the way to the owner.
LEMMA OthersToOwner ==
    ASSUME NEW h, NEW s \in Seq(Messages), NEW t \in Seq(Messages), NEW ms \in Seq(Messages), Lined(h, s, t),
           \A m \in Elements(ms) : OtherOwned(h, m)
    PROVE  Lined(h, s, t \o ms)
  <1>1. Elements(ms) \subseteq Messages
    BY ElementsIn
  <1>2. \A m, w \in Elements(ms) : <<m, w>> \in OwnerOrder(h)
    BY <1>1, Orders, Zenon DEF OtherOwned, FrontToOwner
  <1>3. Ordered(ms, OwnerOrder(h))
    BY <1>2, Zenon DEF Ordered, Elements
  <1>4. \A m \in Elements(t), w \in Elements(ms) : FrontToOwner(h, m, w)
    BY Zenon DEF OtherOwned, FrontToOwner
  <1>5. \A m \in Elements(s), w \in Elements(ms) : FrontAcross(h, m, w)
    BY Zenon DEF OtherOwned, FrontAcross
  <1> QED
    BY <1>3, <1>4, <1>5, SentToOwner, Zenon
----------------------------------------------------------------------------
(* A step leaves one of the two promises alone *)

\* All that the invariant says of messages and of the calls that wait is about.
Core(h, o) ==
    <<conn[h], kind[o], redirect[o], resolve_op[o], queue[o], is_resolved[h], cap[h], embargo[h], held[h],
      echo[o], made[h], arrived[h]>>

\* When it stays the same, so does what is said.
LEMMA SameCore ==
    ASSUME NEW h \in Vats, NEW o \in Vats, UNCHANGED Core(h, o)
    PROVE  /\ Waiting(h, o) => Waiting(h, o)'
           /\ \A m : ToHolder(h, o, m) => ToHolder(h, o, m)'
           /\ \A m : ToOwner(h, o, m) => ToOwner(h, o, m)'
  <1>1. /\ conn'[h] = conn[h] /\ kind'[o] = kind[o] /\ redirect'[o] = redirect[o]
        /\ resolve_op'[o] = resolve_op[o] /\ queue'[o] = queue[o]
        /\ is_resolved'[h] = is_resolved[h] /\ cap'[h] = cap[h]
        /\ embargo'[h] = embargo[h] /\ held'[h] = held[h]
        /\ echo'[o] = echo[o] /\ made'[h] = made[h] /\ arrived'[h] = arrived[h]
    BY DEF Core
  <1>2. Waiting(h, o) => Waiting(h, o)'
    BY <1>1, Zenon DEF Waiting, AfterArrived
  <1>3. \A m : ToHolder(h, o, m) => ToHolder(h, o, m)'
    BY <1>1, Zenon DEF ToHolder, AfterArrived, BeforeHeld, Settled, Unsettled, Direct
  <1>4. \A m : ToOwner(h, o, m) => ToOwner(h, o, m)'
    BY <1>1, Zenon DEF ToOwner, AfterArrived, BeforeHeld, AfterQueued, Settled, Unsettled, Direct
  <1> QED
    BY <1>2, <1>3, <1>4

\* What the vats know agrees as long as it is unchanged.
LEMMA SameAgree ==
    ASSUME NEW h \in Vats, NEW o \in Vats, Agree(h, o), UNCHANGED Core(h, o),
           response'[h] = response[h], client_hook'[o] = client_hook[o],
           replacement'[h] = replacement[h], received_call'[h] = received_call[h]
    PROVE  Agree(h, o)'
  BY DEF Agree, Unsettled, Core

\* The holder reads messages, and sends some about the other promise.
LEMMA HolderMoves ==
    ASSUME Typed, NEW h \in Vats, NEW o \in Vats, Streams(h, o), Agree(h, o)', Waiting(h, o)',
           \A m \in Elements(net[h]) : ToHolder(h, o, m)', \A m \in Elements(net[o]) : ToOwner(h, o, m)',
           net'[h] = net[h] \/ (net[h] # << >> /\ net'[h] = Tail(net[h])),
           NEW ms \in Seq(Messages), \A m \in Elements(ms) : OtherOwned(h, m),
           net'[o] = net[o] \/ net'[o] = net[o] \o ms
    PROVE  Promise(h, o)'
  <1>0. net[h] \in Seq(Messages) /\ net[o] \in Seq(Messages) /\ Lined(h, net[h], net[o])
    BY DEF Typed, Streams
  <1>1. Lined(h, net'[h], net[o]) /\ Elements(net'[h]) \subseteq Elements(net[h]) /\ net'[h] \in Seq(Messages)
    <2>1. CASE net'[h] = net[h]
      BY <1>0, <2>1
    <2>2. CASE net[h] # << >> /\ net'[h] = Tail(net[h])
      <3>1. Lined(h, Tail(net[h]), net[o]) /\ Elements(Tail(net[h])) \subseteq Elements(net[h])
        BY <1>0, <2>2, HolderReads, Zenon
      <3>2. Tail(net[h]) \in Seq(Messages)
        BY <1>0, <2>2, TailOf, Zenon
      <3> QED
        BY <2>2, <3>1, <3>2, Zenon
    <2> QED
      BY <2>1, <2>2
  <1>2. Lined(h, net'[h], net'[o]) /\ Elements(net'[o]) \subseteq Elements(net[o]) \cup Elements(ms)
    <2>1. CASE net'[o] = net[o]
      BY <1>1, <2>1, Zenon
    <2>2. CASE net'[o] = net[o] \o ms
      <3>1. Lined(h, net'[h], net[o] \o ms)
        BY <1>0, <1>1, OthersToOwner, Zenon
      <3>2. Elements(net[o] \o ms) \subseteq Elements(net[o]) \cup Elements(ms)
        BY <1>0, ConcatOf
      <3> QED
        BY <2>2, <3>1, <3>2, Zenon
    <2> QED
      BY <2>1, <2>2
  <1>3. \A m \in Elements(net'[h]) : ToHolder(h, o, m)'
    BY <1>1, Zenon
  <1>4. \A m \in Elements(net'[o]) : ToOwner(h, o, m)'
    <2>1. \A m \in Elements(ms) : ToOwner(h, o, m)'
      BY Zenon DEF OtherOwned, ToOwner
    <2> QED
      BY <1>2, <2>1, Zenon
  <1> QED
    BY <1>2, <1>3, <1>4, Zenon DEF Promise, Streams

\* The owner reads messages, and sends some about the other promise.
LEMMA OwnerMoves ==
    ASSUME Typed, NEW h \in Vats, NEW o \in Vats, Streams(h, o), Agree(h, o)', Waiting(h, o)',
           \A m \in Elements(net[h]) : ToHolder(h, o, m)', \A m \in Elements(net[o]) : ToOwner(h, o, m)',
           net'[o] = net[o] \/ (net[o] # << >> /\ net'[o] = Tail(net[o])),
           NEW ms \in Seq(Messages), \A m \in Elements(ms) : Other(h, m),
           net'[h] = net[h] \/ net'[h] = net[h] \o ms
    PROVE  Promise(h, o)'
  <1>0. net[h] \in Seq(Messages) /\ net[o] \in Seq(Messages) /\ Lined(h, net[h], net[o])
    BY DEF Typed, Streams
  <1>1. Lined(h, net[h], net'[o]) /\ Elements(net'[o]) \subseteq Elements(net[o]) /\ net'[o] \in Seq(Messages)
    <2>1. CASE net'[o] = net[o]
      BY <1>0, <2>1
    <2>2. CASE net[o] # << >> /\ net'[o] = Tail(net[o])
      <3>1. Lined(h, net[h], Tail(net[o])) /\ Elements(Tail(net[o])) \subseteq Elements(net[o])
        BY <1>0, <2>2, OwnerReads, Zenon
      <3>2. Tail(net[o]) \in Seq(Messages)
        BY <1>0, <2>2, TailOf, Zenon
      <3> QED
        BY <2>2, <3>1, <3>2, Zenon
    <2> QED
      BY <2>1, <2>2
  <1>2. Lined(h, net'[h], net'[o]) /\ Elements(net'[h]) \subseteq Elements(net[h]) \cup Elements(ms)
    <2>1. CASE net'[h] = net[h]
      BY <1>1, <2>1, Zenon
    <2>2. CASE net'[h] = net[h] \o ms
      <3>1. Lined(h, net[h] \o ms, net'[o])
        BY <1>0, <1>1, OthersToHolder, Zenon
      <3>2. Elements(net[h] \o ms) \subseteq Elements(net[h]) \cup Elements(ms)
        BY <1>0, ConcatOf
      <3> QED
        BY <2>2, <3>1, <3>2, Zenon
    <2> QED
      BY <2>1, <2>2
  <1>3. \A m \in Elements(net'[o]) : ToOwner(h, o, m)'
    BY <1>1, Zenon
  <1>4. \A m \in Elements(net'[h]) : ToHolder(h, o, m)'
    <2>1. \A m \in Elements(ms) : ToHolder(h, o, m)'
      BY Zenon DEF Other, ToHolder
    <2> QED
      BY <1>2, <2>1, Zenon
  <1> QED
    BY <1>2, <1>3, <1>4, Zenon DEF Promise, Streams

\* The step of the holder has nothing to do with the promise it holds.
LEMMA HolderElsewhere ==
    ASSUME Typed, NEW h \in Vats, NEW o \in Vats, Promise(h, o), UNCHANGED Core(h, o), Agree(h, o)',
           net'[h] = net[h] \/ (net[h] # << >> /\ net'[h] = Tail(net[h])),
           NEW ms \in Seq(Messages), \A m \in Elements(ms) : OtherOwned(h, m),
           net'[o] = net[o] \/ net'[o] = net[o] \o ms
    PROVE  Promise(h, o)'
  <1>1. Streams(h, o) /\ Waiting(h, o)'
    BY SameCore, Zenon DEF Promise
  <1>2. (\A m \in Elements(net[h]) : ToHolder(h, o, m)') /\ (\A m \in Elements(net[o]) : ToOwner(h, o, m)')
    BY <1>1, SameCore, Zenon DEF Streams
  <1> QED
    BY <1>1, <1>2, HolderMoves, Zenon

\* The step of the owner has nothing to do with the promise it owns.
LEMMA OwnerElsewhere ==
    ASSUME Typed, NEW h \in Vats, NEW o \in Vats, Promise(h, o), UNCHANGED Core(h, o), Agree(h, o)',
           net'[o] = net[o] \/ (net[o] # << >> /\ net'[o] = Tail(net[o])),
           NEW ms \in Seq(Messages), \A m \in Elements(ms) : Other(h, m),
           net'[h] = net[h] \/ net'[h] = net[h] \o ms
    PROVE  Promise(h, o)'
  <1>1. Streams(h, o) /\ Waiting(h, o)'
    BY SameCore, Zenon DEF Promise
  <1>2. (\A m \in Elements(net[h]) : ToHolder(h, o, m)') /\ (\A m \in Elements(net[o]) : ToOwner(h, o, m)')
    BY <1>1, SameCore, Zenon DEF Streams
  <1> QED
    BY <1>1, <1>2, OwnerMoves, Zenon
----------------------------------------------------------------------------
(* Where calls go *)

\* Nothing is added.
LEMMA ConcatEmpty == ASSUME NEW V, NEW s \in Seq(V) PROVE s \o << >> = s
  <1> DEFINE u == s \o << >>
  <1>1. u \in Seq(V) /\ Len(u) = Len(s) /\ \A i \in 1 .. Len(s) : u[i] = s[i]
    OBVIOUS
  <1> HIDE DEF u
  <1>2. u = [i \in 1 .. Len(u) |-> u[i]] /\ s = [i \in 1 .. Len(s) |-> s[i]]
    BY <1>1
  <1>3. u = [i \in 1 .. Len(s) |-> s[i]]
    BY <1>1, <1>2, Zenon
  <1> QED
    BY <1>2, <1>3, Zenon DEF u

\* The two vats.
Peers(x, y) == x \in Vats /\ y \in Vats /\ x # y /\ Peer(x) = y /\ Peer(y) = x /\ \A w \in Vats : w = x \/ w = y

\* Each is the other's peer.
LEMMA PeersAre == \A x \in Vats : Peers(x, Peer(x))
  BY DEF Peers, Peer, Vats

\* Objects, and what is broken, are resolved.
LEMMA PathOfObject ==
    ASSUME NEW v, NEW c \in {"object", "remote_object", "broken"}
    PROVE  Innermost(v, c) = c /\ \A i \in 1 .. 4 : Path(v, c)[i] = c
  <1>1. Resolved(v, c) = c
    BY DEF Resolved
  <1> QED
    BY <1>1 DEF Innermost, Path

\* A vat's own promise leads to what it is resolved to.
LEMMA PathOfOwn ==
    ASSUME NEW v, redirect[v] \in {None, "object", "remote_object"}
    PROVE  /\ redirect[v] = None => Innermost(v, "own") = "own" /\ \A i \in 1 .. 4 : Path(v, "own")[i] = "own"
           /\ redirect[v] # None => /\ Innermost(v, "own") = redirect[v]
                                    /\ \A i \in 1 .. 4 : Path(v, "own")[i] \in {"own", redirect[v]}
  <1>1. CASE redirect[v] = None
    <2>1. Resolved(v, "own") = "own"
      BY <1>1 DEF Resolved
    <2> QED
      BY <1>1, <2>1 DEF Innermost, Path
  <1>2. CASE redirect[v] \in {"object", "remote_object"}
    <2>1. Resolved(v, "own") = redirect[v]
      BY <1>2, NoneAssumption DEF Resolved, Caps
    <2>2. Resolved(v, redirect[v]) = redirect[v]
      BY <1>2 DEF Resolved
    <2> QED
      BY <1>2, <2>1, <2>2, NoneAssumption DEF Innermost, Path, Caps
  <1> QED
    BY <1>1, <1>2

\* What a PromiseClient leads to.
Leads(v) ==
    CASE cap[v] = "remote_promise" -> "promise"
      [] cap[v] = "embargo" /\ embargo[v] = "lifted" -> "object"
      [] cap[v] = "embargo" /\ embargo[v] = "broken" -> "broken"
      [] OTHER -> cap[v]

\* A call on it goes there, or is lost with the connection.
LEMMA PathOfPromise ==
    ASSUME NEW v \in Vats, NEW o, Typed, Agree(v, o)
    PROVE  /\ Innermost(v, "promise") = Leads(v) /\ Path(v, "promise")[1] = "promise"
           /\ Lost(v, "promise") <=> Leads(v) = "broken" \/ conn[v] = FALSE
  <1>0. conn[v] \in BOOLEAN /\ is_resolved[v] \in BOOLEAN
    BY DEF Typed, TypeOK
  <1>1. Innermost(v, "promise") = Leads(v)
    <2>1. CASE cap[v] = "remote_promise"
      <3>1. Resolved(v, "promise") = "promise"
        BY <2>1 DEF Resolved, Agree
      <3> QED
        BY <2>1, <3>1 DEF Innermost, Path, Leads
    <2>2. CASE cap[v] \in {"object", "remote_object", "broken"}
      <3>1. Resolved(v, "promise") = cap[v]
        BY <2>2 DEF Resolved, Agree
      <3>2. Resolved(v, cap[v]) = cap[v]
        BY <2>2 DEF Resolved
      <3> QED
        BY <2>2, <3>1, <3>2 DEF Innermost, Path, Leads
    <2>3. CASE cap[v] = "embargo"
      <3>1. Resolved(v, "promise") = "embargo"
        BY <2>3 DEF Resolved, Agree
      <3>2. Resolved(v, "embargo") = IF embargo[v] = "lifted" THEN "object"
                                     ELSE IF embargo[v] = "broken" THEN "broken" ELSE "embargo"
        BY <2>3 DEF Resolved, Agree
      <3>3. Resolved(v, "object") = "object" /\ Resolved(v, "broken") = "broken"
        BY DEF Resolved
      <3> QED
        BY <2>3, <3>1, <3>2, <3>3 DEF Innermost, Path, Leads
    <2> QED
      BY <2>1, <2>2, <2>3 DEF Agree
  <1>2. Path(v, "promise")[1] = "promise"
    BY DEF Path
  <1>3. Lost(v, "promise") <=> Leads(v) = "broken" \/ conn[v] = FALSE
    BY <1>0, <1>1, <1>2 DEF Lost, Remote
  <1> QED
    BY <1>1, <1>2, <1>3

\* Calls that are lost change nothing else.
Loses(x, streams, q, g) ==
    /\ net' = streams /\ arrived' = arrived /\ received_call' = received_call
    /\ queue' = [queue EXCEPT ![x] = q] /\ held' = [held EXCEPT ![x] = g]

\* They are when made on what is broken, or over a connection that is.
LEMMA DeliverLost ==
    ASSUME Typed, NEW x, NEW y, Peers(x, y), NEW c, NEW s \in Seq(Calls), NEW streams \in [Vats -> Seq(Messages)],
           NEW q \in Seq(Calls), NEW g \in Seq(Calls), Deliver(x, c, s, streams, q, g), Lost(x, c)
    PROVE  Loses(x, streams, q, g)
  <1> DEFINE t == Innermost(x, c)
             k == IF Lost(x, c) THEN << >> ELSE s
             target == IF t = "promise" THEN "promise" ELSE "object"
             ms == [i \in DOMAIN k |-> [type |-> "Call", target |-> target, call |-> k[i]]]
  <1>1. k = << >> /\ ms = << >>
    OBVIOUS
  <1>2. /\ received_call' = [received_call EXCEPT ![x] =
               @ \/ (k # << >> /\ \E i \in 1 .. 4 : Path(x, c)[i] = "promise")]
        /\ net' = IF Remote(t) THEN Sent(streams, x, ms) ELSE streams
        /\ arrived' = IF t = "object" THEN [u \in Vats |-> arrived[u] \o NumbersOf(k, u)] ELSE arrived
        /\ queue' = [queue EXCEPT ![x] = IF t = "own" THEN q \o k ELSE q]
        /\ held' = [held EXCEPT ![x] = IF t = "embargo" THEN g \o k ELSE g]
    BY Zenon DEF Deliver
  <1> HIDE DEF t, k, target, ms
  <1>3. received_call' = received_call
    BY <1>1, <1>2 DEF Typed, TypeOK
  <1>4. q \o k = q /\ g \o k = g /\ \A u \in Vats : streams[u] \o ms = streams[u]
    BY <1>1, ConcatEmpty
  <1>5. net' = streams
    BY <1>2, <1>4 DEF Sent, Peers
  <1>6. \A u \in Vats : arrived[u] \o NumbersOf(k, u) = arrived[u]
    <2>1. << >> \in Seq(Calls) /\ DOMAIN << >> = {}
      OBVIOUS
    <2>2. \A u : NumbersOf(<< >>, u) = << >>
      BY <2>1, NumbersNone, Zenon
    <2>3. \A u \in Vats : arrived[u] \in Seq(1 .. MaxCalls)
      BY DEF Typed, TypeOK
    <2> QED
      BY <1>1, <2>2, <2>3, ConcatEmpty, Zenon
  <1>7. arrived' = arrived
    <2>1. arrived = [u \in Vats |-> arrived[u]]
      BY DEF Typed, TypeOK
    <2> QED
      BY <1>2, <1>6, <2>1, Zenon
  <1> QED
    BY <1>2, <1>3, <1>4, <1>5, <1>7 DEF Loses

\* The call messages of some calls.
CallMessages(s, target) == [i \in DOMAIN s |-> [type |-> "Call", target |-> target, call |-> s[i]]]

\* The other outcomes of Deliver.
LEMMA DeliverElse ==
    ASSUME Typed, NEW x, NEW y, Peers(x, y), NEW c, NEW s, NEW streams, NEW q, NEW g,
           Deliver(x, c, s, streams, q, g), ~ Lost(x, c), NEW t, Innermost(x, c) = t
    PROVE  /\ Remote(t) => net' = Sent(streams, x, CallMessages(s, IF t = "promise" THEN "promise" ELSE "object"))
           /\ ~ Remote(t) => net' = streams
           /\ t = "object" => arrived' = [u \in Vats |-> arrived[u] \o NumbersOf(s, u)]
           /\ t # "object" => arrived' = arrived
           /\ t = "own" => queue' = [queue EXCEPT ![x] = q \o s]
           /\ t # "own" => queue' = [queue EXCEPT ![x] = q]
           /\ t = "embargo" => held' = [held EXCEPT ![x] = g \o s]
           /\ t # "embargo" => held' = [held EXCEPT ![x] = g]
  BY Zenon DEF Deliver, CallMessages

\* Calls arrive.
Arrives(x, s, streams, q, g) ==
    /\ net' = streams /\ arrived' = [u \in Vats |-> arrived[u] \o NumbersOf(s, u)]
    /\ queue' = [queue EXCEPT ![x] = q] /\ held' = [held EXCEPT ![x] = g]

\* They do when they are made on an object of this vat.
LEMMA DeliverObject ==
    ASSUME Typed, NEW x, NEW y, Peers(x, y), NEW c, NEW s, NEW streams, NEW q, NEW g,
           Deliver(x, c, s, streams, q, g), ~ Lost(x, c), Innermost(x, c) = "object"
    PROVE  Arrives(x, s, streams, q, g)
  BY DeliverElse DEF Remote, Arrives

\* Calls are sent to the peer.
Forwards(x, s, target, streams, q, g) ==
    /\ net' = Sent(streams, x, CallMessages(s, target)) /\ arrived' = arrived
    /\ queue' = [queue EXCEPT ![x] = q] /\ held' = [held EXCEPT ![x] = g]

\* They are when made on the peer's promise or object.
LEMMA DeliverRemote ==
    ASSUME Typed, NEW x, NEW y, Peers(x, y), NEW c, NEW s, NEW streams, NEW q, NEW g,
           Deliver(x, c, s, streams, q, g), ~ Lost(x, c), NEW t \in {"promise", "remote_object"}, Innermost(x, c) = t
    PROVE  Forwards(x, s, IF t = "promise" THEN "promise" ELSE "object", streams, q, g)
  BY DeliverElse DEF Remote, Forwards

\* Calls are queued.
Queues(x, s, streams, q, g) ==
    /\ net' = streams /\ arrived' = arrived
    /\ queue' = [queue EXCEPT ![x] = q \o s] /\ held' = [held EXCEPT ![x] = g]

\* They are when made on this vat's promise, before it is resolved.
LEMMA DeliverOwn ==
    ASSUME Typed, NEW x, NEW y, Peers(x, y), NEW c, NEW s, NEW streams, NEW q, NEW g,
           Deliver(x, c, s, streams, q, g), ~ Lost(x, c), Innermost(x, c) = "own"
    PROVE  Queues(x, s, streams, q, g)
  BY DeliverElse DEF Remote, Queues

\* Calls are held back.
HoldsBack(x, s, streams, q, g) ==
    /\ net' = streams /\ arrived' = arrived
    /\ queue' = [queue EXCEPT ![x] = q] /\ held' = [held EXCEPT ![x] = g \o s]

\* They are when made during an embargo.
LEMMA DeliverEmbargo ==
    ASSUME Typed, NEW x, NEW y, Peers(x, y), NEW c, NEW s, NEW streams, NEW q, NEW g,
           Deliver(x, c, s, streams, q, g), ~ Lost(x, c), Innermost(x, c) = "embargo"
    PROVE  HoldsBack(x, s, streams, q, g)
  BY DeliverElse DEF Remote, HoldsBack

\* Whether the PromiseClient hears of it.
LEMMA DeliverHeard ==
    ASSUME Typed, NEW x, NEW y, Peers(x, y), NEW c, NEW s, NEW streams, NEW q, NEW g,
           Deliver(x, c, s, streams, q, g), ~ Lost(x, c)
    PROVE  /\ (\A i \in 1 .. 4 : Path(x, c)[i] # "promise") => received_call' = received_call
           /\ (\E i \in 1 .. 4 : Path(x, c)[i] = "promise") /\ s # << >> =>
                 received_call' = [received_call EXCEPT ![x] = TRUE]
  <1>1. received_call \in [Vats -> BOOLEAN]
    BY DEF Typed, TypeOK
  <1> DEFINE P == \E i \in 1 .. 4 : Path(x, c)[i] = "promise"
  <1>2. received_call' = [received_call EXCEPT ![x] = @ \/ (s # << >> /\ P)]
    BY DEF Deliver
  <1>3. ~ P => received_call' = received_call
    BY <1>1, <1>2
  <1>4. P /\ s # << >> => received_call' = [received_call EXCEPT ![x] = TRUE]
    BY <1>1, <1>2, Zenon
  <1> HIDE DEF P
  <1> QED
    BY <1>3, <1>4 DEF P

\* They are messages, in the order of the calls.
LEMMA CallMessagesAre ==
    ASSUME NEW s \in Seq(Calls), NEW target \in {"promise", "object"}
    PROVE  /\ CallMessages(s, target) \in Seq(Messages)
           /\ \A m \in Elements(CallMessages(s, target)) :
                 m.type = "Call" /\ m.target = target /\ m.call \in Elements(s)
           /\ \A h : Ordered(s, Earlier) => /\ Ordered(CallMessages(s, target), HolderOrder(h))
                                            /\ Ordered(CallMessages(s, target), OwnerOrder(h))
  <1> DEFINE ms == CallMessages(s, target)
             m(i) == [type |-> "Call", target |-> target, call |-> s[i]]
  <1>1. \A i \in DOMAIN s : s[i] \in Calls /\ s[i] \in Elements(s)
    BY SeqElements, Zenon DEF Elements
  <1>2. \A c \in Calls : [type |-> "Call", target |-> target, call |-> c] \in Messages
    BY DEF Messages
  <1>3. DOMAIN ms = DOMAIN s /\ \A i \in DOMAIN s : ms[i] = m(i)
    BY DEF CallMessages
  <1>4. \A i \in DOMAIN s : m(i) \in Messages
    BY <1>1, <1>2
  <1>5. ms \in Seq(Messages)
    <2>1. DOMAIN s = 1 .. Len(s) /\ Len(s) \in Nat
      OBVIOUS
    <2>2. ms = [i \in 1 .. Len(s) |-> m(i)]
      BY <2>1, Zenon DEF CallMessages
    <2> HIDE DEF ms, m
    <2> QED
      BY <1>4, <2>1, <2>2
  <1>6. \A w \in Elements(ms) : w.type = "Call" /\ w.target = target /\ w.call \in Elements(s)
    BY <1>1, <1>3 DEF Elements
  <1>7. ASSUME NEW h, Ordered(s, Earlier), NEW i \in DOMAIN s, NEW j \in DOMAIN s, i < j
        PROVE  FrontToHolder(h, m(i), m(j)) /\ FrontToOwner(h, m(i), m(j))
    <2>1. <<s[i], s[j]>> \in Earlier
      BY <1>7, Zenon DEF Ordered
    <2>2. s[i].n < s[j].n
      BY <1>1, <2>1, CallOrders, Zenon
    <2> QED
      BY <2>2 DEF FrontToHolder, FrontToOwner, IsCall, IsSender, IsReceiver
  <1>8. ASSUME NEW h, Ordered(s, Earlier), NEW i \in DOMAIN s, NEW j \in DOMAIN s, i < j
        PROVE  <<m(i), m(j)>> \in HolderOrder(h) /\ <<m(i), m(j)>> \in OwnerOrder(h)
    <2> HIDE DEF m
    <2> QED
      BY <1>4, <1>7, <1>8, Orders, Zenon
  <1>9. \A h : Ordered(s, Earlier) => Ordered(ms, HolderOrder(h)) /\ Ordered(ms, OwnerOrder(h))
    <2> HIDE DEF m, ms
    <2> QED
      BY <1>3, <1>8, Zenon DEF Ordered
  <1> QED
    BY <1>5, <1>6, <1>9

\* A step adds to the calls of u that have arrived.
Grows(u) == \E w \in Seq(1 .. MaxCalls) : arrived'[u] = arrived[u] \o w

\* Calls that are in order, and behind those that have arrived, arrive.
LEMMA Arrive ==
    ASSUME Typed, NEW h \in Vats, NEW o, Waiting(h, o), NEW s \in Seq(Calls), Ordered(s, Earlier),
           \A c \in Elements(s) : c.from = h /\ AfterArrived(h, c.n),
           arrived'[h] = arrived[h] \o NumbersOf(s, h)
    PROVE  /\ arrived'[h] \in Seq(1 .. MaxCalls) /\ Ordered(arrived'[h], Below) /\ Grows(h)
           /\ \A a \in Elements(arrived'[h]) : a \in Elements(arrived[h]) \/ \E c \in Elements(s) : a = c.n
  <1> DEFINE t == NumbersOf(s, h)
             old == arrived[h]
             V == 1 .. MaxCalls
  <1>1. t \in Seq(V) /\ DOMAIN t = DOMAIN s /\ \A i \in DOMAIN s : t[i] = s[i].n
    <2>1. \A i \in DOMAIN s : s[i].from = h
      BY Zenon DEF Elements
    <2> QED
      BY <2>1, NumbersAll, Zenon
  <1>2. old \in Seq(V) /\ Ordered(old, Below)
    BY DEF Typed, TypeOK, Waiting
  <1>3. \A i \in DOMAIN s : s[i] \in Calls /\ s[i] \in Elements(s)
    BY SeqElements, Zenon DEF Elements
  <1>4. Elements(t) \subseteq V /\ Elements(old) \subseteq V
    BY <1>1, <1>2, ElementsIn, Zenon
  <1> HIDE DEF t, old, V
  <1>5. \A a \in Elements(t) : \E c \in Elements(s) : a = c.n
    BY <1>1, <1>3, Zenon DEF Elements
  <1>6. Ordered(t, Below)
    <2> SUFFICES ASSUME NEW i \in DOMAIN t, NEW j \in DOMAIN t, i < j PROVE <<t[i], t[j]>> \in Below
      BY Zenon DEF Ordered
    <2>1. <<s[i], s[j]>> \in Earlier
      BY <1>1, Zenon DEF Ordered
    <2>2. t[i] < t[j]
      BY <1>1, <1>3, <2>1, CallOrders, Zenon
    <2>3. t[i] \in 1 .. MaxCalls /\ t[j] \in 1 .. MaxCalls
      BY <1>1, SeqElements, Zenon DEF V
    <2> QED
      BY <2>2, <2>3, CallOrders, Zenon
  <1>7. Ahead(old, t, Below)
    <2> SUFFICES ASSUME NEW a \in Elements(old), NEW b \in Elements(t) PROVE <<a, b>> \in Below
      BY Zenon DEF Ahead
    <2>1. a < b
      BY <1>5, Zenon DEF AfterArrived, old
    <2> QED
      BY <1>4, <2>1, CallOrders, Zenon DEF V
  <1>8. old \o t \in Seq(V) /\ Ordered(old \o t, Below) /\ Elements(old \o t) \subseteq Elements(old) \cup Elements(t)
    BY <1>1, <1>2, <1>6, <1>7, ConcatOrdered, ConcatOf, Zenon
  <1>9. arrived'[h] = old \o t
    BY DEF old, t
  <1> QED
    BY <1>1, <1>5, <1>8, <1>9, Zenon DEF Grows, old, V
----------------------------------------------------------------------------
(* The steps of a vat x, whose peer is y *)

\* What is to be shown of the step.
LEMMA Kept ==
    ASSUME NEW x, NEW y, Peers(x, y), Typed', NoProtocolError', Promise(x, y)', Promise(y, x)'
    PROVE  EInv'
  <1>1. Peer(x) = y /\ Peer(y) = x /\ \A w \in Vats : w = x \/ w = y
    BY Zenon DEF Peers
  <1>2. \A h \in Vats : Promise(h, Peer(h))'
    BY <1>1, Zenon
  <1> QED
    BY <1>2, Zenon DEF EInv

\* The types of the variables, one by one.
LEMMA Types ==
    TypeOK <=>
    /\ conn \in [Vats -> BOOLEAN] /\ is_resolved \in [Vats -> BOOLEAN]
    /\ received_call \in [Vats -> BOOLEAN] /\ resolve_op \in [Vats -> BOOLEAN]
    /\ queue \in [Vats -> Seq(Calls)] /\ held \in [Vats -> Seq(Calls)]
    /\ client_hook \in [Vats -> Caps] /\ cap \in [Vats -> Caps]
    /\ redirect \in [Vats -> Caps \cup {None}] /\ response \in [Vats -> Caps \cup {None}]
    /\ replacement \in [Vats -> Caps \cup {None}] /\ echo \in [Vats -> Caps \cup {None}]
    /\ embargo \in [Vats -> {"none", "waiting", "fulfilled", "lifted", "failing", "broken"}]
    /\ failed \subseteq Vats /\ panicked \subseteq Vats
    /\ made \in [Vats -> 0 .. MaxCalls] /\ arrived \in [Vats -> Seq(1 .. MaxCalls)]
  BY Zenon DEF TypeOK

\* And after the step.
LEMMA TypesNext ==
    ASSUME conn' \in [Vats -> BOOLEAN], is_resolved' \in [Vats -> BOOLEAN],
           received_call' \in [Vats -> BOOLEAN], resolve_op' \in [Vats -> BOOLEAN],
           queue' \in [Vats -> Seq(Calls)], held' \in [Vats -> Seq(Calls)],
           client_hook' \in [Vats -> Caps], cap' \in [Vats -> Caps],
           redirect' \in [Vats -> Caps \cup {None}], response' \in [Vats -> Caps \cup {None}],
           replacement' \in [Vats -> Caps \cup {None}], echo' \in [Vats -> Caps \cup {None}],
           embargo' \in [Vats -> {"none", "waiting", "fulfilled", "lifted", "failing", "broken"}],
           failed' \subseteq Vats, panicked' \subseteq Vats,
           made' \in [Vats -> 0 .. MaxCalls], arrived' \in [Vats -> Seq(1 .. MaxCalls)],
           net' \in [Vats -> Seq(Messages)], kind' \in [Vats -> {"export", "answer"}]
    PROVE  Typed'
  BY Zenon DEF Typed, TypeOK

\* A Return brings what the promise is resolved to.
LEMMA HandleReturnKeeps ==
    ASSUME Typed, NoProtocolError, NEW x \in Vats, NEW y \in Vats, Peers(x, y), Promise(x, y), Promise(y, x),
           HandleReturn(x)
    PROVE  EInv' /\ arrived' = arrived
  <1> DEFINE m == Head(net[x])
  <1>1. /\ net[x] # << >> /\ m.type = "Return"
        /\ net' = [net EXCEPT ![x] = Tail(@)] /\ response' = [response EXCEPT ![x] = ReceiveCap(x, m.cap)]
        /\ UNCHANGED <<kind, conn, queue, redirect, client_hook, resolve_op, is_resolved, cap, received_call,
                       embargo, replacement, echo, held, failed, panicked, made, arrived>>
    BY DEF HandleReturn, Receives, Rest, promise_vars, embargo_vars
  <1>2. x # y /\ net \in [Vats -> Seq(Messages)] /\ net[x] \in Seq(Messages)
    BY DEF Peers, Typed
  <1>3. m \in Elements(net[x]) /\ Tail(net[x]) \in Seq(Messages)
    BY <1>1, <1>2, TailOf
  <1>4. kind[y] = "answer" /\ redirect[y] # None /\ m.cap = DescriptorOf(redirect[y])
    BY <1>1, <1>3, Zenon DEF Promise, Streams, ToHolder
  <1>5. redirect[y] \in {"object", "remote_object"}
    BY <1>4 DEF Promise, Agree
  <1>6. /\ redirect[y] = "object" => ReceiveCap(x, m.cap) = "remote_object"
        /\ redirect[y] = "remote_object" => ReceiveCap(x, m.cap) = "object"
    BY <1>4 DEF ReceiveCap, DescriptorOf
  <1> HIDE DEF m
  <1>7. response \in [Vats -> Caps \cup {None}]
    BY Types DEF Typed
  <1>8. Agree(x, y)'
    BY <1>1, <1>4, <1>5, <1>6, <1>7, NoneAssumption DEF Promise, Agree, Unsettled, Caps
  <1>9. UNCHANGED Core(x, y) /\ UNCHANGED Core(y, x)
    BY <1>1 DEF Core
  <1>10. net'[x] = Tail(net[x]) /\ net'[y] = net[y]
    BY <1>1, <1>2
  <1>11. << >> \in Seq(Messages) /\ \A w \in Elements(<< >>) : OtherOwned(x, w) /\ Other(y, w)
    BY EmptyElements
  <1>12. Promise(x, y)'
    BY <1>1, <1>8, <1>9, <1>10, <1>11, HolderElsewhere, Zenon
  <1>13. Agree(y, x)'
    BY <1>1, <1>2, <1>7, <1>9, SameAgree DEF Promise
  <1>14. Promise(y, x)'
    BY <1>1, <1>9, <1>10, <1>11, <1>13, OwnerElsewhere, Zenon
  <1>15. Typed'
    <2>1. response' \in [Vats -> Caps \cup {None}] /\ net' \in [Vats -> Seq(Messages)]
      BY <1>1, <1>2, <1>3, <1>5, <1>6, <1>7 DEF Caps
    <2> QED
      BY <1>1, <2>1, Types, TypesNext, Zenon DEF Typed
  <1> QED
    BY <1>1, <1>12, <1>14, <1>15, Kept DEF NoProtocolError

\* No messages.
LEMMA NoMessages ==
    ASSUME NEW x, NEW y
    PROVE  << >> \in Seq(Messages) /\ (\A w \in Elements(<< >>) : OtherOwned(x, w)) /\ (\A w \in Elements(<< >>) : Other(y, w))
  BY EmptyElements

\* A Disembargo of the holder's own has come round: there is an embargo, and
\* no call is on its way any more.
LEMMA HandleReceiverLoopbackKeeps ==
    ASSUME Typed, NoProtocolError, NEW x \in Vats, NEW y \in Vats, Peers(x, y), Promise(x, y), Promise(y, x),
           HandleReceiverLoopback(x)
    PROVE  EInv' /\ arrived' = arrived
  <1> DEFINE m == Head(net[x])
  <1>1. net[x] # << >> /\ IsReceiver(m) /\ conn[x] = TRUE
    BY DEF HandleReceiverLoopback, Receives, IsReceiver, Typed, TypeOK
  <1>2. x # y /\ net \in [Vats -> Seq(Messages)] /\ net[x] \in Seq(Messages) /\ net[y] \in Seq(Messages)
    BY DEF Peers, Typed
  <1>3. /\ m \in Elements(net[x]) /\ Tail(net[x]) \in Seq(Messages) /\ Lined(x, Tail(net[x]), net[y])
        /\ Elements(Tail(net[x])) \subseteq Elements(net[x])
        /\ \A w \in Elements(Tail(net[x])) : FrontToHolder(x, m, w)
        /\ \A w \in Elements(net[y]) : FrontAcross(x, m, w)
    <2>1. Lined(x, net[x], net[y])
      BY DEF Promise, Streams
    <2> QED
      BY <1>1, <1>2, <2>1, HolderReads, TailOf, Zenon
  <1>4. Unsettled(x) /\ echo[y] = None
    BY <1>1, <1>3, Zenon DEF Promise, Streams, ToHolder
  <1>5. embargo[x] = "waiting"
    BY <1>1, <1>4 DEF Promise, Agree, Unsettled
  <1>6. /\ net' = [net EXCEPT ![x] = Tail(@)] /\ embargo' = [embargo EXCEPT ![x] = "fulfilled"]
        /\ UNCHANGED <<kind, conn, queue, redirect, client_hook, resolve_op, is_resolved, cap, response,
                       received_call, replacement, echo, held, failed, panicked, made, arrived>>
    BY <1>5 DEF HandleReceiverLoopback, Rest, promise_vars, client_vars
  <1>7. embargo'[x] = "fulfilled" /\ embargo'[y] = embargo[y] /\ net'[x] = Tail(net[x]) /\ net'[y] = net[y]
    BY <1>2, <1>6 DEF Typed, TypeOK
  <1>8. Agree(x, y)'
    BY <1>4, <1>5, <1>6, <1>7 DEF Promise, Agree, Unsettled
  <1>9. Waiting(x, y)'
    BY <1>5, <1>6, <1>7, Zenon DEF Promise, Waiting, AfterArrived
  <1>10. \A w \in Elements(net'[x]) : ToHolder(x, y, w)'
    <2>1. \A w \in Elements(net'[x]) : ToHolder(x, y, w) /\ FrontToHolder(x, m, w)
      BY <1>3, <1>7, Zenon DEF Promise, Streams
    <2>2. \A w \in Elements(net'[x]) : ~ IsCall(w, x) /\ ~ IsReceiver(w)
      BY <1>1, <2>1, Zenon DEF FrontToHolder
    <2> QED
      BY <1>6, <2>1, <2>2, Zenon DEF ToHolder
  <1>11. \A w \in Elements(net'[y]) : ToOwner(x, y, w)'
    <2>1. \A w \in Elements(net'[y]) : ~ IsCall(w, x) /\ ~ IsSender(w)
      BY <1>1, <1>3, <1>7, Zenon DEF FrontAcross
    <2> QED
      BY <2>1, Zenon DEF ToOwner
  <1>12. Promise(x, y)'
    BY <1>3, <1>7, <1>8, <1>9, <1>10, <1>11, Zenon DEF Promise, Streams
  <1>13. Promise(y, x)'
    <2>1. UNCHANGED Core(y, x)
      BY <1>6, <1>7 DEF Core
    <2>2. Agree(y, x)'
      BY <1>6, <2>1, SameAgree DEF Promise
    <2> QED
      BY <1>1, <1>7, <2>1, <2>2, NoMessages, OwnerElsewhere, Zenon
  <1>14. Typed'
    <2>1. embargo' \in [Vats -> {"none", "waiting", "fulfilled", "lifted", "failing", "broken"}]
          /\ net' \in [Vats -> Seq(Messages)]
      BY <1>2, <1>3, <1>6 DEF Typed, TypeOK
    <2> QED
      BY <1>6, <2>1, Types, TypesNext DEF Typed
  <1> QED
    BY <1>6, <1>12, <1>13, <1>14, Kept DEF NoProtocolError

\* What the promise is resolved to is where the calls addressed to it go.
LEMMA HookLeads ==
    ASSUME NEW x, NEW y, Agree(y, x), redirect[x] # None, Typed
    PROVE  /\ redirect[x] \in {"object", "remote_object"} /\ client_hook[x] \in {"own", redirect[x]}
           /\ Innermost(x, client_hook[x]) = redirect[x] /\ Innermost(x, redirect[x]) = redirect[x]
           /\ \A i \in 1 .. 4 : Path(x, client_hook[x])[i] \in {"own", redirect[x]}
  <1>1. redirect[x] \in {"object", "remote_object"} /\ client_hook[x] \in {"own", redirect[x]}
    BY DEF Agree
  <1>2. Innermost(x, redirect[x]) = redirect[x] /\ \A i \in 1 .. 4 : Path(x, redirect[x])[i] = redirect[x]
    BY <1>1, PathOfObject
  <1>3. Innermost(x, "own") = redirect[x] /\ \A i \in 1 .. 4 : Path(x, "own")[i] \in {"own", redirect[x]}
    BY <1>1, PathOfOwn
  <1> QED
    BY <1>1, <1>2, <1>3, Zenon

\* The holder's Disembargo has reached the owner, whose promise leads back; the
\* calls in front of it have been forwarded.
LEMMA HandleSenderLoopbackKeeps ==
    ASSUME Typed, NoProtocolError, NEW x \in Vats, NEW y \in Vats, Peers(x, y), Promise(x, y), Promise(y, x),
           HandleSenderLoopback(x)
    PROVE  EInv' /\ arrived' = arrived
  <1> DEFINE m == Head(net[x])
  <1>1. net[x] # << >> /\ IsSender(m)
    BY DEF HandleSenderLoopback, Receives, IsSender
  <1>2. x # y /\ net \in [Vats -> Seq(Messages)] /\ net[x] \in Seq(Messages) /\ net[y] \in Seq(Messages)
    BY DEF Peers, Typed
  <1>3. /\ m \in Elements(net[x]) /\ Tail(net[x]) \in Seq(Messages) /\ Lined(y, net[y], Tail(net[x]))
        /\ Elements(Tail(net[x])) \subseteq Elements(net[x])
        /\ \A w \in Elements(Tail(net[x])) : FrontToOwner(y, m, w)
        /\ \A w \in Elements(net[y]) : FrontAcross(y, w, m)
    <2>1. Lined(y, net[y], net[x])
      BY DEF Promise, Streams
    <2> QED
      BY <1>1, <1>2, <2>1, OwnerReads, TailOf, Zenon
  <1>4. Unsettled(y) /\ echo[x] = None
    BY <1>1, <1>3, Zenon DEF Promise, Streams, ToOwner
  <1>5. redirect[x] = "remote_object"
    BY <1>4 DEF Promise, Agree, Unsettled
  <1>6. Innermost(x, client_hook[x]) = "remote_object"
    BY <1>5, HookLeads, NoneAssumption DEF Promise, Caps
  <1>7. /\ net' = [net EXCEPT ![x] = Tail(@)] /\ echo' = [echo EXCEPT ![x] = "remote_object"]
        /\ UNCHANGED <<kind, conn, queue, redirect, client_hook, resolve_op, is_resolved, cap, response,
                       received_call, replacement, embargo, held, failed, panicked, made, arrived>>
    BY <1>6 DEF HandleSenderLoopback, Remote, Rest, promise_vars, client_vars
  <1>8. echo'[x] = "remote_object" /\ echo'[y] = echo[y] /\ net'[x] = Tail(net[x]) /\ net'[y] = net[y]
    BY <1>2, <1>7, Types DEF Typed
  <1>9. Agree(y, x)'
    BY <1>4, <1>7, <1>8 DEF Promise, Agree, Unsettled
  <1>10. Waiting(y, x)'
    BY <1>7, Zenon DEF Promise, Waiting, AfterArrived
  <1>11. \A w \in Elements(net'[x]) : ToOwner(y, x, w)'
    <2>1. \A w \in Elements(net'[x]) : ~ IsCall(w, y) /\ ~ IsSender(w)
      BY <1>1, <1>3, <1>8, Zenon DEF FrontToOwner
    <2> QED
      BY <2>1, Zenon DEF ToOwner
  <1>12. \A w \in Elements(net'[y]) : ToHolder(y, x, w)'
    <2>1. \A w \in Elements(net'[y]) : ToHolder(y, x, w) /\ ~ IsReceiver(w)
      BY <1>1, <1>3, <1>8, Zenon DEF FrontAcross, Promise, Streams
    <2> QED
      BY <1>7, <2>1, Zenon DEF ToHolder, AfterArrived, BeforeHeld, Settled, Direct
  <1>13. Promise(y, x)'
    BY <1>3, <1>8, <1>9, <1>10, <1>11, <1>12, Zenon DEF Promise, Streams
  <1>14. Promise(x, y)'
    <2>1. UNCHANGED Core(x, y)
      BY <1>7, <1>8 DEF Core
    <2>2. Agree(x, y)'
      BY <1>7, <2>1, SameAgree DEF Promise
    <2> QED
      BY <1>1, <1>8, <2>1, <2>2, NoMessages, HolderElsewhere, Zenon
  <1>15. Typed'
    <2>1. echo' \in [Vats -> Caps \cup {None}] /\ net' \in [Vats -> Seq(Messages)]
      BY <1>2, <1>3, <1>7, Types DEF Typed, Caps
    <2> QED
      BY <1>7, <2>1, Types, TypesNext, Zenon DEF Typed
  <1> QED
    BY <1>7, <1>13, <1>14, <1>15, Kept DEF NoProtocolError

\* What is sent goes to the peer, while there is a connection.
LEMMA SentIs ==
    ASSUME NEW x \in Vats, NEW y \in Vats, Peers(x, y), NEW streams \in [Vats -> Seq(Messages)],
           NEW ms \in Seq(Messages)
    PROVE  /\ Sent(streams, x, ms) \in [Vats -> Seq(Messages)] /\ Sent(streams, x, ms)[x] = streams[x]
           /\ Sent(streams, x, ms)[y] = streams[y] \/ Sent(streams, x, ms)[y] = streams[y] \o ms
           /\ conn[x] = TRUE => Sent(streams, x, ms)[y] = streams[y] \o ms
           /\ conn[x] = FALSE => Sent(streams, x, ms) = streams
  <1> DEFINE Is == /\ Sent(streams, x, ms) \in [Vats -> Seq(Messages)] /\ Sent(streams, x, ms)[x] = streams[x]
                   /\ Sent(streams, x, ms)[y] = streams[y] \/ Sent(streams, x, ms)[y] = streams[y] \o ms
                   /\ conn[x] = TRUE => Sent(streams, x, ms)[y] = streams[y] \o ms
                   /\ conn[x] = FALSE => Sent(streams, x, ms) = streams
  <1>1. x # y /\ Peer(x) = y
    BY DEF Peers
  <1>2. streams[y] \o ms \in Seq(Messages)
    BY ConcatOf
  <1>3. ASSUME conn[x] PROVE Is
    BY <1>1, <1>2, <1>3 DEF Sent
  <1>4. ASSUME ~ conn[x] PROVE Is
    BY <1>1, <1>2, <1>4 DEF Sent
  <1>5. Is
    <2> HIDE DEF Is
    <2> QED
      BY <1>3, <1>4, Zenon
  <1> QED
    BY <1>5, Zenon

\* One message is sent.
LEMMA SentOne ==
    ASSUME NEW x \in Vats, NEW y \in Vats, Peers(x, y), NEW streams \in [Vats -> Seq(Messages)],
           NEW r \in Messages, net' = Sent(streams, x, <<r>>)
    PROVE  /\ net' \in [Vats -> Seq(Messages)] /\ net'[x] = streams[x]
           /\ net'[y] = streams[y] \/ net'[y] = streams[y] \o <<r>>
           /\ conn[x] = TRUE => net'[y] = streams[y] \o <<r>>
  <1> DEFINE ms == <<r>>
  <1>1. ms \in Seq(Messages) /\ net' = Sent(streams, x, ms)
    OBVIOUS
  <1> HIDE DEF ms
  <1>2. /\ Sent(streams, x, ms) \in [Vats -> Seq(Messages)] /\ Sent(streams, x, ms)[x] = streams[x]
        /\ Sent(streams, x, ms)[y] = streams[y] \/ Sent(streams, x, ms)[y] = streams[y] \o ms
        /\ conn[x] = TRUE => Sent(streams, x, ms)[y] = streams[y] \o ms
        /\ conn[x] = FALSE => Sent(streams, x, ms) = streams
    BY <1>1, SentIs, Zenon
  <1> QED
    BY <1>1, <1>2, Zenon DEF ms

\* The owner sends the Disembargo back, behind the calls it has forwarded.
LEMMA EchoKeeps ==
    ASSUME Typed, NoProtocolError, NEW x \in Vats, NEW y \in Vats, Peers(x, y), Promise(x, y), Promise(y, x),
           Echo(x)
    PROVE  EInv' /\ arrived' = arrived
  <1> DEFINE r == Loopback("receiver")
  <1>1. x # y /\ net \in [Vats -> Seq(Messages)] /\ net[x] \in Seq(Messages) /\ net[y] \in Seq(Messages)
        /\ conn[x] \in BOOLEAN /\ received_call \in [Vats -> BOOLEAN] /\ echo \in [Vats -> Caps \cup {None}]
    BY Types DEF Peers, Typed
  <1>2. echo[x] = "remote_object" /\ Unsettled(y)
    BY DEF Echo, Promise, Agree
  <1>3. Innermost(x, echo[x]) = "remote_object"
    BY <1>2, PathOfObject
  <1>4. /\ echo' = [echo EXCEPT ![x] = None] /\ net' = Sent(net, x, <<r>>)
        /\ received_call' = [received_call EXCEPT ![x] = @ \/ echo[x] = "promise"]
        /\ UNCHANGED <<kind, conn, queue, redirect, client_hook, resolve_op, is_resolved, cap, response,
                       replacement, embargo, held, failed, panicked, made, arrived>>
    BY <1>3 DEF Echo, Remote, promise_vars, client_vars
  <1>5. received_call' = received_call
    BY <1>1, <1>2, <1>4
  <1>6. r \in Messages /\ IsReceiver(r) /\ ~ IsSender(r) /\ r.type = "Disembargo"
    BY DEF Loopback, Messages, IsReceiver, IsSender
  <1>7. /\ <<r>> \in Seq(Messages) /\ Elements(<<r>>) = {r} /\ Ordered(<<r>>, HolderOrder(y))
    BY <1>6, OneElement
  <1> HIDE DEF r
  <1>8. /\ net' \in [Vats -> Seq(Messages)] /\ net'[x] = net[x]
        /\ net'[y] = net[y] \/ net'[y] = net[y] \o <<r>>
    BY <1>1, <1>4, <1>6, SentOne, Zenon
  <1>9. echo'[x] = None /\ echo'[y] = echo[y]
    BY <1>1, <1>4
  <1>10. Agree(y, x)'
    BY <1>4, <1>5, <1>9 DEF Promise, Agree, Unsettled
  <1>11. Waiting(y, x)'
    BY <1>4, Zenon DEF Promise, Waiting, AfterArrived
  <1>12. echo[x] # None
    BY <1>2, NoneAssumption DEF Caps
  <1>13. /\ \A w \in Elements(net[x]) : ToOwner(y, x, w) /\ ~ IsCall(w, y) /\ ~ IsSender(w)
         /\ \A w \in Elements(net[y]) : ToHolder(y, x, w) /\ ~ IsReceiver(w)
    BY <1>12, Zenon DEF Promise, Streams, ToOwner, ToHolder
  <1>14. \A w \in Elements(net'[x]) : ToOwner(y, x, w)'
    BY <1>8, <1>13, Zenon DEF ToOwner
  <1>15. Lined(y, net'[y], net'[x]) /\ Elements(net'[y]) \subseteq Elements(net[y]) \cup {r}
    <2>1. Lined(y, net[y], net[x])
      BY Zenon DEF Promise, Streams
    <2>2. ~ IsCall(r, y) /\ r.type # "Resolve"
      BY <1>6 DEF IsCall
    <2>3. \A w \in Elements(net[y]), v \in Elements(<<r>>) : FrontToHolder(y, w, v)
      BY <1>7, <1>13, <2>2, Zenon DEF FrontToHolder
    <2>4. \A v \in Elements(<<r>>), w \in Elements(net[x]) : FrontAcross(y, v, w)
      BY <1>13, <1>7, <2>2, Zenon DEF FrontAcross
    <2>5. Lined(y, net[y] \o <<r>>, net[x])
      BY <1>1, <1>7, <2>1, <2>3, <2>4, SentToHolder, Zenon
    <2>6. Elements(net[y] \o <<r>>) \subseteq Elements(net[y]) \cup {r}
      BY <1>1, <1>7, ConcatOf, Zenon
    <2> QED
      BY <1>8, <2>1, <2>5, <2>6, Zenon
  <1>16. ToHolder(y, x, r)'
    <2>1. ~ IsCall(r, y) /\ r.type # "Resolve" /\ r.type # "Return"
      BY <1>6 DEF IsCall
    <2> QED
      BY <1>2, <1>4, <1>9, <2>1, Zenon DEF ToHolder, Unsettled
  <1>17. \A w \in Elements(net'[y]) : ToHolder(y, x, w)'
    <2>1. \A w \in Elements(net[y]) : ToHolder(y, x, w)'
      BY <1>4, <1>13, Zenon DEF ToHolder, AfterArrived, BeforeHeld, Settled, Direct
    <2> QED
      BY <1>15, <1>16, <2>1, Zenon
  <1>18. Promise(y, x)'
    BY <1>10, <1>11, <1>14, <1>15, <1>17, Zenon DEF Promise, Streams
  <1>19. Promise(x, y)'
    <2>1. UNCHANGED Core(x, y)
      BY <1>4, <1>9 DEF Core
    <2>2. Agree(x, y)'
      BY <1>4, <1>5, <2>1, SameAgree DEF Promise
    <2>3. \A w \in Elements(<<r>>) : OtherOwned(x, w)
      BY <1>6, <1>7 DEF OtherOwned, IsCall
    <2> QED
      BY <1>7, <1>8, <2>1, <2>2, <2>3, HolderElsewhere, Zenon
  <1>20. Typed'
    <2>1. echo' \in [Vats -> Caps \cup {None}]
      BY <1>1, <1>4
    <2> QED
      BY <1>4, <1>5, <1>8, <2>1, Types, TypesNext, Zenon DEF Typed
  <1> QED
    BY <1>4, <1>18, <1>19, <1>20, Kept DEF NoProtocolError

\* The owner of an exported promise sends the one Resolve there is.
LEMMA ResolveExportedPromiseKeeps ==
    ASSUME Typed, NoProtocolError, NEW x \in Vats, NEW y \in Vats, Peers(x, y), Promise(x, y), Promise(y, x),
           ResolveExportedPromise(x)
    PROVE  EInv' /\ arrived' = arrived
  <1>0. PICK r : r = [type |-> "Resolve", cap |-> DescriptorOf(redirect[x])]
    BY Zenon
  <1>1. x # y /\ net \in [Vats -> Seq(Messages)] /\ net[x] \in Seq(Messages) /\ net[y] \in Seq(Messages)
        /\ received_call \in [Vats -> BOOLEAN] /\ resolve_op \in [Vats -> BOOLEAN] /\ client_hook \in [Vats -> Caps]
    BY Types DEF Peers, Typed
  <1>2. redirect[x] # None /\ resolve_op[x] = TRUE
    BY <1>1 DEF ResolveExportedPromise
  <1>3. /\ redirect[x] \in {"object", "remote_object"} /\ Innermost(x, redirect[x]) = redirect[x]
    BY <1>2, HookLeads DEF Promise
  <1>4. Descriptor(x, redirect[x]) = DescriptorOf(redirect[x])
    BY <1>3 DEF Descriptor, DescriptorOf
  <1>5. /\ resolve_op' = [resolve_op EXCEPT ![x] = FALSE] /\ client_hook' = [client_hook EXCEPT ![x] = redirect[x]]
        /\ net' = Sent(net, x, <<r>>)
        /\ received_call' = [received_call EXCEPT ![x] = @ \/ redirect[x] = "promise"]
        /\ UNCHANGED <<kind, conn, queue, redirect, is_resolved, cap, response,
                       replacement, embargo, echo, held, failed, panicked, made, arrived>>
    BY <1>0, <1>3, <1>4 DEF ResolveExportedPromise, client_vars, embargo_vars
  <1>6. received_call' = received_call
    BY <1>1, <1>3, <1>5
  <1>7. r \in Messages /\ r.type = "Resolve" /\ r.cap = DescriptorOf(redirect[x])
    BY <1>0, <1>3 DEF Messages, DescriptorOf
  <1>8. /\ <<r>> \in Seq(Messages) /\ Elements(<<r>>) = {r} /\ Ordered(<<r>>, HolderOrder(y))
    BY <1>7, OneElement
  <1>9. /\ net' \in [Vats -> Seq(Messages)] /\ net'[x] = net[x]
        /\ net'[y] = net[y] \/ net'[y] = net[y] \o <<r>>
    BY <1>1, <1>5, <1>7, SentOne, Zenon
  <1>10. /\ resolve_op'[x] = FALSE /\ resolve_op'[y] = resolve_op[y]
         /\ client_hook'[x] = redirect[x] /\ client_hook'[y] = client_hook[y]
    BY <1>1, <1>5, Zenon
  <1>11. Agree(y, x)'
    BY <1>2, <1>5, <1>6, <1>10 DEF Promise, Agree, Unsettled
  <1>12. Waiting(y, x)'
    BY <1>5, Zenon DEF Promise, Waiting, AfterArrived
  <1>13. \A w \in Elements(net'[x]) : ToOwner(y, x, w)'
    BY <1>5, <1>9, Zenon DEF Promise, Streams, ToOwner, AfterArrived, BeforeHeld, AfterQueued, Settled,
                             Unsettled, Direct
  <1>14. \A w \in Elements(net[y]) : ToHolder(y, x, w) /\ w.type # "Resolve"
    BY <1>2 DEF Promise, Streams, ToHolder
  <1>15. ~ IsCall(r, y) /\ ~ IsReceiver(r) /\ r.type # "Return" /\ ~ IsCall(r, x) /\ ~ IsSender(r)
    BY <1>7 DEF IsCall, IsReceiver, IsSender
  <1>16. Lined(y, net'[y], net'[x]) /\ Elements(net'[y]) \subseteq Elements(net[y]) \cup {r}
    <2>1. Lined(y, net[y], net[x])
      BY Zenon DEF Promise, Streams
    <2>2. \A w \in Elements(net[y]), v \in Elements(<<r>>) : FrontToHolder(y, w, v)
      BY <1>8, <1>14, <1>15, Zenon DEF FrontToHolder
    <2>3. \A v \in Elements(<<r>>), w \in Elements(net[x]) : FrontAcross(y, v, w)
      BY <1>8, <1>15, Zenon DEF FrontAcross
    <2>4. Lined(y, net[y] \o <<r>>, net[x])
      BY <1>1, <1>8, <2>1, <2>2, <2>3, SentToHolder, Zenon
    <2>5. Elements(net[y] \o <<r>>) \subseteq Elements(net[y]) \cup {r}
      BY <1>1, <1>8, ConcatOf, Zenon
    <2> QED
      BY <1>9, <2>1, <2>4, <2>5, Zenon
  <1>17. ToHolder(y, x, r)'
    <2>1. kind[x] = "export" /\ (conn[y] = TRUE => is_resolved[y] = FALSE)
      BY <1>2 DEF Promise, Agree
    <2> QED
      BY <1>2, <1>5, <1>7, <1>10, <1>15, <2>1, Zenon DEF ToHolder
  <1>18. \A w \in Elements(net'[y]) : ToHolder(y, x, w)'
    <2>1. \A w \in Elements(net[y]) : ToHolder(y, x, w)'
      BY <1>5, <1>14, Zenon DEF ToHolder, AfterArrived, BeforeHeld, Settled, Unsettled, Direct
    <2> QED
      BY <1>16, <1>17, <2>1, Zenon
  <1>19. Promise(y, x)'
    BY <1>11, <1>12, <1>13, <1>16, <1>18, Zenon DEF Promise, Streams
  <1>20. Promise(x, y)'
    <2>1. UNCHANGED Core(x, y)
      BY <1>5, <1>10, Zenon DEF Core
    <2>2. Agree(x, y)'
      BY <1>5, <1>6, <1>10, <2>1, SameAgree DEF Promise
    <2>3. \A w \in Elements(<<r>>) : OtherOwned(x, w)
      BY <1>8, <1>15, Zenon DEF OtherOwned
    <2> QED
      BY <1>8, <1>9, <2>1, <2>2, <2>3, HolderElsewhere, Zenon
  <1>21. Typed'
    <2>1. resolve_op' \in [Vats -> BOOLEAN] /\ client_hook' \in [Vats -> Caps]
      BY <1>1, <1>3, <1>5 DEF Caps
    <2> QED
      BY <1>5, <1>6, <1>9, <2>1, Types, TypesNext, Zenon DEF Typed
  <1> QED
    BY <1>5, <1>19, <1>20, <1>21, Kept DEF NoProtocolError

\* A step may read the first message.
Reads(x, streams) ==
    /\ streams \in [Vats -> Seq(Messages)]
    /\ streams[x] = net[x] \/ (net[x] # << >> /\ streams[x] = Tail(net[x]))
    /\ \A w \in Vats : w # x => streams[w] = net[w]

\* The streams without the first message.
LEMMA RestReads == ASSUME Typed, NEW x \in Vats, net[x] # << >> PROVE Reads(x, Rest(x)) /\ Rest(x)[x] = Tail(net[x])
  <1>1. net \in [Vats -> Seq(Messages)] /\ Tail(net[x]) \in Seq(Messages)
    BY TailOf DEF Typed
  <1> QED
    BY <1>1 DEF Reads, Rest

\* A vat disconnects: whatever waits for the peer now waits for nothing, and
\* nothing else is sent.
LEMMA DisconnectKeeps ==
    ASSUME Typed, NoProtocolError, NEW x \in Vats, NEW y \in Vats, Peers(x, y), Promise(x, y), Promise(y, x),
           NEW streams, Reads(x, streams), Disconnect(x, streams), UNCHANGED failed
    PROVE  EInv' /\ arrived' = arrived
  <1> DEFINE r == [type |-> "Abort"]
             answer == kind[y] = "answer"
  <1>1. x # y /\ Peer(x) = y /\ streams \in [Vats -> Seq(Messages)] /\ streams[y] = net[y]
        /\ (streams[x] = net[x] \/ (net[x] # << >> /\ streams[x] = Tail(net[x])))
    BY DEF Peers, Reads
  <1>2. /\ conn \in [Vats -> BOOLEAN] /\ resolve_op \in [Vats -> BOOLEAN] /\ is_resolved \in [Vats -> BOOLEAN]
        /\ response \in [Vats -> Caps \cup {None}] /\ cap \in [Vats -> Caps]
        /\ embargo \in [Vats -> {"none", "waiting", "fulfilled", "lifted", "failing", "broken"}]
    BY Types DEF Typed
  <1>3. /\ conn' = [conn EXCEPT ![x] = FALSE] /\ net' = Sent(streams, x, <<r>>)
        /\ resolve_op' = [resolve_op EXCEPT ![x] = FALSE]
        /\ response' = [response EXCEPT ![x] = IF answer /\ @ = None THEN "broken" ELSE @]
        /\ cap' = [cap EXCEPT ![x] = IF answer \/ is_resolved[x] THEN @ ELSE "broken"]
        /\ is_resolved' = [is_resolved EXCEPT ![x] = @ \/ ~ answer]
        /\ embargo' = [embargo EXCEPT ![x] = IF @ = "waiting" THEN "failing" ELSE @]
        /\ UNCHANGED <<kind, queue, redirect, client_hook, received_call, replacement, echo, held,
                       panicked, made, arrived, failed>>
    BY <1>1, Zenon DEF Disconnect
  <1>4. r \in Messages /\ OtherOwned(x, r) /\ Other(y, r)
    BY DEF Messages, OtherOwned, Other, IsCall, IsReceiver, IsSender
  <1>5. <<r>> \in Seq(Messages) /\ Elements(<<r>>) = {r}
    BY <1>4, OneElement
  <1> HIDE DEF r
  <1>6. /\ net' \in [Vats -> Seq(Messages)] /\ net'[x] = streams[x]
        /\ net'[y] = net[y] \/ net'[y] = net[y] \o <<r>>
    <2>1. /\ net' \in [Vats -> Seq(Messages)] /\ net'[x] = streams[x]
          /\ net'[y] = streams[y] \/ net'[y] = streams[y] \o <<r>>
      BY <1>1, <1>3, <1>4, SentOne, Zenon
    <2> QED
      BY <1>1, <2>1, Zenon
  <1>7. /\ conn'[x] = FALSE /\ conn'[y] = conn[y] /\ resolve_op'[x] = FALSE /\ resolve_op'[y] = resolve_op[y]
        /\ response'[y] = response[y] /\ cap'[y] = cap[y] /\ is_resolved'[y] = is_resolved[y]
        /\ embargo'[y] = embargo[y]
    BY <1>1, <1>2, <1>3, Zenon
  <1>8. /\ response'[x] = IF answer /\ response[x] = None THEN "broken" ELSE response[x]
        /\ cap'[x] = IF answer \/ is_resolved[x] = TRUE THEN cap[x] ELSE "broken"
        /\ (answer => is_resolved'[x] = is_resolved[x]) /\ (~ answer => is_resolved'[x] = TRUE)
        /\ embargo'[x] = IF embargo[x] = "waiting" THEN "failing" ELSE embargo[x]
    BY <1>2, <1>3, Zenon
  <1>9. Promise(x, y)'
    <2>1. Agree(x, y) /\ Waiting(x, y) /\ Streams(x, y)
      BY DEF Promise
    <2>2. Agree(x, y)'
      BY <1>3, <1>7, <1>8, <2>1, NoneAssumption DEF Agree, Unsettled, Caps
    <2>3. (Unsettled(x) => Unsettled(x)') /\ (Settled(x)' => Settled(x)) /\ ~ Direct(x)'
      BY <1>7, <1>8 DEF Unsettled, Settled, Direct
    <2>4. Waiting(x, y)'
      BY <1>3, <1>8, <2>1, Zenon DEF Waiting, AfterArrived
    <2>5. conn'[x] # TRUE
      BY <1>7, Zenon
    <2>6. \A m \in Elements(net[x]) : ToHolder(x, y, m)'
      BY <1>3, <1>7, <2>1, <2>3, <2>5, Zenon DEF Streams, ToHolder, AfterArrived, BeforeHeld
    <2>7. \A m \in Elements(net[y]) : ToOwner(x, y, m)'
      BY <1>3, <1>7, <2>1, <2>3, Zenon DEF Streams, ToOwner, AfterArrived, BeforeHeld, AfterQueued
    <2>8. \A m \in Elements(<<r>>) : OtherOwned(x, m)
      BY <1>4, <1>5, Zenon
    <2> QED
      BY <1>1, <1>5, <1>6, <2>1, <2>2, <2>4, <2>6, <2>7, <2>8, HolderMoves, Zenon
  <1>10. Promise(y, x)'
    <2>1. Agree(y, x) /\ Waiting(y, x) /\ Streams(y, x)
      BY DEF Promise
    <2>2. Agree(y, x)'
      BY <1>3, <1>7, <2>1, Zenon DEF Agree, Unsettled
    <2>3. Waiting(y, x)'
      BY <1>3, <1>7, <2>1, Zenon DEF Waiting, AfterArrived
    <2>4. \A m \in Elements(net[y]) : ToHolder(y, x, m)'
      BY <1>3, <1>7, <2>1, Zenon DEF Streams, ToHolder, AfterArrived, BeforeHeld, Settled, Unsettled, Direct
    <2>5. \A m \in Elements(net[x]) : ToOwner(y, x, m)'
      BY <1>3, <1>7, <2>1, Zenon
      DEF Streams, ToOwner, AfterArrived, BeforeHeld, AfterQueued, Settled, Unsettled, Direct
    <2>6. \A m \in Elements(<<r>>) : Other(y, m)
      BY <1>4, <1>5, Zenon
    <2> QED
      BY <1>1, <1>5, <1>6, <2>1, <2>2, <2>3, <2>4, <2>5, <2>6, OwnerMoves, Zenon
  <1>11. Typed'
    <2>1. /\ conn' \in [Vats -> BOOLEAN] /\ resolve_op' \in [Vats -> BOOLEAN] /\ is_resolved' \in [Vats -> BOOLEAN]
          /\ response' \in [Vats -> Caps \cup {None}] /\ cap' \in [Vats -> Caps]
          /\ embargo' \in [Vats -> {"none", "waiting", "fulfilled", "lifted", "failing", "broken"}]
      BY <1>2, <1>3 DEF Caps
    <2> QED
      BY <1>3, <1>6, <2>1, Types, TypesNext, Zenon DEF Typed
  <1> QED
    BY <1>3, <1>9, <1>10, <1>11, Kept DEF NoProtocolError

\* The holder learns what the promise is resolved to.  Calls it has sent may still
\* be on their way when that is its own object: then there is an embargo.
LEMMA PromiseClientResolveKeeps ==
    ASSUME Typed, NoProtocolError, NEW x \in Vats, NEW y \in Vats, Peers(x, y), Promise(x, y), Promise(y, x),
           NEW streams, Reads(x, streams), NEW c \in {"object", "remote_object", "broken"},
           is_resolved[x] = FALSE,
           c = "object" => redirect[y] = "remote_object", c = "remote_object" => redirect[y] = "object",
           c = "broken" => conn[x] = FALSE,
           conn[x] = TRUE => resolve_op[y] = FALSE /\ \A w \in Elements(streams[x]) : w.type # "Resolve",
           PromiseClientResolve(x, c, streams),
           UNCHANGED <<kind, conn, promise_vars, response, received_call, echo, held, failed, panicked,
                       made, arrived>>
    PROVE  EInv' /\ arrived' = arrived
  <1> DEFINE r == Loopback("sender")
  <1>1. x # y /\ streams \in [Vats -> Seq(Messages)] /\ streams[y] = net[y]
        /\ (streams[x] = net[x] \/ (net[x] # << >> /\ streams[x] = Tail(net[x])))
        /\ net[x] \in Seq(Messages) /\ net[y] \in Seq(Messages) /\ streams[x] \in Seq(Messages)
    BY DEF Peers, Reads, Typed
  <1>2. /\ conn \in [Vats -> BOOLEAN] /\ received_call \in [Vats -> BOOLEAN] /\ is_resolved \in [Vats -> BOOLEAN]
        /\ replacement \in [Vats -> Caps \cup {None}] /\ cap \in [Vats -> Caps]
        /\ embargo \in [Vats -> {"none", "waiting", "fulfilled", "lifted", "failing", "broken"}]
    BY Types DEF Typed
  <1>3. PICK e \in BOOLEAN : e <=> c = "object" /\ received_call[x] = TRUE /\ conn[x] = TRUE
    BY Zenon
  <1>4. /\ is_resolved' = [is_resolved EXCEPT ![x] = TRUE]
        /\ cap' = [cap EXCEPT ![x] = IF e = TRUE THEN "embargo" ELSE c]
        /\ embargo' = [embargo EXCEPT ![x] = IF e = TRUE THEN "waiting" ELSE @]
        /\ replacement' = [replacement EXCEPT ![x] = IF e = TRUE THEN c ELSE @]
        /\ net' = IF e = TRUE THEN Sent(streams, x, <<r>>) ELSE streams
    <2>1. e <=> ~ Remote(c) /\ c # "broken" /\ received_call[x] /\ conn[x]
      BY <1>2, <1>3 DEF Remote
    <2> QED
      BY <1>3, <2>1, Zenon DEF PromiseClientResolve
  <1>5. UNCHANGED <<kind, conn, queue, redirect, client_hook, resolve_op, response, received_call, echo, held,
                    failed, panicked, made, arrived>>
    BY DEF promise_vars
  <1>6. r \in Messages /\ IsSender(r) /\ ~ IsReceiver(r) /\ r.type = "Disembargo" /\ ~ IsCall(r, x) /\ ~ IsCall(r, y)
    BY DEF Loopback, Messages, IsReceiver, IsSender, IsCall
  <1>7. /\ <<r>> \in Seq(Messages) /\ Elements(<<r>>) = {r} /\ Ordered(<<r>>, OwnerOrder(x))
    BY <1>6, OneElement
  <1> HIDE DEF r
  <1>8. /\ is_resolved'[x] = TRUE /\ cap'[x] = (IF e = TRUE THEN "embargo" ELSE c)
        /\ embargo'[x] = (IF e = TRUE THEN "waiting" ELSE embargo[x])
        /\ replacement'[x] = (IF e = TRUE THEN c ELSE replacement[x])
        /\ is_resolved'[y] = is_resolved[y] /\ cap'[y] = cap[y] /\ embargo'[y] = embargo[y]
        /\ replacement'[y] = replacement[y]
    BY <1>1, <1>2, <1>4, Zenon
  <1>9. /\ net' \in [Vats -> Seq(Messages)] /\ net'[x] = streams[x]
        /\ e = TRUE => net'[y] = net[y] \o <<r>>
        /\ e = FALSE => net'[y] = net[y]
    <2>1. CASE e = TRUE
      <3>1. net' = Sent(streams, x, <<r>>) /\ conn[x] = TRUE
        BY <1>3, <1>4, <2>1
      <3>2. /\ net' \in [Vats -> Seq(Messages)] /\ net'[x] = streams[x]
            /\ net'[y] = streams[y] \/ net'[y] = streams[y] \o <<r>>
            /\ conn[x] = TRUE => net'[y] = streams[y] \o <<r>>
        BY <1>1, <1>6, <3>1, SentOne, Zenon
      <3> QED
        BY <1>1, <2>1, <3>1, <3>2, Zenon
    <2>2. CASE e = FALSE
      BY <1>1, <1>4, <2>2
    <2> QED
      BY <1>3, <2>1, <2>2, Zenon
  <1>10. Agree(x, y) /\ Waiting(x, y) /\ Streams(x, y)
    BY DEF Promise
  <1>11. cap[x] = "remote_promise" /\ embargo[x] = "none" /\ echo[y] = None
    BY <1>10 DEF Agree, Unsettled
  <1>12. Agree(x, y)'
    BY <1>3, <1>5, <1>8, <1>10, <1>11, NoneAssumption DEF Agree, Unsettled, Caps
  <1>13. Waiting(x, y)'
    <2>1. held[x] = << >>
      BY <1>10, <1>11 DEF Waiting
    <2> QED
      BY <1>5, <1>10, <2>1, Zenon DEF Waiting, AfterArrived
  <1>14. /\ \A m \in Elements(net[x]) : ToHolder(x, y, m) /\ ~ IsReceiver(m) /\ m \in Messages
         /\ \A m \in Elements(net[y]) : ToOwner(x, y, m) /\ ~ IsSender(m) /\ m \in Messages
    <2>1. Elements(net[x]) \subseteq Messages /\ Elements(net[y]) \subseteq Messages
      BY <1>1, ElementsIn
    <2>2. ~ Unsettled(x)
      BY <1>11 DEF Unsettled
    <2> QED
      BY <1>10, <2>1, <2>2, Zenon DEF Streams, ToHolder, ToOwner
  <1>15. ~ Settled(x)'
    BY <1>8, <1>11 DEF Settled
  <1>16. Direct(x)' => \A m \in Elements(net[x]) \cup Elements(net[y]) : ~ IsCall(m, x)
    <2> SUFFICES ASSUME Direct(x)', NEW m \in Elements(net[x]) \cup Elements(net[y]), IsCall(m, x) PROVE FALSE
      BY Zenon
    <2>1. conn[x] = TRUE /\ cap'[x] = "object"
      BY <1>5 DEF Direct
    <2>2. received_call[x] = FALSE
      BY <1>2, <1>3, <1>8, <2>1
    <2>3. made[x] = 0
      BY <1>10, <2>1, <2>2 DEF Agree
    <2>4. m.call.n <= made[x]
      BY <1>14, Zenon DEF ToHolder, ToOwner
    <2>5. m \in Messages /\ m.type = "Call"
      BY <1>14, Zenon DEF IsCall
    <2>6. m.call \in Calls
      BY <2>5 DEF Messages
    <2>7. m.call.n \in Nat /\ m.call.n > 0
      BY <2>6, BoundAssumption DEF Calls
    <2>8. \A j, k : j = 0 /\ k \in Nat /\ k > 0 => ~ (k <= j)
      OBVIOUS
    <2> QED
      BY <2>3, <2>4, <2>7, <2>8, Zenon
  <1>17. Elements(net'[x]) \subseteq Elements(net[x]) /\ Lined(x, net'[x], net[y])
    <2>1. Lined(x, net[x], net[y])
      BY <1>10 DEF Streams
    <2>2. CASE streams[x] = net[x]
      BY <1>9, <2>1, <2>2, Zenon
    <2>3. CASE net[x] # << >> /\ streams[x] = Tail(net[x])
      BY <1>1, <1>9, <2>1, <2>3, HolderReads, Zenon
    <2> QED
      BY <1>1, <2>2, <2>3
  <1>18. \A m \in Elements(net'[x]) : ToHolder(x, y, m)'
    <2> SUFFICES ASSUME NEW m \in Elements(net'[x]) PROVE ToHolder(x, y, m)'
      OBVIOUS
    <2>1. ToHolder(x, y, m) /\ ~ IsReceiver(m) /\ (Direct(x)' => ~ IsCall(m, x))
      BY <1>14, <1>16, <1>17, Zenon
    <2>2. conn[x] = TRUE => m.type # "Resolve"
      BY <1>9
    <2> QED
      BY <1>5, <1>15, <2>1, <2>2, Zenon DEF ToHolder, AfterArrived, BeforeHeld
  <1>19. \A m \in Elements(net[y]) : ToOwner(x, y, m)'
    BY <1>5, <1>14, <1>15, <1>16, Zenon DEF ToOwner, AfterArrived, BeforeHeld, AfterQueued
  <1>20. /\ \A m \in Elements(net'[y]) : ToOwner(x, y, m)'
         /\ Lined(x, net'[x], net'[y])
    <2>1. CASE e = FALSE
      BY <1>9, <1>17, <1>19, <2>1, Zenon
    <2>2. CASE e = TRUE
      <3>1. ToOwner(x, y, r)'
        <4>1. embargo'[x] \in {"waiting", "failing", "broken"}
          BY <1>8, <2>2
        <4> QED
          BY <1>5, <1>6, <1>11, <4>1, Zenon DEF ToOwner, Unsettled
      <3>2. \A m \in Elements(net[y]), w \in Elements(<<r>>) : FrontToOwner(x, m, w)
        BY <1>6, <1>7, <1>14, Zenon DEF FrontToOwner
      <3>3. \A m \in Elements(net'[x]), w \in Elements(<<r>>) : FrontAcross(x, m, w)
        BY <1>6, <1>7, <1>14, <1>17, Zenon DEF FrontAcross
      <3>4. Lined(x, net'[x], net[y] \o <<r>>)
        BY <1>1, <1>7, <1>9, <1>17, <3>2, <3>3, SentToOwner, Zenon
      <3>5. Elements(net[y] \o <<r>>) \subseteq Elements(net[y]) \cup {r}
        BY <1>1, <1>7, ConcatOf, Zenon
      <3> QED
        BY <1>9, <1>19, <2>2, <3>1, <3>4, <3>5, Zenon
    <2> QED
      BY <1>3, <2>1, <2>2, Zenon
  <1>21. Promise(x, y)'
    BY <1>12, <1>13, <1>18, <1>20, Zenon DEF Promise, Streams
  <1>22. Promise(y, x)'
    <2>1. UNCHANGED Core(y, x)
      BY <1>5, <1>8 DEF Core
    <2>2. Agree(y, x)'
      BY <1>5, <1>8, <2>1, SameAgree DEF Promise
    <2>3. \A m \in Elements(<<r>>) : Other(y, m)
      BY <1>6, <1>7 DEF Other
    <2>4. net'[y] = net[y] \/ net'[y] = net[y] \o <<r>>
      BY <1>3, <1>9
    <2> QED
      BY <1>1, <1>7, <1>9, <2>1, <2>2, <2>3, <2>4, OwnerElsewhere, Zenon
  <1>23. Typed'
    <2>1. /\ is_resolved' \in [Vats -> BOOLEAN]
          /\ replacement' \in [Vats -> Caps \cup {None}] /\ cap' \in [Vats -> Caps]
          /\ embargo' \in [Vats -> {"none", "waiting", "fulfilled", "lifted", "failing", "broken"}]
      BY <1>2, <1>4 DEF Caps
    <2> QED
      BY <1>5, <1>9, <2>1, Types, TypesNext, Zenon DEF Typed
  <1> QED
    BY <1>5, <1>21, <1>22, <1>23, Kept DEF NoProtocolError

\* The task of a Pipeline: there was a Return, so that there is no Resolve.
LEMMA PipelineResolveKeeps ==
    ASSUME Typed, NoProtocolError, NEW x \in Vats, NEW y \in Vats, Peers(x, y), Promise(x, y), Promise(y, x),
           PipelineResolve(x)
    PROVE  EInv' /\ arrived' = arrived
  <1>1. PICK c : c = response[x]
    OBVIOUS
  <1>2. /\ c # None /\ is_resolved[x] = FALSE /\ PromiseClientResolve(x, c, net)
        /\ UNCHANGED <<kind, conn, promise_vars, response, received_call, echo, held, failed, panicked,
                       made, arrived>>
    BY <1>1 DEF PipelineResolve, Typed, TypeOK
  <1>3. Agree(x, y) /\ Streams(x, y)
    BY DEF Promise
  <1>4. /\ c \in {"object", "remote_object", "broken"}
        /\ c = "object" => redirect[y] = "remote_object"
        /\ c = "remote_object" => redirect[y] = "object"
        /\ c = "broken" => conn[x] = FALSE
        /\ kind[y] = "answer"
    BY <1>1, <1>2, <1>3 DEF Agree
  <1>5. resolve_op[y] = FALSE
    BY <1>3, <1>4 DEF Agree, Typed, TypeOK
  <1>6. \A w \in Elements(net[x]) : w.type # "Resolve"
    BY <1>3, <1>4 DEF Streams, ToHolder
  <1>7. Reads(x, net)
    BY DEF Reads, Typed
  <1> QED
    BY <1>2, <1>4, <1>5, <1>6, <1>7, PromiseClientResolveKeeps, Zenon

\* A Resolve finds the promise unresolved, and there is no other.
LEMMA HandleResolveKeeps ==
    ASSUME Typed, NoProtocolError, NEW x \in Vats, NEW y \in Vats, Peers(x, y), Promise(x, y), Promise(y, x),
           HandleResolve(x)
    PROVE  EInv' /\ arrived' = arrived
  <1> DEFINE m == Head(net[x])
  <1>1. net[x] # << >> /\ m.type = "Resolve" /\ conn[x] = TRUE
    BY DEF HandleResolve, Receives, Typed, TypeOK
  <1>2. Agree(x, y) /\ Streams(x, y) /\ Lined(x, net[x], net[y])
        /\ net[x] \in Seq(Messages) /\ net[y] \in Seq(Messages)
    BY DEF Promise, Streams, Typed
  <1>3. /\ m \in Elements(net[x]) /\ \A w \in Elements(Tail(net[x])) : FrontToHolder(x, m, w)
    BY <1>1, <1>2, HolderReads, Zenon
  <1>4. /\ kind[y] = "export" /\ resolve_op[y] = FALSE /\ redirect[y] # None
        /\ m.cap = DescriptorOf(redirect[y]) /\ is_resolved[x] = FALSE
    BY <1>1, <1>2, <1>3, Zenon DEF Streams, ToHolder
  <1>5. PICK c : c = ReceiveCap(x, m.cap)
    OBVIOUS
  <1>6. /\ c \in {"object", "remote_object"}
        /\ c = "object" => redirect[y] = "remote_object"
        /\ c = "remote_object" => redirect[y] = "object"
    BY <1>2, <1>4, <1>5 DEF Agree, DescriptorOf, ReceiveCap
  <1>7. /\ PromiseClientResolve(x, c, Rest(x))
        /\ UNCHANGED <<kind, conn, promise_vars, response, received_call, echo, held, failed, panicked,
                       made, arrived>>
    BY <1>4, <1>5 DEF HandleResolve
  <1>8. Reads(x, Rest(x)) /\ Rest(x)[x] = Tail(net[x])
    BY <1>1, RestReads
  <1>9. \A w \in Elements(Rest(x)[x]) : w.type # "Resolve"
    BY <1>1, <1>3, <1>8, Zenon DEF FrontToHolder
  <1>10. PICK streams : streams = Rest(x)
    OBVIOUS
  <1>11. c \in {"object", "remote_object", "broken"} /\ c # "broken"
    BY <1>6
  <1> QED
    BY <1>4, <1>6, <1>7, <1>8, <1>9, <1>10, <1>11, PromiseClientResolveKeeps, Zenon

\* The two ways to disconnect.
LEMMA DisconnectsKeep ==
    ASSUME Typed, NoProtocolError, NEW x \in Vats, NEW y \in Vats, Peers(x, y), Promise(x, y), Promise(y, x),
           HandleAbort(x) \/ Disconnects(x)
    PROVE  EInv' /\ arrived' = arrived
  <1>1. CASE HandleAbort(x)
    <2>1. net[x] # << >> /\ Disconnect(x, Rest(x)) /\ UNCHANGED failed
      BY <1>1 DEF HandleAbort, Receives
    <2>2. Reads(x, Rest(x))
      BY <2>1, RestReads
    <2>3. PICK streams : streams = Rest(x)
      OBVIOUS
    <2>4. Disconnect(x, streams) /\ Reads(x, streams)
      BY <2>1, <2>2, <2>3
    <2> QED
      BY <2>1, <2>4, DisconnectKeeps, Zenon
  <1>2. CASE Disconnects(x)
    <2>1. Reads(x, net)
      BY DEF Reads, Typed
    <2>2. PICK streams : streams = net
      OBVIOUS
    <2>3. Disconnect(x, streams) /\ Reads(x, streams) /\ UNCHANGED failed
      BY <1>2, <2>1, <2>2 DEF Disconnects
    <2> QED
      BY <2>3, DisconnectKeeps, Zenon
  <1> QED
    BY <1>1, <1>2
----------------------------------------------------------------------------
(* The steps that deliver calls *)

\* All that has arrived stays.
LEMMA SameArrived == ASSUME Typed, NEW u \in Vats, arrived'[u] = arrived[u] PROVE Grows(u)
  <1>1. arrived[u] \in Seq(1 .. MaxCalls) /\ << >> \in Seq(1 .. MaxCalls)
    BY DEF Typed, TypeOK
  <1>2. arrived[u] \o << >> = arrived[u]
    BY <1>1, ConcatEmpty
  <1> QED
    BY <1>1, <1>2, Zenon DEF Grows

\* The embargo ends: with the calls held back, which are the only ones left, or
\* without them when the connection is lost.
LEMMA LiftEmbargoKeeps ==
    ASSUME Typed, NoProtocolError, NEW x \in Vats, NEW y \in Vats, Peers(x, y), Promise(x, y), Promise(y, x),
           LiftEmbargo(x)
    PROVE  EInv' /\ Grows(x) /\ Grows(y)
  <1>0. Agree(x, y) /\ Waiting(x, y) /\ Streams(x, y)
    BY DEF Promise
  <1>1. /\ x # y /\ net \in [Vats -> Seq(Messages)] /\ held[x] \in Seq(Calls) /\ queue[x] \in Seq(Calls)
        /\ held \in [Vats -> Seq(Calls)] /\ queue \in [Vats -> Seq(Calls)] /\ << >> \in Seq(Calls)
        /\ embargo \in [Vats -> {"none", "waiting", "fulfilled", "lifted", "failing", "broken"}]
        /\ arrived \in [Vats -> Seq(1 .. MaxCalls)]
    BY Types DEF Typed, Peers
  <1>2. /\ embargo[x] \in {"fulfilled", "failing"}
        /\ embargo' = [embargo EXCEPT ![x] = IF @ = "fulfilled" THEN "lifted" ELSE "broken"]
        /\ UNCHANGED <<kind, conn, redirect, client_hook, resolve_op, is_resolved, cap, response, replacement, echo,
                       failed, panicked, made>>
    BY DEF LiftEmbargo, client_vars
  <1>3. embargo'[y] = embargo[y]
    BY <1>1, <1>2
  <1>4. /\ held' = [held EXCEPT ![x] = << >>] /\ queue' = queue /\ net' = net /\ received_call' = received_call
        /\ embargo[x] = "failing" => arrived' = arrived
        /\ embargo[x] = "fulfilled" => arrived' = [u \in Vats |-> arrived[u] \o NumbersOf(held[x], u)]
    <2>0. queue = [queue EXCEPT ![x] = queue[x]]
      BY <1>1
    <2>1. CASE embargo[x] = "failing"
      <3>1. Deliver(x, "broken", held[x], net, queue[x], << >>) /\ Lost(x, "broken")
        BY <2>1, PathOfObject DEF LiftEmbargo, Lost
      <3>2. Loses(x, net, queue[x], << >>)
        BY <1>1, <3>1, DeliverLost, Zenon
      <3> QED
        BY <2>0, <2>1, <3>2 DEF Loses
    <2>2. CASE embargo[x] = "fulfilled"
      <3>1. replacement[x] = "object"
        BY <1>0, <2>2 DEF Agree
      <3>2. Deliver(x, "object", held[x], net, queue[x], << >>)
        BY <2>2, <3>1 DEF LiftEmbargo
      <3>3. "object" = Innermost(x, "object") /\ (\A i \in 1 .. 4 : Path(x, "object")[i] # "promise")
            /\ ~ Lost(x, "object")
        BY PathOfObject DEF Lost, Remote
      <3>4. Arrives(x, held[x], net, queue[x], << >>)
        BY <3>2, <3>3, DeliverObject
      <3>5. /\ (\A i \in 1 .. 4 : Path(x, "object")[i] # "promise") => received_call' = received_call
            /\ (\E i \in 1 .. 4 : Path(x, "object")[i] = "promise") /\ held[x] # << >> =>
                  received_call' = [received_call EXCEPT ![x] = TRUE]
        <4>1. Peers(x, y) /\ Typed
          BY <1>1
        <4>2. ~ Lost(x, "object")
          BY <3>3, Zenon
        <4> HIDE <3>3
        <4> QED
          BY <3>2, <4>1, <4>2, DeliverHeard, Zenon
      <3> QED
        BY <2>0, <2>2, <3>3, <3>4, <3>5 DEF Arrives
    <2> QED
      BY <1>2, <2>1, <2>2, Zenon
  <1>5. held'[x] = << >> /\ held'[y] = held[y] /\ held' \in [Vats -> Seq(Calls)]
    BY <1>1, <1>4
  <1>6. \A c \in Elements(held[x]) : c.from = x /\ AfterArrived(x, c.n) /\ c.n <= made[x] /\ c \in Calls
    <2>1. Elements(held[x]) \subseteq Calls
      BY <1>1, ElementsIn
    <2> QED
      BY <1>0, <2>1, Zenon DEF Waiting
  <1>7. /\ arrived'[x] \in Seq(1 .. MaxCalls) /\ Ordered(arrived'[x], Below) /\ Grows(x)
        /\ \A a \in Elements(arrived'[x]) : a <= made[x]
    <2>1. CASE embargo[x] = "failing"
      BY <1>0, <1>1, <1>4, <2>1, SameArrived DEF Waiting
    <2>2. CASE embargo[x] = "fulfilled"
      <3>1. arrived'[x] = arrived[x] \o NumbersOf(held[x], x)
        BY <1>4, <2>2, Zenon
      <3>2. Ordered(held[x], Earlier)
        BY <1>0 DEF Waiting
      <3>3. /\ arrived'[x] \in Seq(1 .. MaxCalls) /\ Ordered(arrived'[x], Below) /\ Grows(x)
            /\ \A a \in Elements(arrived'[x]) : a \in Elements(arrived[x]) \/ \E c \in Elements(held[x]) : a = c.n
        BY <1>0, <1>1, <1>6, <3>1, <3>2, Arrive, Zenon
      <3> QED
        BY <1>0, <1>6, <3>3, Zenon DEF Waiting
    <2> QED
      BY <1>2, <2>1, <2>2
  <1>8. arrived'[y] = arrived[y]
    <2>1. CASE embargo[x] = "failing"
      BY <1>4, <2>1
    <2>2. CASE embargo[x] = "fulfilled"
      <3>1. \A i \in DOMAIN held[x] : held[x][i].from # y
        BY <1>1, <1>6, Zenon DEF Elements
      <3>2. NumbersOf(held[x], y) = << >>
        BY <1>1, <3>1, NumbersNone
      <3>3. arrived'[y] = arrived[y] \o << >> /\ arrived[y] \in Seq(1 .. MaxCalls)
        BY <1>1, <1>4, <2>2, <3>2, Zenon
      <3> QED
        BY <3>3, ConcatEmpty
    <2> QED
      BY <1>2, <2>1, <2>2
  <1>9. /\ embargo[x] = "fulfilled" => embargo'[x] = "lifted" /\ Settled(x)
        /\ embargo[x] = "failing" => embargo'[x] = "broken" /\ Unsettled(x)' /\ ~ Settled(x)'
    BY <1>1, <1>2 DEF Settled, Unsettled
  <1>10. queue[y] = << >> /\ Elements(<< >>) = {} /\ Ordered(<< >>, Earlier)
    BY <1>0, <1>2, NoneAssumption, EmptyElements DEF Agree, Waiting, Caps
  <1>11. Agree(x, y)'
    BY <1>0, <1>2, <1>4, <1>9 DEF Agree, Unsettled
  <1>12. Waiting(x, y)'
    BY <1>2, <1>4, <1>5, <1>7, <1>10, Zenon DEF Waiting
  <1>13. (\A m \in Elements(net[x]) : ToHolder(x, y, m)') /\ (\A m \in Elements(net[y]) : ToOwner(x, y, m)')
    <2>1. CASE embargo[x] = "failing"
      <3>1. arrived'[x] = arrived[x]
        BY <1>4, <2>1
      <3>2. \A n : BeforeHeld(x, n)'
        BY <1>5, <1>10, Zenon DEF BeforeHeld
      <3>3. conn[x] = FALSE
        BY <1>0, <2>1 DEF Agree
      <3>4. ~ Direct(x)'
        BY <1>2, <3>3 DEF Direct
      <3> QED
        BY <1>0, <1>2, <1>4, <1>9, <2>1, <3>1, <3>2, <3>4, Zenon
        DEF Streams, ToHolder, ToOwner, AfterArrived, AfterQueued
    <2>2. CASE embargo[x] = "fulfilled"
      <3>1. Settled(x) /\ ~ Unsettled(x)
        BY <2>2 DEF Settled, Unsettled
      <3>2. /\ \A m \in Elements(net[x]) : ToHolder(x, y, m) /\ ~ IsCall(m, x) /\ ~ IsReceiver(m)
            /\ \A m \in Elements(net[y]) : ~ IsCall(m, x) /\ ~ IsSender(m)
        BY <1>0, <3>1, Zenon DEF Streams, ToHolder, ToOwner
      <3> QED
        BY <1>2, <3>2, Zenon DEF ToHolder, ToOwner
    <2> QED
      BY <1>2, <2>1, <2>2
  <1>14. Promise(x, y)'
    BY <1>0, <1>4, <1>11, <1>12, <1>13, Zenon DEF Promise, Streams
  <1>15. Promise(y, x)'
    <2>1. UNCHANGED Core(y, x)
      BY <1>2, <1>3, <1>4, <1>5, <1>8 DEF Core
    <2>2. Agree(y, x)'
      BY <1>2, <1>4, <2>1, SameAgree DEF Promise
    <2> QED
      BY <1>4, <2>1, <2>2, NoMessages, OwnerElsewhere, Zenon
  <1>16. Typed'
    <2>1. embargo' \in [Vats -> {"none", "waiting", "fulfilled", "lifted", "failing", "broken"}]
      BY <1>1, <1>2
    <2>2. arrived' \in [Vats -> Seq(1 .. MaxCalls)]
      <3>1. arrived' = [u \in Vats |-> arrived'[u]]
        BY <1>1, <1>2, <1>4
      <3>2. \A u \in Vats : arrived'[u] \in Seq(1 .. MaxCalls)
        BY <1>1, <1>7, <1>8, Zenon DEF Peers
      <3> QED
        BY <3>1, <3>2, Zenon
    <2> QED
      BY <1>2, <1>4, <1>5, <2>1, <2>2, Types, TypesNext, Zenon DEF Typed
  <1>17. Grows(y)
    BY <1>8, SameArrived
  <1> QED
    BY <1>2, <1>7, <1>14, <1>15, <1>16, <1>17, Kept DEF NoProtocolError
=============================================================================
