------------------------ MODULE PromiseExportsProofs ------------------------
(***************************************************************************)
(* For any number of promises, objects and ids.  First the id table by     *)
(* itself: it never hands out an id in use, and hands out the smallest one *)
(* that is not; SlotsPartitioned is inductive together with TypeOK.  Then  *)
(* the exports of a vat that resolves promises: they are handed out as     *)
(* ExportTable does it, the reverse table names only exports of the        *)
(* capability itself, and the reference counts of the two vats balance     *)
(* whatever crosses on the way.                                            *)
(***************************************************************************)
EXTENDS PromiseExports, WellFoundedInduction, FiniteSetTheorems, TLAPS

Inv == TypeOK /\ SlotsPartitioned

\* The invariant holds initially.
LEMMA InitInv == Init => Inv
  BY MaxLenAssumption DEF Init, Inv, TypeOK, SlotsPartitioned, InHeap, Ids

\* push and erase keep the invariant.
LEMMA NextInv == Inv /\ [Next]_vars => Inv'
<1> SUFFICES ASSUME Inv, [Next]_vars PROVE Inv'
    OBVIOUS
<1> USE MaxLenAssumption DEF Inv, TypeOK, SlotsPartitioned, InHeap, Ids
<1>1. CASE PushReused
  BY <1>1, SMTT(30) DEF PushReused, HeapTop
<1>2. CASE PushAppended
  BY <1>2 DEF PushAppended
<1>3. ASSUME NEW i \in Ids, Erase(i) PROVE Inv'
  BY <1>3, SMTT(30) DEF Erase, Find
<1>4. CASE UNCHANGED vars
  BY <1>4 DEF vars
<1> QED
  BY <1>1, <1>2, <1>3, <1>4 DEF Next, Push

\* ExportTable::push and ExportTable::erase keep every id either occupied or
\* once on the heap of free ids.
THEOREM SlotsAlwaysPartitioned == Spec => [](TypeOK /\ SlotsPartitioned)
<1>1. Inv => TypeOK /\ SlotsPartitioned
  BY DEF Inv
<1> QED
  BY InitInv, NextInv, <1>1, PTL DEF Spec

\* push returns the smallest id that is not in use.
LEMMA PushStep ==
    ASSUME Inv, Push
    PROVE  pushed' \notin live /\ \A j \in Ids : j < pushed' => j \in live
<1> USE MaxLenAssumption DEF Inv, TypeOK, SlotsPartitioned, InHeap, Ids
<1>1. CASE PushReused
  BY <1>1 DEF PushReused, HeapTop
<1>2. CASE PushAppended
  BY <1>2 DEF PushAppended
<1> QED
  BY <1>1, <1>2 DEF Push

\* ExportTable::push returns the smallest id that is not in use, whatever was
\* pushed and erased before.
THEOREM PushSmallestUnused == Spec => PushReturnsSmallestUnused
<1>1. Inv /\ [Next]_vars =>
        [Push => /\ pushed' \notin live
                 /\ \A j \in Ids : j < pushed' => j \in live]_vars
  BY PushStep
<1> QED
  BY InitInv, NextInv, <1>1, PTL DEF Spec, PushReturnsSmallestUnused

\* write_descriptor touches the table by push alone.
LEMMA WriteIsPush ==
    ASSUME NEW c, NEW hook, NEW by_cap, NEW ops, NEW d, WriteDescriptor(c, hook, by_cap, ops, d)
    PROVE  Push \/ UNCHANGED vars
  BY Zenon DEF WriteDescriptor, table_vars

\* So does the Resolve of a promise, which writes one descriptor.
LEMMA SendResolveIsPush ==
    ASSUME NEW e, NEW p, NEW ops, SendResolve(e, p, ops)
    PROVE  Push \/ UNCHANGED vars
  BY WriteIsPush, Zenon DEF SendResolve, table_vars

\* Every step of the two vats leaves the table alone or is one of ExportTable's.
LEMMA PNextIsNext == Inv /\ [PNext]_all_vars => [Next]_vars
  <1> SUFFICES ASSUME Inv, [PNext]_all_vars PROVE Push \/ (\E i \in Ids : Erase(i)) \/ UNCHANGED vars
    BY DEF Next
  <1>1. CASE \E c \in Caps : SendCap(c)
    BY <1>1, WriteIsPush DEF SendCap
  <1>2. CASE ExporterTask
    BY <1>2, SendResolveIsPush DEF ExporterTask, ResolveExported, PollCanceled, table_vars
  <1>3. CASE HandleRelease
    BY <1>3, Zenon DEF HandleRelease, Find, Inv, TypeOK, table_vars
  <1>4. CASE \/ \E p \in Promises : DropHold(p) \/ \E r \in Objects \cup {Error} : ResolvePromise(p, r)
             \/ ImporterTask \/ \E e \in Ids : DropImport(e) \/ DropPromise(e)
             \/ UNCHANGED all_vars
    BY <1>4, Zenon DEF DropHold, ResolvePromise, ImporterTask, HandleCaps, HandleResolve, DropOldCap,
                DropImport, DropPromise, Keep, table_vars, all_vars
  <1> QED
    BY <1>1, <1>2, <1>3, <1>4 DEF PNext

\* The exporter uses its table as ExportTable allows.
THEOREM UsesExportTable == PSpec => Spec
  <1>1. PInit => Init
    BY DEF PInit
  <1> QED
    BY <1>1, InitInv, NextInv, PNextIsNext, PTL DEF PSpec, Spec

\* Promises that are resolved, released and exported again, with tasks that come
\* late, never get an id into the heap of free ids twice, or while it is in use.
THEOREM PromiseSlotsPartitioned == PSpec => [](TypeOK /\ SlotsPartitioned)
  BY UsesExportTable, SlotsAlwaysPartitioned, PTL

\* And every descriptor of a new export has the smallest id that is not in use.
THEOREM PromisePushSmallest == PSpec => PushReturnsSmallestUnused
  BY UsesExportTable, PushSmallestUnused, PTL
----------------------------------------------------------------------------
\* Both tables are typed, and an entry names an export of its capability.
EInv ==
    /\ exports_by_cap \in [Caps -> Ids \cup {None}]
    /\ client_hook \in [Ids -> Caps \cup {None}]
    /\ EntriesAreExports

\* The invariant holds initially.
LEMMA InitEInv == PInit => EInv
  BY DEF PInit, EInv, EntriesAreExports

\* write_descriptor keeps it, on tables that resolve_exported_promise has
\* already changed: a slot that push hands out has no entry.
LEMMA WriteEInv ==
    ASSUME Inv, NEW c \in Caps,
           NEW hook \in [Ids -> Caps \cup {None}], NEW by_cap \in [Caps -> Ids \cup {None}],
           \A x \in Caps : by_cap[x] # None => Find(by_cap[x]) /\ hook[by_cap[x]] = x,
           NEW ops, NEW d, WriteDescriptor(c, hook, by_cap, ops, d)
    PROVE  EInv'
  <1>1. CASE by_cap[c] # None
    BY <1>1 DEF WriteDescriptor, EInv, EntriesAreExports, table_vars, vars, Find
  <1>2. CASE by_cap[c] = None
    <2>1. /\ Push
          /\ client_hook' = [hook EXCEPT ![pushed'] = c]
          /\ exports_by_cap' = [by_cap EXCEPT ![c] = pushed']
      BY <1>2 DEF WriteDescriptor
    <2>2. /\ pushed' \in Ids /\ pushed' \notin live /\ pushed' \in live' /\ pushed' < len'
          /\ live \subseteq live' /\ len' >= len /\ len \in Int /\ len' \in Int
      <3>1. CASE PushReused
        BY <3>1, MaxLenAssumption DEF PushReused, Inv, TypeOK, SlotsPartitioned, Ids, InHeap, HeapTop
      <3>2. CASE PushAppended
        BY <3>2, MaxLenAssumption DEF PushAppended, Inv, TypeOK, SlotsPartitioned, Ids
      <3> QED
        BY <2>1, <3>1, <3>2, Zenon DEF Push
    <2>3. \A x \in Caps : by_cap[x] # None => by_cap[x] # pushed' /\ by_cap[x] \in Ids
      BY <2>2 DEF Find
    <2> QED
      BY <2>1, <2>2, <2>3 DEF EInv, EntriesAreExports, Find, Ids
  <1> QED
    BY <1>1, <1>2

\* The Resolve of a promise first takes its entry out of the reverse table.
LEMMA SendResolveEInv ==
    ASSUME Inv, EInv, NEW e \in Ids, NEW p, NEW ops, SendResolve(e, p, ops)
    PROVE  EInv'
  <1>1. CASE redirect[p] \in Objects /\ Find(e)
    <2> DEFINE hook == [client_hook EXCEPT ![e] = redirect[p]]
               by_cap == [exports_by_cap EXCEPT ![client_hook[e]] = None]
    <2>1. PICK d \in Ids : WriteDescriptor(redirect[p], hook, by_cap, ops,
                                          Descriptor(d, redirect[p], FALSE))
      BY <1>1, Zenon DEF SendResolve
    <2>2. /\ redirect[p] \in Caps
          /\ hook \in [Ids -> Caps \cup {None}] /\ by_cap \in [Caps -> Ids \cup {None}]
      BY <1>1, Zenon DEF EInv, Caps
    <2>3. \A x \in Caps : by_cap[x] # None => Find(by_cap[x]) /\ hook[by_cap[x]] = x
      BY DEF EInv, EntriesAreExports
    <2> HIDE DEF hook, by_cap
    <2> QED
      BY <2>1, <2>2, <2>3, WriteEInv, Zenon
  <1>2. CASE ~ (redirect[p] \in Objects /\ Find(e))
    BY <1>2, Zenon DEF SendResolve, EInv, EntriesAreExports, Find, table_vars, vars
  <1> QED
    BY <1>1, <1>2

\* Every step of the two vats keeps the invariant.
LEMMA NextEInv == Inv /\ EInv /\ [PNext]_all_vars => EInv'
  <1> SUFFICES ASSUME Inv, EInv, [PNext]_all_vars PROVE EInv'
    OBVIOUS
  <1>1. ASSUME NEW c \in Caps, SendCap(c) PROVE EInv'
    <2>1. PICK d : WriteDescriptor(Innermost(c), client_hook, exports_by_cap, resolve_op, d)
      BY <1>1 DEF SendCap
    <2>2. Innermost(c) \in Caps
      BY <1>1 DEF SendCap
    <2> QED
      BY <2>1, <2>2, WriteEInv DEF EInv, EntriesAreExports
  <1>2. CASE ExporterTask
    BY <1>2, SendResolveEInv
    DEF ExporterTask, ResolveExported, PollCanceled, EInv, EntriesAreExports, Find, table_vars, vars
  <1>3. CASE HandleRelease
    <2> DEFINE e == Head(to_exporter).id
    <2>1. CASE /\ Erase(e)
               /\ client_hook' = [client_hook EXCEPT ![e] = None]
               /\ exports_by_cap' = [exports_by_cap EXCEPT ![client_hook[e]] = None]
      <3>1. e \in Ids /\ live' = live \ {e} /\ len' = len
        BY <2>1 DEF Erase, Find, Inv, TypeOK
      <3> QED
        BY <2>1, <3>1, Zenon DEF EInv, EntriesAreExports, Find
    <2>2. CASE UNCHANGED <<vars, client_hook, exports_by_cap>>
      BY <2>2 DEF EInv, EntriesAreExports, Find, vars
    <2> QED
      BY <1>3, <2>1, <2>2 DEF HandleRelease, table_vars
  <1>4. CASE \/ \E p \in Promises : DropHold(p) \/ \E r \in Objects \cup {Error} : ResolvePromise(p, r)
             \/ ImporterTask \/ \E e \in Ids : DropImport(e) \/ DropPromise(e)
             \/ UNCHANGED all_vars
    <2>1. UNCHANGED <<vars, client_hook, exports_by_cap>>
      BY <1>4, Zenon DEF DropHold, ResolvePromise, ImporterTask, HandleCaps, HandleResolve, DropOldCap,
                  DropImport, DropPromise, Keep, table_vars, export_vars, all_vars
    <2> QED
      BY <2>1 DEF EInv, EntriesAreExports, Find, vars
  <1> QED
    BY <1>1, <1>2, <1>3, <1>4 DEF PNext

\* write_descriptor never meets the branch it marks unreachable!(): what the
\* reverse table names is an export of that capability, also while a promise that
\* has resolved keeps its id under another capability.
THEOREM ReverseTableIsRight == PSpec => []EntriesAreExports
  <1>1. PInit => Inv
    BY InitInv DEF PInit
  <1>2. Inv /\ [PNext]_all_vars => Inv'
    BY PNextIsNext, NextInv
  <1>3. EInv => EntriesAreExports
    BY DEF EInv
  <1> QED
    BY <1>1, <1>2, <1>3, InitEInv, NextEInv, PTL DEF PSpec
----------------------------------------------------------------------------
(* Sums of sequences: SeqSum recurses over an index, which is induction up to *)
(* the length *)

\* Induction up to n, for membership in a set.
LEMMA UpTo ==
    ASSUME NEW n \in Nat, NEW T, 0 \in T, \A k \in 0 .. n - 1 : k \in T => k + 1 \in T
    PROVE  \A k \in 0 .. n : k \in T
  <1> DEFINE Out == {k \in 0 .. n : k \notin T}
  <1>1. Out \subseteq Nat
    OBVIOUS
  <1>2. ASSUME Out # {} PROVE FALSE
    <2>1. PICK k \in Out : \A m \in Out : ~ (<<m, k>> \in OpToRel(<, Nat))
      BY <1>1, <1>2, WFMin, NatLessThanWellFounded, Zenon
    <2>2. \A m \in Out : ~ (m < k)
      <3> HIDE DEF Out
      <3> QED
        BY <1>1, <2>1, Zenon DEF OpToRel
    <2>3. k # 0 /\ k - 1 \in 0 .. n - 1 /\ k - 1 + 1 = k
      OBVIOUS
    <2>4. k - 1 \in T
      BY <2>2, <2>3
    <2> QED
      BY <2>3, <2>4
  <1> QED
    BY <1>2

\* The sums of the first n elements.
Sums(f, s) ==
    /\ f \in [0 .. Len(s) -> Nat] /\ f[0] = 0
    /\ \A n \in 0 .. Len(s) - 1 : f[n + 1] = f[n] + s[n + 1]

\* The recursion of SeqSum.
SumFcn(f, s) == f = [n \in 0 .. Len(s) |-> IF n = 0 THEN 0 ELSE f[n - 1] + s[n]]

\* A sequence of naturals has partial sums.
LEMMA SumsExist == ASSUME NEW s \in Seq(Nat) PROVE \E f : Sums(f, s)
  <1> DEFINE Part(f, k) == /\ f \in [0 .. k -> Nat] /\ f[0] = 0
                           /\ \A n \in 0 .. k - 1 : f[n + 1] = f[n] + s[n + 1]
             T == {k \in 0 .. Len(s) : \E f : Part(f, k)}
  <1>0. Len(s) \in Nat
    OBVIOUS
  <1>1. 0 \in T
    <2>1. Part([n \in 0 .. 0 |-> 0], 0)
      OBVIOUS
    <2>2. 0 \in 0 .. Len(s)
      BY <1>0
    <2> QED
      BY <2>1, <2>2, Zenon
  <1>2. ASSUME NEW k \in 0 .. Len(s) - 1, k \in T PROVE k + 1 \in T
    <2>1. PICK f : Part(f, k)
      BY <1>2
    <2> DEFINE g == [n \in 0 .. k + 1 |-> IF n = k + 1 THEN f[k] + s[k + 1] ELSE f[n]]
    <2>2. Part(g, k + 1)
      BY <2>1, SMTT(20)
    <2>3. k + 1 \in 0 .. Len(s)
      BY <1>0
    <2> QED
      BY <2>2, <2>3, Zenon
  <1>3. Len(s) \in T
    <2> HIDE DEF T
    <2>1. \A k \in 0 .. Len(s) : k \in T
      BY <1>0, <1>1, <1>2, UpTo, Zenon
    <2> QED
      BY <1>0, <2>1
  <1> QED
    BY <1>3, Zenon DEF Sums

\* It has no others.
LEMMA SumsUnique == ASSUME NEW s \in Seq(Nat), NEW f, NEW g, Sums(f, s), Sums(g, s) PROVE f = g
  <1> DEFINE T == {k \in 0 .. Len(s) : f[k] = g[k]}
  <1>1. Len(s) \in Nat /\ 0 \in T
    BY DEF Sums
  <1>2. ASSUME NEW k \in 0 .. Len(s) - 1, k \in T PROVE k + 1 \in T
    BY <1>2 DEF Sums
  <1>3. \A k \in 0 .. Len(s) : k \in T
    <2> HIDE DEF T
    <2> QED
      BY <1>1, <1>2, UpTo, Zenon
  <1> QED
    BY <1>3 DEF Sums

\* SeqSum, a recursive function, is the last of the partial sums.
LEMMA SumIs == ASSUME NEW s \in Seq(Nat), NEW f, Sums(f, s) PROVE SeqSum(s) = f[Len(s)]
  <1> DEFINE g == CHOOSE h : SumFcn(h, s)
  <1>1. SeqSum(s) = g[Len(s)]
    BY DEF SeqSum, SumFcn
  <1>2. \A h : Sums(h, s) => SumFcn(h, s)
    BY DEF SumFcn, Sums
  <1>3. SumFcn(g, s)
    BY <1>2, Zenon
  <1>4. Sums(g, s)
    <2> DEFINE T == {k \in 0 .. Len(s) : g[k] \in Nat}
    <2> HIDE DEF g
    <2>1. Len(s) \in Nat /\ 0 \in T
      BY <1>3 DEF SumFcn
    <2>2. ASSUME NEW k \in 0 .. Len(s) - 1, k \in T PROVE k + 1 \in T
      BY <2>2, <1>3 DEF SumFcn
    <2>3. \A k \in 0 .. Len(s) : k \in T
      <3> HIDE DEF T
      <3> QED
        BY <2>1, <2>2, UpTo, Zenon
    <2>4. /\ DOMAIN g = 0 .. Len(s) /\ g[0] = 0
          /\ \A n \in 0 .. Len(s) - 1 : g[n + 1] = g[n] + s[n + 1]
      BY <1>3, <2>1 DEF SumFcn
    <2>5. g = [n \in 0 .. Len(s) |-> g[n]]
      BY <1>3, Zenon DEF SumFcn
    <2> QED
      BY <2>3, <2>4, <2>5, Zenon DEF Sums
  <1> QED
    BY <1>1, <1>4, SumsUnique, Zenon

\* The sum of naturals is a natural.
LEMMA SumType == ASSUME NEW s \in Seq(Nat) PROVE SeqSum(s) \in Nat
  <1>1. PICK f : Sums(f, s)
    BY SumsExist
  <1>2. SeqSum(s) = f[Len(s)]
    BY <1>1, SumIs
  <1> QED
    BY <1>1, <1>2 DEF Sums

\* The sum of no numbers.
LEMMA SumEmpty == SeqSum(<< >>) = 0
  <1>0. << >> \in Seq(Nat) /\ Len(<< >>) = 0
    OBVIOUS
  <1>1. PICK f : Sums(f, << >>)
    BY <1>0, SumsExist, Zenon
  <1>2. SeqSum(<< >>) = f[Len(<< >>)]
    BY <1>0, <1>1, SumIs, Zenon
  <1> QED
    BY <1>0, <1>1, <1>2 DEF Sums

\* The sum with one number more.
LEMMA SumAppend == ASSUME NEW s \in Seq(Nat), NEW x \in Nat PROVE SeqSum(Append(s, x)) = SeqSum(s) + x
  <1> DEFINE t == Append(s, x)
  <1>1. PICK f : Sums(f, s)
    BY SumsExist
  <1> DEFINE g == [n \in 0 .. Len(t) |-> IF n = Len(t) THEN f[Len(s)] + x ELSE f[n]]
  <1>2. Sums(g, t) /\ g[Len(t)] = f[Len(s)] + x /\ t \in Seq(Nat)
    BY <1>1, SMTT(20) DEF Sums
  <1>3. SeqSum(t) = g[Len(t)]
    <2> HIDE DEF t, g
    <2> QED
      BY <1>2, SumIs
  <1>4. SeqSum(s) = f[Len(s)]
    BY <1>1, SumIs
  <1> QED
    BY <1>2, <1>3, <1>4

\* The sum without the first number.
LEMMA SumHead ==
    ASSUME NEW s \in Seq(Nat), s # << >>
    PROVE  SeqSum(s) = Head(s) + SeqSum(Tail(s))
  <1> DEFINE t == Tail(s)
  <1>0. /\ t \in Seq(Nat) /\ Len(s) \in Nat \ {0} /\ Len(t) = Len(s) - 1 /\ Head(s) = s[1]
        /\ \A n \in 1 .. Len(t) : t[n] = s[n + 1]
        /\ \A n \in 1 .. Len(s) : s[n] \in Nat
    OBVIOUS
  <1> HIDE DEF t
  <1>1. PICK f : Sums(f, t)
    BY <1>0, SumsExist
  <1> DEFINE g == [n \in 0 .. Len(s) |-> IF n = 0 THEN 0 ELSE Head(s) + f[n - 1]]
  <1>2. Sums(g, s) /\ g[Len(s)] = Head(s) + f[Len(t)]
    <2>1. g \in [0 .. Len(s) -> Nat] /\ g[0] = 0 /\ g[Len(s)] = Head(s) + f[Len(t)]
      BY <1>0, <1>1, SMTT(20) DEF Sums
    <2>2. ASSUME NEW n \in 0 .. Len(s) - 1 PROVE g[n + 1] = g[n] + s[n + 1]
      <3>1. CASE n = 0
        BY <1>0, <1>1, <3>1 DEF Sums
      <3>2. CASE n # 0
        <4>1. PICK k \in 0 .. Len(t) - 1 : n = k + 1
          BY <1>0, <3>2
        <4>2. g[n] = Head(s) + f[k] /\ g[n + 1] = Head(s) + f[k + 1]
          BY <1>0, <4>1, SMTT(20)
        <4>3. f[k + 1] = f[k] + t[k + 1] /\ t[k + 1] = s[n + 1] /\ f[k] \in Nat
          <5>1. k \in 0 .. Len(t) /\ k + 1 \in 1 .. Len(t) /\ k + 1 + 1 = n + 1
            BY <1>0, <4>1
          <5>2. f[k + 1] = f[k] + t[k + 1] /\ f[k] \in Nat
            BY <1>1, <5>1, Zenon DEF Sums
          <5>3. t[k + 1] = s[k + 1 + 1]
            BY <1>0, <5>1, Zenon
          <5> QED
            BY <5>1, <5>2, <5>3
        <4>4. Head(s) \in Nat /\ s[n + 1] \in Nat
          OBVIOUS
        <4> QED
          BY <4>2, <4>3, <4>4, SMTT(20)
      <3> QED
        BY <3>1, <3>2
    <2> QED
      BY <2>1, <2>2, Zenon DEF Sums
  <1>3. SeqSum(s) = g[Len(s)]
    <2> HIDE DEF g
    <2> QED
      BY <1>2, SumIs
  <1>4. SeqSum(t) = f[Len(t)]
    BY <1>0, <1>1, SumIs, Zenon
  <1> QED
    BY <1>2, <1>3, <1>4 DEF t

\* No element is more than the sum.
LEMMA SumBounds ==
    ASSUME NEW s \in Seq(Nat), NEW i \in 1 .. Len(s)
    PROVE  s[i] <= SeqSum(s)
  <1>1. PICK f : Sums(f, s)
    BY SumsExist
  <1> DEFINE T == {k \in 0 .. Len(s) : k >= i => s[i] <= f[k]}
  <1>2. Len(s) \in Nat /\ 0 \in T
    OBVIOUS
  <1>3. ASSUME NEW k \in 0 .. Len(s) - 1, k \in T PROVE k + 1 \in T
    <2>1. f[k + 1] = f[k] + s[k + 1] /\ f[k] \in Nat /\ s[k + 1] \in Nat /\ s[i] \in Nat
      <3>1. k \in 0 .. Len(s) /\ k + 1 \in 1 .. Len(s)
        OBVIOUS
      <3>2. f[k + 1] = f[k] + s[k + 1] /\ f[k] \in Nat
        BY <1>1, <3>1, Zenon DEF Sums
      <3> QED
        BY <3>1, <3>2
    <2>2. CASE k + 1 = i
      BY <2>1, <2>2
    <2>3. CASE k + 1 # i
      BY <1>3, <2>1, <2>3, SMTT(20)
    <2> QED
      BY <2>2, <2>3
  <1>4. \A k \in 0 .. Len(s) : k \in T
    <2> HIDE DEF T
    <2> QED
      BY <1>2, <1>3, UpTo, Zenon
  <1>5. s[i] <= f[Len(s)]
    BY <1>4
  <1> QED
    BY <1>1, <1>5, SumIs

----------------------------------------------------------------------------
(* The references in a stream *)

\* A message is put on a stream.
LEMMA OccurrencesAppend ==
    ASSUME NEW M, NEW s \in Seq(M), NEW m \in M, NEW e
    PROVE  /\ Occurrences(s, e) \in Nat
           /\ Occurrences(Append(s, m), e) = Occurrences(s, e) + (IF m.id = e THEN 1 ELSE 0)
  <1> DEFINE w(t) == [i \in DOMAIN t |-> IF t[i].id = e THEN 1 ELSE 0]
             x == IF m.id = e THEN 1 ELSE 0
  <1>1. w(s) \in Seq(Nat) /\ x \in Nat
    OBVIOUS
  <1>2. w(Append(s, m)) = Append(w(s), x)
    OBVIOUS
  <1>3. SeqSum(w(s)) \in Nat /\ SeqSum(Append(w(s), x)) = SeqSum(w(s)) + x
    <2> HIDE DEF w, x
    <2> QED
      BY <1>1, SumType, SumAppend
  <1> QED
    BY <1>2, <1>3, Zenon DEF Occurrences

\* The first message leaves a stream.
LEMMA OccurrencesHead ==
    ASSUME NEW M, NEW s \in Seq(M), s # << >>, NEW e
    PROVE  /\ Occurrences(s, e) = (IF Head(s).id = e THEN 1 ELSE 0) + Occurrences(Tail(s), e)
           /\ Occurrences(Tail(s), e) \in Nat
  <1> DEFINE w(t) == [i \in DOMAIN t |-> IF t[i].id = e THEN 1 ELSE 0]
  <1>1. /\ w(s) \in Seq(Nat) /\ w(s) # << >> /\ w(Tail(s)) \in Seq(Nat)
        /\ Head(w(s)) = IF Head(s).id = e THEN 1 ELSE 0
    OBVIOUS
  <1>2. w(Tail(s)) = Tail(w(s))
    OBVIOUS
  <1>3. SeqSum(w(s)) = Head(w(s)) + SeqSum(Tail(w(s))) /\ SeqSum(w(Tail(s))) \in Nat
    <2> HIDE DEF w
    <2> QED
      BY <1>1, SumHead, SumType
  <1> QED
    BY <1>1, <1>2, <1>3, Zenon DEF Occurrences

\* An id that is not counted is in no message.
LEMMA NoOccurrence ==
    ASSUME NEW M, NEW s \in Seq(M), NEW e, Occurrences(s, e) = 0
    PROVE  \A i \in DOMAIN s : s[i].id # e
  <1> DEFINE w == [i \in DOMAIN s |-> IF s[i].id = e THEN 1 ELSE 0]
  <1>1. w \in Seq(Nat) /\ Len(w) = Len(s) /\ Len(s) \in Nat /\ DOMAIN s = 1 .. Len(s)
    OBVIOUS
  <1>2. SeqSum(w) = 0
    BY DEF Occurrences
  <1> SUFFICES ASSUME NEW i \in DOMAIN s, s[i].id = e PROVE FALSE
    OBVIOUS
  <1>3. w[i] = 1
    OBVIOUS
  <1>4. w[i] <= SeqSum(w)
    <2> HIDE DEF w
    <2> QED
      BY <1>1, SumBounds
  <1> HIDE DEF w
  <1> QED
    BY <1>2, <1>3, <1>4

\* A Release gives back at least one reference (ImportClient::drop).
LEMMA ReleaseFields ==
    ASSUME NEW s \in Seq(Releases), NEW i \in DOMAIN s
    PROVE  s[i] \in Releases /\ s[i].count \in Nat \ {0} /\ s[i].id \in Ids
  <1>1. s[i] \in Releases
    OBVIOUS
  <1>2. \A r \in Releases : r.count \in Nat \ {0} /\ r.id \in Ids
    BY DEF Releases
  <1> QED
    BY <1>1, <1>2, Zenon

\* A Release is put on the stream.
LEMMA ReturnedAppend ==
    ASSUME NEW s \in Seq(Releases), NEW m \in Releases, NEW e
    PROVE  /\ Returned(s, e) \in Nat
           /\ Returned(Append(s, m), e) = Returned(s, e) + (IF m.id = e THEN m.count ELSE 0)
  <1> DEFINE w(t) == [i \in DOMAIN t |-> IF t[i].id = e THEN t[i].count ELSE 0]
             x == IF m.id = e THEN m.count ELSE 0
  <1>0. \A i \in DOMAIN s : s[i].count \in Nat
    BY ReleaseFields
  <1>1. w(s) \in Seq(Nat) /\ x \in Nat
    BY <1>0 DEF Releases
  <1>2. w(Append(s, m)) = Append(w(s), x)
    OBVIOUS
  <1>3. SeqSum(w(s)) \in Nat /\ SeqSum(Append(w(s), x)) = SeqSum(w(s)) + x
    <2> HIDE DEF w, x
    <2> QED
      BY <1>1, SumType, SumAppend
  <1> QED
    BY <1>2, <1>3, Zenon DEF Returned

\* A Release is taken from the stream.
LEMMA ReturnedHead ==
    ASSUME NEW s \in Seq(Releases), s # << >>, NEW e
    PROVE  /\ Returned(s, e) = (IF Head(s).id = e THEN Head(s).count ELSE 0) + Returned(Tail(s), e)
           /\ Returned(Tail(s), e) \in Nat
  <1> DEFINE w(t) == [i \in DOMAIN t |-> IF t[i].id = e THEN t[i].count ELSE 0]
  <1>0. (\A i \in DOMAIN s : s[i].count \in Nat) /\ \A i \in DOMAIN Tail(s) : Tail(s)[i].count \in Nat
    <2>1. Tail(s) \in Seq(Releases)
      OBVIOUS
    <2> QED
      BY <2>1, ReleaseFields
  <1>1. /\ w(s) \in Seq(Nat) /\ w(s) # << >> /\ w(Tail(s)) \in Seq(Nat)
        /\ Head(w(s)) = IF Head(s).id = e THEN Head(s).count ELSE 0
    BY <1>0
  <1>2. w(Tail(s)) = Tail(w(s))
    OBVIOUS
  <1>3. SeqSum(w(s)) = Head(w(s)) + SeqSum(Tail(w(s))) /\ SeqSum(w(Tail(s))) \in Nat
    <2> HIDE DEF w
    <2> QED
      BY <1>1, SumHead, SumType
  <1> QED
    BY <1>1, <1>2, <1>3, Zenon DEF Returned

----------------------------------------------------------------------------
(* The references are conserved *)

\* Every import is held: by the application, a promise or a task that will drop it.
Referenced ==
    \A e \in Ids : remote_ref_count[e] > 0 => e \in import_refs \cup promise_refs \cup old_caps

NewPromise(i) == to_importer[i].type = "Caps" /\ to_importer[i].promise = TRUE

\* A descriptor of a new promise is the first the importer hears of its id.
FirstOfItsId ==
    \A i \in DOMAIN to_importer : NewPromise(i) =>
        /\ remote_ref_count[to_importer[i].id] = 0
        /\ \A j \in 1 .. i - 1 : to_importer[j].id # to_importer[i].id

\* The references are conserved.  That a descriptor announces a new promise only when
\* nothing else refers to its id is what keeps import from finding a dead client.
CInv ==
    /\ to_importer \in Seq(Messages) /\ to_exporter \in Seq(Releases)
    /\ refcount \in [Ids -> Nat] /\ remote_ref_count \in [Ids -> Nat]
    /\ app_client \in [Ids -> {None, "import", "promise"}]
    /\ \A e \in Ids : e \notin live => refcount[e] = 0
    /\ \A e \in Ids : remote_ref_count[e] = 0 => app_client[e] = None
    /\ Running => Referenced /\ FirstOfItsId /\ RefcountBalance
    /\ panicked = FALSE

\* The invariant holds initially.
LEMMA InitCInv == PInit => CInv
  <1> SUFFICES ASSUME PInit PROVE CInv
    OBVIOUS
  <1>1. /\ to_importer = << >> /\ to_exporter = << >>
        /\ refcount \in [Ids -> Nat] /\ remote_ref_count \in [Ids -> Nat]
        /\ app_client \in [Ids -> {None, "import", "promise"}]
        /\ \A e \in Ids : refcount[e] = 0 /\ remote_ref_count[e] = 0 /\ app_client[e] = None
    BY DEF PInit
  <1>2. panicked = FALSE
    BY Zenon DEF PInit
  <1>3. << >> \in Seq(Messages) /\ << >> \in Seq(Releases) /\ DOMAIN << >> = {}
    OBVIOUS
  <1>4. \A e \in Ids : Occurrences(<< >>, e) = 0 /\ Returned(<< >>, e) = 0
    <2> TAKE e \in Ids
    <2> DEFINE w == [i \in DOMAIN << >> |-> IF << >>[i].id = e THEN 1 ELSE 0]
               r == [i \in DOMAIN << >> |-> IF << >>[i].id = e THEN << >>[i].count ELSE 0]
    <2>1. w = << >> /\ r = << >>
      OBVIOUS
    <2> QED
      BY <2>1, SumEmpty, Zenon DEF Occurrences, Returned
  <1>5. Referenced /\ FirstOfItsId /\ RefcountBalance
    BY <1>1, <1>3, <1>4 DEF Referenced, FirstOfItsId, RefcountBalance
  <1> QED
    BY <1>1, <1>2, <1>3, <1>5, Zenon DEF CInv

\* push hands out a slot that was free.
LEMMA PushedWasFree ==
    ASSUME Inv, Push
    PROVE  pushed' \in Ids /\ pushed' \notin live /\ live' = live \cup {pushed'}
  <1>1. CASE PushReused
    BY <1>1, MaxLenAssumption DEF PushReused, Inv, TypeOK, SlotsPartitioned, Ids, InHeap, HeapTop
  <1>2. CASE PushAppended
    BY <1>2, MaxLenAssumption DEF PushAppended, Inv, TypeOK, SlotsPartitioned, Ids
  <1> QED
    BY <1>1, <1>2, Zenon DEF Push

\* write_descriptor counts one reference to the id of the descriptor, the first one
\* if it announces a promise.
LEMMA WriteCounts ==
    ASSUME Inv, CInv, NEW c \in Caps, NEW hook, NEW by_cap \in [Caps -> Ids \cup {None}],
           by_cap[c] # None => Find(by_cap[c]),
           NEW ops, NEW x, NEW b, WriteDescriptor(c, hook, by_cap, ops, Descriptor(x, c, b))
    PROVE  /\ x \in Ids /\ refcount' = [refcount EXCEPT ![x] = @ + 1]
           /\ \A e \in Ids : e \notin live' => refcount'[e] = 0
           /\ b = TRUE => refcount[x] = 0
  <1> USE DEF CInv
  <1>1. CASE by_cap[c] # None
    <2>1. /\ Descriptor(x, c, b) = Descriptor(by_cap[c], c, FALSE)
          /\ refcount' = [refcount EXCEPT ![by_cap[c]] = @ + 1] /\ UNCHANGED live
      BY <1>1, Zenon DEF WriteDescriptor, table_vars, vars
    <2>2. x = by_cap[c] /\ b = FALSE
      BY <2>1 DEF Descriptor
    <2>3. x \in live /\ x \in Ids
      BY <1>1, <2>2 DEF Find
    <2> QED
      BY <2>1, <2>2, <2>3
  <1>2. CASE by_cap[c] = None
    <2>1. /\ Descriptor(x, c, b) = Descriptor(pushed', c, c \in Promises)
          /\ refcount' = [refcount EXCEPT ![pushed'] = 1] /\ Push
      BY <1>2, Zenon DEF WriteDescriptor
    <2>2. x = pushed'
      BY <2>1 DEF Descriptor
    <2>3. x \in Ids /\ x \notin live /\ live' = live \cup {x}
      BY <2>1, <2>2, PushedWasFree, Zenon
    <2>4. refcount[x] = 0
      BY <2>3
    <2> QED
      BY <2>1, <2>2, <2>3, <2>4
  <1> QED
    BY <1>1, <1>2, Zenon

\* A message with one more reference is put on the stream to the importer.
LEMMA SentCInv ==
    ASSUME CInv, Running, NEW m \in Messages, to_importer' = Append(to_importer, m),
           m.id \in Ids, refcount' = [refcount EXCEPT ![m.id] = @ + 1],
           \A e \in Ids : e \notin live' => refcount'[e] = 0,
           m.type = "Caps" /\ m.promise = TRUE => refcount[m.id] = 0,
           UNCHANGED <<to_exporter, import_vars, failed, panicked>>
    PROVE  CInv'
  <1>1. to_importer \in Seq(Messages) /\ to_importer' \in Seq(Messages)
    BY DEF CInv
  <1>2. UNCHANGED <<to_exporter, remote_ref_count, app_client, import_refs, promise_refs, old_caps,
                    failed, panicked>>
    BY Zenon DEF import_vars
  <1>3. RefcountBalance'
    <2> SUFFICES ASSUME NEW e \in Ids
                 PROVE  refcount'[e] = Occurrences(to_importer', e) + remote_ref_count'[e]
                                           + Returned(to_exporter', e)
      BY DEF RefcountBalance
    <2>1. refcount[e] = Occurrences(to_importer, e) + remote_ref_count[e] + Returned(to_exporter, e)
      BY DEF CInv, RefcountBalance
    <2>2. /\ Occurrences(to_importer', e) = Occurrences(to_importer, e) + (IF m.id = e THEN 1 ELSE 0)
          /\ Occurrences(to_importer, e) \in Nat
      BY <1>1, OccurrencesAppend, Zenon
    <2>3. Returned(to_exporter, e) \in Nat
      <3>1. to_exporter \in Seq(Releases) /\ [type |-> "Release", id |-> e, count |-> 1] \in Releases
        BY DEF CInv, Releases
      <3> QED
        BY <3>1, ReturnedAppend, Zenon
    <2>4. remote_ref_count[e] \in Nat /\ refcount[e] \in Nat
      BY DEF CInv
    <2>5. refcount'[e] = refcount[e] + IF m.id = e THEN 1 ELSE 0
      BY DEF CInv
    <2>6. /\ remote_ref_count'[e] = remote_ref_count[e]
          /\ Returned(to_exporter', e) = Returned(to_exporter, e)
      BY <1>2, Zenon
    <2> DEFINE x == IF m.id = e THEN 1 ELSE 0
    <2>7. x \in Nat
      OBVIOUS
    <2> HIDE DEF x
    <2>8. refcount[e] + x = (Occurrences(to_importer, e) + x) + remote_ref_count[e]
                                + Returned(to_exporter, e)
      BY <2>1, <2>2, <2>3, <2>4, <2>7
    <2> QED
      BY <2>2, <2>5, <2>6, <2>8, Zenon DEF x
  <1>4. FirstOfItsId'
    <2>1. FirstOfItsId
      BY Zenon DEF CInv
    <2>2. ASSUME m.type = "Caps", m.promise = TRUE
          PROVE  remote_ref_count[m.id] = 0 /\ \A j \in DOMAIN to_importer : to_importer[j].id # m.id
      <3>1. refcount[m.id] = 0
        BY <2>2
      <3>2. refcount[m.id] = Occurrences(to_importer, m.id) + remote_ref_count[m.id]
                                 + Returned(to_exporter, m.id)
        BY DEF CInv, RefcountBalance
      <3>3. Occurrences(to_importer, m.id) \in Nat
        BY <1>1, OccurrencesAppend, Zenon
      <3>4. Returned(to_exporter, m.id) \in Nat
        <4>1. /\ to_exporter \in Seq(Releases)
              /\ [type |-> "Release", id |-> m.id, count |-> 1] \in Releases
          BY DEF CInv, Releases
        <4> QED
          BY <4>1, ReturnedAppend, Zenon
      <3>5. Occurrences(to_importer, m.id) = 0 /\ remote_ref_count[m.id] = 0
        BY <3>1, <3>2, <3>3, <3>4 DEF CInv
      <3> QED
        BY <1>1, <3>5, NoOccurrence, Zenon
    <2>3. /\ Len(to_importer) \in Nat /\ DOMAIN to_importer = 1 .. Len(to_importer)
          /\ DOMAIN to_importer' = 1 .. Len(to_importer) + 1
          /\ to_importer'[Len(to_importer) + 1] = m
          /\ \A i \in 1 .. Len(to_importer) : to_importer'[i] = to_importer[i]
      BY <1>1
    <2>4. remote_ref_count' = remote_ref_count
      BY <1>2, Zenon
    <2> SUFFICES ASSUME NEW i \in DOMAIN to_importer', NewPromise(i)'
                 PROVE  /\ remote_ref_count'[to_importer'[i].id] = 0
                        /\ \A j \in 1 .. i - 1 : to_importer'[j].id # to_importer'[i].id
      BY DEF FirstOfItsId
    <2>5. CASE i = Len(to_importer) + 1
      <3>1. to_importer'[i] = m
        BY <2>3, <2>5, Zenon
      <3>2. remote_ref_count[m.id] = 0 /\ \A j \in DOMAIN to_importer : to_importer[j].id # m.id
        BY <2>2, <3>1, Zenon DEF NewPromise
      <3>3. \A j \in 1 .. i - 1 : j \in 1 .. Len(to_importer)
        BY <2>3, <2>5
      <3> QED
        BY <2>3, <2>4, <3>1, <3>2, <3>3, Zenon
    <2>6. CASE i # Len(to_importer) + 1
      <3>1. i \in 1 .. Len(to_importer) /\ \A j \in 1 .. i - 1 : j \in 1 .. Len(to_importer)
        BY <2>3, <2>6
      <3> QED
        BY <2>1, <2>3, <2>4, <3>1 DEF NewPromise, FirstOfItsId
    <2> QED
      BY <2>5, <2>6
  <1>5. Referenced'
    BY <1>2, Zenon DEF CInv, Referenced
  <1>6. refcount' \in [Ids -> Nat]
    BY DEF CInv
  <1>7. /\ to_exporter' \in Seq(Releases) /\ remote_ref_count' \in [Ids -> Nat]
        /\ app_client' \in [Ids -> {None, "import", "promise"}]
        /\ \A e \in Ids : remote_ref_count'[e] = 0 => app_client'[e] = None
    BY <1>2 DEF CInv
  <1>8. panicked' = FALSE
    BY <1>2, Zenon DEF CInv
  <1> QED
    BY <1>1, <1>3, <1>4, <1>5, <1>6, <1>7, <1>8, Zenon DEF CInv

\* A Resolve with an error, and nothing else, is put on the stream.
LEMMA SentNothingCInv ==
    ASSUME CInv, Running, NEW m \in Messages, to_importer' = Append(to_importer, m),
           m.id = None, m.type = "Resolve",
           UNCHANGED <<live, refcount, to_exporter, import_vars, failed, panicked>>
    PROVE  CInv'
  <1>1. to_importer \in Seq(Messages) /\ to_importer' \in Seq(Messages)
    BY DEF CInv
  <1>2. UNCHANGED <<live, refcount, to_exporter, remote_ref_count, app_client, import_refs,
                    promise_refs, old_caps, failed, panicked>>
    BY Zenon DEF import_vars
  <1>3. RefcountBalance'
    <2> SUFFICES ASSUME NEW e \in Ids
                 PROVE  refcount'[e] = Occurrences(to_importer', e) + remote_ref_count'[e]
                                           + Returned(to_exporter', e)
      BY DEF RefcountBalance
    <2>1. refcount[e] = Occurrences(to_importer, e) + remote_ref_count[e] + Returned(to_exporter, e)
      BY DEF CInv, RefcountBalance
    <2>2. m.id # e
      BY NoneAssumption DEF Ids
    <2>3. /\ Occurrences(to_importer', e) = Occurrences(to_importer, e) + 0
          /\ Occurrences(to_importer, e) \in Nat
      BY <1>1, <2>2, OccurrencesAppend, Zenon
    <2>4. Occurrences(to_importer', e) = Occurrences(to_importer, e)
      BY <2>3
    <2> QED
      BY <1>2, <2>1, <2>4, Zenon
  <1>4. FirstOfItsId'
    <2>1. FirstOfItsId
      BY Zenon DEF CInv
    <2>3. /\ Len(to_importer) \in Nat /\ DOMAIN to_importer = 1 .. Len(to_importer)
          /\ DOMAIN to_importer' = 1 .. Len(to_importer) + 1
          /\ to_importer'[Len(to_importer) + 1] = m
          /\ \A i \in 1 .. Len(to_importer) : to_importer'[i] = to_importer[i]
      BY <1>1
    <2>4. remote_ref_count' = remote_ref_count
      BY <1>2, Zenon
    <2> SUFFICES ASSUME NEW i \in DOMAIN to_importer', NewPromise(i)'
                 PROVE  /\ remote_ref_count'[to_importer'[i].id] = 0
                        /\ \A j \in 1 .. i - 1 : to_importer'[j].id # to_importer'[i].id
      BY DEF FirstOfItsId
    <2>5. i # Len(to_importer) + 1
      BY <2>3, Zenon DEF NewPromise
    <2>6. i \in 1 .. Len(to_importer) /\ \A j \in 1 .. i - 1 : j \in 1 .. Len(to_importer)
      BY <2>3, <2>5
    <2> QED
      BY <2>1, <2>3, <2>4, <2>6 DEF NewPromise, FirstOfItsId
  <1>5. Referenced'
    BY <1>2, Zenon DEF CInv, Referenced
  <1>7. /\ to_exporter' \in Seq(Releases) /\ remote_ref_count' \in [Ids -> Nat]
        /\ refcount' \in [Ids -> Nat] /\ \A e \in Ids : e \notin live' => refcount'[e] = 0
        /\ app_client' \in [Ids -> {None, "import", "promise"}]
        /\ \A e \in Ids : remote_ref_count'[e] = 0 => app_client'[e] = None
    BY <1>2 DEF CInv
  <1>8. panicked' = FALSE
    BY <1>2, Zenon DEF CInv
  <1> QED
    BY <1>1, <1>3, <1>4, <1>5, <1>7, <1>8, Zenon DEF CInv

\* The orders of what one step can drop.
LEMMA DroppedOrders ==
    ASSUME NEW x
    PROVE  /\ \A f \in Bijection(1 .. Cardinality({}), {}) : f = << >>
           /\ \A f \in Bijection(1 .. Cardinality({x}), {x}) : f = <<x>>
  <1>1. Cardinality({}) = 0 /\ Cardinality({x}) = 1
    BY FS_EmptySet, FS_Singleton, Zenon
  <1>2. ASSUME NEW f \in Bijection(1 .. Cardinality({}), {})
        PROVE  f = << >>
    <2>1. f \in [1 .. 0 -> {}]
      BY <1>1, Zenon DEF Bijection, Injection
    <2> QED
      BY <2>1
  <1>3. ASSUME NEW f \in Bijection(1 .. Cardinality({x}), {x})
        PROVE  f = <<x>>
    <2>1. f \in [1 .. 1 -> {x}]
      BY <1>1, Zenon DEF Bijection, Injection
    <2>2. DOMAIN f = 1 .. 1 /\ f[1] = x /\ f = [i \in 1 .. 1 |-> f[i]]
      BY <2>1
    <2>3. \A i \in 1 .. 1 : i = 1
      OBVIOUS
    <2>4. f = [i \in 1 .. 1 |-> x]
      BY <2>2, <2>3, Zenon
    <2> QED
      BY <2>4
  <1> QED
    BY <1>2, <1>3

\* Counts and clients of imports that fit each other.
ImportsOK(rc, app) ==
    /\ rc \in [Ids -> Nat] /\ app \in [Ids -> {None, "import", "promise"}]
    /\ \A e \in Ids : rc[e] = 0 => app[e] = None

\* Every import but x is held.
ReferencedBut(x, rc, irefs, prefs, old) ==
    \A e \in Ids : rc[e] > 0 /\ e # x => e \in irefs \cup prefs \cup old

\* What the imports lose of the counts rc, the Releases gain.
Conserved(rc) ==
    /\ ImportsOK(remote_ref_count', app_client') /\ to_exporter' \in Seq(Releases)
    /\ \A e \in Ids : rc[e] = 0 => remote_ref_count'[e] = 0
    /\ \A e \in Ids : remote_ref_count'[e] + Returned(to_exporter', e)
                          = rc[e] + Returned(to_exporter, e)
    /\ Referenced'

\* The imports that are dropped leave their references to the Releases
\* (ImportClient::drop), whatever else the step did to the counts.
LEMMA DropCounts ==
    ASSUME CInv, NEW rc, NEW den, NEW app, NEW tr, NEW irefs, NEW prefs, NEW old, NEW x \in Ids,
           ImportsOK(rc, app), ReferencedBut(x, rc, irefs, prefs, old),
           Drop(rc, den, app, tr, irefs, prefs, old)
    PROVE  Conserved(rc)
  <1> USE DEF ImportsOK, ReferencedBut
  <1> DEFINE dead == {e \in Ids : rc[e] > 0 /\ e \notin irefs \cup prefs \cup old}
  <1>1. /\ remote_ref_count' = [e \in Ids |-> IF e \in dead THEN 0 ELSE rc[e]]
        /\ app_client' = [e \in Ids |-> IF e \in dead THEN None ELSE app[e]]
        /\ import_refs' = irefs /\ promise_refs' = prefs /\ old_caps' = old
        /\ to_exporter' \in Released(dead, rc)
    BY Zenon DEF Drop
  <1>2. dead = {} \/ (dead = {x} /\ rc[x] > 0)
    OBVIOUS
  <1>3. \A e \in Ids : rc[e] > 0 /\ e \notin dead => e \in irefs \cup prefs \cup old
    OBVIOUS
  <1>4. \A e \in Ids : e \in dead => rc[e] # 0
    OBVIOUS
  <1> HIDE DEF dead
  <1>5. /\ remote_ref_count' \in [Ids -> Nat]
        /\ app_client' \in [Ids -> {None, "import", "promise"}]
        /\ \A e \in Ids : remote_ref_count'[e] = 0 => app_client'[e] = None
        /\ \A e \in Ids : rc[e] = 0 => remote_ref_count'[e] = 0
    BY <1>1, <1>4
  <1>6. Referenced'
    BY <1>1, <1>3 DEF Referenced
  <1>7. to_exporter \in Seq(Releases)
    BY DEF CInv
  <1>8. CASE dead = {}
    <2>1. to_exporter' = to_exporter
      <3>1. PICK f \in Bijection(1 .. Cardinality({}), {}) :
                to_exporter' = to_exporter \o [i \in DOMAIN f |->
                    [type |-> "Release", id |-> f[i], count |-> rc[f[i]]]]
        BY <1>1, <1>8, Zenon DEF Released
      <3>2. f = << >>
        BY DroppedOrders, Zenon
      <3> QED
        BY <1>7, <3>1, <3>2
    <2>2. \A e \in Ids : remote_ref_count'[e] = rc[e]
      BY <1>1, <1>8
    <2> QED
      BY <1>5, <1>6, <1>7, <2>1, <2>2, Zenon DEF Conserved
  <1>9. CASE dead = {x} /\ rc[x] > 0
    <2> DEFINE m == [type |-> "Release", id |-> x, count |-> rc[x]]
    <2>1. to_exporter' = Append(to_exporter, m)
      <3>1. PICK f \in Bijection(1 .. Cardinality({x}), {x}) :
                to_exporter' = to_exporter \o [i \in DOMAIN f |->
                    [type |-> "Release", id |-> f[i], count |-> rc[f[i]]]]
        BY <1>1, <1>9, Zenon DEF Released
      <3>2. f = <<x>>
        BY DroppedOrders, Zenon
      <3> QED
        BY <1>7, <3>1, <3>2
    <2>2. m \in Releases /\ m.id = x /\ m.count = rc[x]
      BY <1>9 DEF Releases
    <2> HIDE DEF m
    <2>3. ASSUME NEW e \in Ids
          PROVE  remote_ref_count'[e] + Returned(to_exporter', e) = rc[e] + Returned(to_exporter, e)
      <3>1. /\ Returned(to_exporter', e) = Returned(to_exporter, e) + (IF x = e THEN rc[x] ELSE 0)
            /\ Returned(to_exporter, e) \in Nat
        BY <1>7, <2>1, <2>2, ReturnedAppend, Zenon
      <3>2. remote_ref_count'[e] = IF x = e THEN 0 ELSE rc[e]
        BY <1>1, <1>9
      <3>3. rc[e] \in Nat
        OBVIOUS
      <3>4. CASE x = e
        <4>1. Returned(to_exporter', e) = Returned(to_exporter, e) + rc[e] /\ remote_ref_count'[e] = 0
          BY <3>1, <3>2, <3>4, Zenon
        <4> QED
          BY <3>1, <3>3, <4>1
      <3>5. CASE x # e
        <4>1. Returned(to_exporter', e) = Returned(to_exporter, e) + 0 /\ remote_ref_count'[e] = rc[e]
          BY <3>1, <3>2, <3>5, Zenon
        <4> QED
          BY <3>1, <3>3, <4>1
      <3> QED
        BY <3>4, <3>5
    <2>4. to_exporter' \in Seq(Releases)
      BY <1>7, <2>1, <2>2
    <2> QED
      BY <1>5, <1>6, <2>3, <2>4, Zenon DEF Conserved
  <1> QED
    BY <1>2, <1>8, <1>9

\* Occurrences are a number.
LEMMA OccurrencesType ==
    ASSUME NEW M, NEW s \in Seq(M), NEW e
    PROVE  Occurrences(s, e) \in Nat
  <1> DEFINE w == [i \in DOMAIN s |-> IF s[i].id = e THEN 1 ELSE 0]
  <1>1. w \in Seq(Nat)
    OBVIOUS
  <1> HIDE DEF w
  <1>2. SeqSum(w) \in Nat
    BY <1>1, SumType, Zenon
  <1> QED
    BY <1>2 DEF w, Occurrences

\* So are the references given back.
LEMMA ReturnedType ==
    ASSUME NEW s \in Seq(Releases), NEW e
    PROVE  Returned(s, e) \in Nat
  <1> DEFINE w == [i \in DOMAIN s |-> IF s[i].id = e THEN s[i].count ELSE 0]
  <1>0. \A i \in DOMAIN s : s[i].count \in Nat
    BY ReleaseFields
  <1>1. w \in Seq(Nat)
    BY <1>0
  <1> HIDE DEF w
  <1>2. SeqSum(w) \in Nat
    BY <1>1, SumType, Zenon
  <1> QED
    BY <1>2 DEF w, Returned

\* The counts with the reference of the first message.
OneMore(rc) ==
    \A e \in Ids : rc[e] = remote_ref_count[e] + (IF Head(to_importer).id = e THEN 1 ELSE 0)

\* The importer handles the first message of its stream.
LEMMA ReceivedCInv ==
    ASSUME CInv, Running, to_importer # << >>, to_importer' = Tail(to_importer),
           NEW rc, NEW den, NEW app, NEW tr, NEW irefs, NEW prefs, NEW old, NEW x \in Ids,
           ImportsOK(rc, app), ReferencedBut(x, rc, irefs, prefs, old), OneMore(rc),
           Drop(rc, den, app, tr, irefs, prefs, old),
           UNCHANGED <<live, refcount>>, panicked' = FALSE
    PROVE  CInv'
  <1>1. /\ to_importer \in Seq(Messages) /\ to_importer' \in Seq(Messages)
        /\ refcount' \in [Ids -> Nat] /\ \A e \in Ids : e \notin live' => refcount'[e] = 0
    BY DEF CInv
  <1>2. /\ remote_ref_count' \in [Ids -> Nat] /\ to_exporter' \in Seq(Releases)
        /\ app_client' \in [Ids -> {None, "import", "promise"}]
        /\ \A e \in Ids : remote_ref_count'[e] = 0 => app_client'[e] = None
        /\ \A e \in Ids : rc[e] = 0 => remote_ref_count'[e] = 0
        /\ \A e \in Ids : remote_ref_count'[e] + Returned(to_exporter', e)
                              = rc[e] + Returned(to_exporter, e)
        /\ Referenced'
    <2>1. Conserved(rc)
      BY DropCounts, Zenon
    <2> QED
      BY <2>1 DEF Conserved, ImportsOK
  <1>3. RefcountBalance'
    <2> SUFFICES ASSUME NEW e \in Ids
                 PROVE  refcount'[e] = Occurrences(to_importer', e) + remote_ref_count'[e]
                                           + Returned(to_exporter', e)
      BY DEF RefcountBalance
    <2>1. refcount'[e] = Occurrences(to_importer, e) + remote_ref_count[e] + Returned(to_exporter, e)
      BY DEF CInv, RefcountBalance
    <2>2. /\ Occurrences(to_importer, e) = (IF Head(to_importer).id = e THEN 1 ELSE 0)
                                               + Occurrences(to_importer', e)
          /\ Occurrences(to_importer', e) \in Nat
      BY <1>1, OccurrencesHead, Zenon
    <2>3. Returned(to_exporter, e) \in Nat /\ Returned(to_exporter', e) \in Nat
      BY <1>2, ReturnedType, Zenon DEF CInv
    <2>4. remote_ref_count[e] \in Nat /\ remote_ref_count'[e] \in Nat /\ rc[e] \in Nat
      BY <1>2 DEF CInv, ImportsOK
    <2>5. /\ remote_ref_count'[e] + Returned(to_exporter', e) = rc[e] + Returned(to_exporter, e)
          /\ rc[e] = remote_ref_count[e] + (IF Head(to_importer).id = e THEN 1 ELSE 0)
      BY <1>2, Zenon DEF OneMore
    <2> DEFINE one == IF Head(to_importer).id = e THEN 1 ELSE 0
               occ == Occurrences(to_importer, e)
               occ1 == Occurrences(to_importer', e)
               ret == Returned(to_exporter, e)
               ret1 == Returned(to_exporter', e)
    <2>6. /\ one \in Nat /\ occ = one + occ1 /\ refcount'[e] = occ + remote_ref_count[e] + ret
          /\ remote_ref_count'[e] + ret1 = (remote_ref_count[e] + one) + ret
          /\ occ1 \in Nat /\ ret \in Nat /\ ret1 \in Nat
      <3>1. one \in Nat
        OBVIOUS
      <3> QED
        BY <2>1, <2>2, <2>3, <2>5, <3>1, Zenon
    <2> HIDE DEF one, occ, occ1, ret, ret1
    <2>7. refcount'[e] = occ1 + remote_ref_count'[e] + ret1
      <3>1. (one + occ1) + remote_ref_count[e] + ret = occ1 + remote_ref_count'[e] + ret1
        <4>1. one \in Nat /\ occ1 \in Nat /\ ret \in Nat /\ ret1 \in Nat
          BY <2>6, Zenon
        <4>2. \A had, has \in Nat : has + ret1 = (had + one) + ret
                  => (one + occ1) + had + ret = occ1 + has + ret1
          BY <4>1
        <4>3. remote_ref_count'[e] + ret1 = (remote_ref_count[e] + one) + ret
          BY <2>6, Zenon
        <4> QED
          BY <2>4, <4>2, <4>3, Zenon
      <3>2. refcount'[e] = (one + occ1) + remote_ref_count[e] + ret
        BY <2>6, Zenon
      <3> QED
        BY <3>1, <3>2, Zenon
    <2> QED
      BY <2>7 DEF occ1, ret1
  <1>4. FirstOfItsId'
    <2>1. FirstOfItsId
      BY Zenon DEF CInv
    <2>2. /\ Len(to_importer) \in Nat /\ DOMAIN to_importer = 1 .. Len(to_importer)
          /\ DOMAIN to_importer' = 1 .. Len(to_importer) - 1
          /\ \A i \in 1 .. Len(to_importer) - 1 : to_importer'[i] = to_importer[i + 1]
          /\ Head(to_importer) = to_importer[1]
      BY <1>1
    <2> SUFFICES ASSUME NEW i \in DOMAIN to_importer', NewPromise(i)'
                 PROVE  /\ remote_ref_count'[to_importer'[i].id] = 0
                        /\ \A j \in 1 .. i - 1 : to_importer'[j].id # to_importer'[i].id
      BY DEF FirstOfItsId
    <2>3. /\ i + 1 \in DOMAIN to_importer /\ to_importer'[i] = to_importer[i + 1]
          /\ 1 \in 1 .. (i + 1) - 1
          /\ \A j \in 1 .. i - 1 : j + 1 \in 1 .. (i + 1) - 1 /\ to_importer'[j] = to_importer[j + 1]
      BY <2>2
    <2>4. /\ remote_ref_count[to_importer[i + 1].id] = 0
          /\ \A j \in 1 .. (i + 1) - 1 : to_importer[j].id # to_importer[i + 1].id
      <3>1. NewPromise(i + 1)
        BY <2>3, Zenon DEF NewPromise
      <3> QED
        BY <2>1, <2>3, <3>1, Zenon DEF FirstOfItsId
    <2>5. to_importer[i + 1].id \in Ids
      <3>1. to_importer[i + 1] \in Messages /\ to_importer[i + 1].type = "Caps"
        BY <1>1, <2>3 DEF NewPromise
      <3> QED
        BY <3>1 DEF Messages
    <2>6. rc[to_importer[i + 1].id] = remote_ref_count[to_importer[i + 1].id] + 0
      BY <2>2, <2>3, <2>4, <2>5, Zenon DEF OneMore
    <2>7. rc[to_importer[i + 1].id] = 0
      BY <2>4, <2>6
    <2>8. remote_ref_count'[to_importer[i + 1].id] = 0
      BY <1>2, <2>5, <2>7, Zenon
    <2> QED
      BY <2>3, <2>4, <2>8, Zenon
  <1> QED
    BY <1>1, <1>2, <1>3, <1>4, Zenon DEF CInv

\* The importer drops a reference of its own.
LEMMA KeptCInv ==
    ASSUME CInv, Running, NEW irefs, NEW prefs, NEW old, NEW x \in Ids,
           ReferencedBut(x, remote_ref_count, irefs, prefs, old),
           Keep(irefs, prefs, old)
    PROVE  CInv'
  <1>0. /\ UNCHANGED <<live, refcount, to_importer, panicked>>
        /\ Drop(remote_ref_count, denotes, app_client, to_resolve, irefs, prefs, old)
    BY Zenon DEF Keep, table_vars, vars, export_vars
  <1>1. /\ to_importer' \in Seq(Messages)
        /\ refcount' \in [Ids -> Nat] /\ \A e \in Ids : e \notin live' => refcount'[e] = 0
    BY <1>0 DEF CInv
  <1>2. /\ remote_ref_count' \in [Ids -> Nat] /\ to_exporter' \in Seq(Releases)
        /\ app_client' \in [Ids -> {None, "import", "promise"}]
        /\ \A e \in Ids : remote_ref_count'[e] = 0 => app_client'[e] = None
        /\ \A e \in Ids : remote_ref_count[e] = 0 => remote_ref_count'[e] = 0
        /\ \A e \in Ids : remote_ref_count'[e] + Returned(to_exporter', e)
                              = remote_ref_count[e] + Returned(to_exporter, e)
        /\ Referenced'
    <2>1. ImportsOK(remote_ref_count, app_client)
      BY Zenon DEF CInv, ImportsOK
    <2>2. Conserved(remote_ref_count)
      BY <1>0, <2>1, DropCounts, Zenon
    <2> QED
      BY <2>2 DEF Conserved, ImportsOK
  <1>3. RefcountBalance'
    <2> SUFFICES ASSUME NEW e \in Ids
                 PROVE  refcount'[e] = Occurrences(to_importer', e) + remote_ref_count'[e]
                                           + Returned(to_exporter', e)
      BY DEF RefcountBalance
    <2> DEFINE occ == Occurrences(to_importer, e)
               ret == Returned(to_exporter, e)
               ret1 == Returned(to_exporter', e)
    <2>1. refcount'[e] = occ + remote_ref_count[e] + ret /\ occ = Occurrences(to_importer', e)
      BY <1>0 DEF CInv, RefcountBalance
    <2>2. occ \in Nat
      BY OccurrencesType, Zenon DEF CInv
    <2>3. ret \in Nat /\ ret1 \in Nat
      BY <1>2, ReturnedType, Zenon DEF CInv
    <2>4. remote_ref_count[e] \in Nat /\ remote_ref_count'[e] \in Nat
      BY <1>2 DEF CInv
    <2>5. remote_ref_count'[e] + ret1 = remote_ref_count[e] + ret
      BY <1>2, Zenon
    <2> HIDE DEF occ, ret, ret1
    <2>6. refcount'[e] = occ + remote_ref_count'[e] + ret1
      BY <2>1, <2>2, <2>3, <2>4, <2>5
    <2> QED
      BY <2>1, <2>6 DEF ret1
  <1>4. FirstOfItsId'
    <2>1. FirstOfItsId
      BY Zenon DEF CInv
    <2> SUFFICES ASSUME NEW i \in DOMAIN to_importer, NewPromise(i)
                 PROVE  /\ remote_ref_count'[to_importer[i].id] = 0
                        /\ \A j \in 1 .. i - 1 : to_importer[j].id # to_importer[i].id
      BY <1>0, Zenon DEF FirstOfItsId, NewPromise
    <2>2. /\ remote_ref_count[to_importer[i].id] = 0
          /\ \A j \in 1 .. i - 1 : to_importer[j].id # to_importer[i].id
      BY <2>1, Zenon DEF FirstOfItsId
    <2>3. to_importer[i].id \in Ids
      <3>1. to_importer[i] \in Messages /\ to_importer[i].type = "Caps"
        BY DEF NewPromise, CInv
      <3> QED
        BY <3>1 DEF Messages
    <2> QED
      BY <1>2, <2>2, <2>3, Zenon
  <1>5. panicked' = FALSE
    BY <1>0, Zenon DEF CInv
  <1> QED
    BY <1>1, <1>2, <1>3, <1>4, <1>5, Zenon DEF CInv

\* The importer's handlers and drops.
LEMMA ImporterCInv ==
    ASSUME CInv, ImporterTask \/ \E e \in Ids : DropImport(e) \/ DropPromise(e)
    PROVE  CInv'
  <1>1. CASE HandleCaps
    <2> DEFINE m == Head(to_importer)
    <2>1. /\ Running /\ to_importer # << >> /\ m.type = "Caps" /\ to_importer' = Tail(to_importer)
          /\ UNCHANGED <<live, refcount>>
      BY <1>1, Zenon DEF HandleCaps, table_vars, vars, export_vars
    <2>2. m \in Messages /\ m = to_importer[1] /\ 1 \in DOMAIN to_importer
      BY <2>1 DEF CInv
    <2>3. m.id \in Ids
      BY <2>1, <2>2 DEF Messages
    <2>4. Referenced /\ FirstOfItsId /\ remote_ref_count \in [Ids -> Nat]
          /\ app_client \in [Ids -> {None, "import", "promise"}]
          /\ \A e \in Ids : remote_ref_count[e] = 0 => app_client[e] = None
      BY <2>1, Zenon DEF CInv
    <2> DEFINE rc == Counted(m.id)
               app(v) == [app_client EXCEPT ![m.id] = v]
    <2>5. /\ OneMore(rc) /\ ImportsOK(rc, app("import")) /\ ImportsOK(rc, app("promise"))
          /\ ReferencedBut(m.id, rc, import_refs \cup {m.id}, promise_refs, old_caps)
          /\ ReferencedBut(m.id, rc, import_refs, promise_refs \cup {m.id}, old_caps)
      BY <2>3, <2>4 DEF OneMore, ImportsOK, ReferencedBut, Referenced, Counted
    <2>6. CASE m.promise = TRUE
      <3>1. app_client[m.id] = None
        BY <2>1, <2>2, <2>3, <2>4, <2>6, Zenon DEF FirstOfItsId, NewPromise
      <3>2. ImportPromise(m.id, m.cap)
        BY <1>1, <2>6, Zenon DEF HandleCaps
      <3>3. None # "import" /\ None # "promise"
        BY NoneAssumption
      <3>4. /\ Drop(rc, Denoting(m.id, m.cap), app("promise"), to_resolve \cup {m.id}, import_refs,
                    promise_refs \cup {m.id}, old_caps)
            /\ panicked' = panicked
        BY <3>1, <3>2, <3>3 DEF ImportPromise
      <3>5. panicked' = FALSE
        BY <3>4, Zenon DEF CInv
      <3> HIDE DEF rc, app, m
      <3> QED
        BY <2>1, <2>3, <2>5, <3>4, <3>5, ReceivedCInv, Zenon
    <2>7. CASE m.promise # TRUE
      <3>1. Drop(rc, Denoting(m.id, m.cap), app("import"), to_resolve, import_refs \cup {m.id},
                 promise_refs, old_caps) /\ panicked' = panicked
        BY <1>1, <2>7, Zenon DEF HandleCaps, ImportSettled
      <3>2. panicked' = FALSE
        BY <3>1, Zenon DEF CInv
      <3> HIDE DEF rc, app, m
      <3> QED
        BY <2>1, <2>3, <2>5, <3>1, <3>2, ReceivedCInv, Zenon
    <2> QED
      BY <2>6, <2>7, Zenon
  <1>2. CASE HandleResolve
    <2> DEFINE m == Head(to_importer)
               p == m.promise_id
               new == IF m.id = None THEN {} ELSE {m.id}
               rc == [i \in Ids |-> IF i \in new THEN remote_ref_count[i] + 1 ELSE remote_ref_count[i]]
               den == [i \in Ids |-> IF i \in new /\ remote_ref_count[i] = 0 THEN m.cap ELSE denotes[i]]
               app == [i \in Ids |-> IF i \in new THEN "import" ELSE app_client[i]]
    <2>1. /\ Running /\ to_importer # << >> /\ m.type = "Resolve" /\ to_importer' = Tail(to_importer)
          /\ UNCHANGED <<live, refcount, panicked>>
      BY <1>2, Zenon DEF HandleResolve, table_vars, vars, export_vars
    <2>2. m \in Messages
      BY <2>1 DEF CInv
    <2>3. p \in Ids /\ m.id \in Ids \cup {None} /\ None \notin Ids
      BY <2>1, <2>2, NoneAssumption DEF Messages, Ids
    <2>4. Referenced /\ remote_ref_count \in [Ids -> Nat]
          /\ app_client \in [Ids -> {None, "import", "promise"}]
          /\ \A e \in Ids : remote_ref_count[e] = 0 => app_client[e] = None
      BY <2>1, Zenon DEF CInv
    <2>5. panicked' = FALSE
      BY <2>1, Zenon DEF CInv
    <2> DEFINE x == IF m.id = None THEN p ELSE m.id
    <2>6. x \in Ids /\ \A i \in Ids : i \in new <=> i = m.id
      BY <2>3
    <2>7. \A i \in new : i = x
      OBVIOUS
    <2>8. \/ Drop(rc, den, app, to_resolve \ {p}, import_refs \cup new, promise_refs \ {p},
                  old_caps \cup {p})
          \/ Drop(rc, den, app, to_resolve \ {p}, import_refs, promise_refs, old_caps)
      BY <1>2, Zenon DEF HandleResolve
    <2> HIDE DEF new, x, p, den, m
    <2>9. /\ OneMore(rc) /\ ImportsOK(rc, app)
          /\ ReferencedBut(x, rc, import_refs, promise_refs, old_caps)
          /\ ReferencedBut(x, rc, import_refs \cup new, promise_refs \ {p}, old_caps \cup {p})
      <3>1. OneMore(rc)
        BY <2>4, <2>6 DEF OneMore, m
      <3>2. ImportsOK(rc, app)
        BY <2>4 DEF ImportsOK
      <3>3. \A i \in Ids : i # x => rc[i] = remote_ref_count[i]
        BY <2>7
      <3> HIDE DEF rc
      <3> QED
        BY <2>4, <3>1, <3>2, <3>3, Zenon DEF ReferencedBut, Referenced
    <2> HIDE DEF rc, app
    <2> QED
      BY <2>1, <2>5, <2>6, <2>8, <2>9, ReceivedCInv, Zenon DEF m
  <1>3. ASSUME NEW e \in Ids, DropOldCap(e) \/ DropImport(e) \/ DropPromise(e)
        PROVE  CInv'
    <2>1. Running /\ Referenced
      BY <1>3 DEF DropOldCap, DropImport, DropPromise, CInv
    <2>2. /\ ReferencedBut(e, remote_ref_count, import_refs \ {e}, promise_refs, old_caps)
          /\ ReferencedBut(e, remote_ref_count, import_refs, promise_refs \ {e}, old_caps)
          /\ ReferencedBut(e, remote_ref_count, import_refs, promise_refs, old_caps \ {e})
      BY <2>1, Zenon DEF Referenced, ReferencedBut
    <2> QED
      BY <1>3, <2>1, <2>2, KeptCInv, Zenon DEF DropOldCap, DropImport, DropPromise
  <1> QED
    BY <1>1, <1>2, <1>3 DEF ImporterTask

\* The counts do not change.
LEMMA UnchangedCInv ==
    ASSUME CInv,
           UNCHANGED <<live, refcount, to_importer, to_exporter, import_vars, failed, panicked>>
    PROVE  CInv'
  <1>1. UNCHANGED <<live, refcount, to_importer, to_exporter, remote_ref_count, app_client,
                    import_refs, promise_refs, old_caps, failed, panicked>>
    BY Zenon DEF import_vars
  <1>2. Running' => Running
    BY <1>1 DEF Running
  <1>3. Running => Referenced' /\ FirstOfItsId' /\ RefcountBalance'
    <2> HAVE Running
    <2>1. Referenced /\ FirstOfItsId /\ RefcountBalance
      BY Zenon DEF CInv
    <2>2. Referenced'
      BY <1>1, <2>1, Zenon DEF Referenced
    <2>3. FirstOfItsId'
      BY <1>1, <2>1, Zenon DEF FirstOfItsId, NewPromise
    <2>4. RefcountBalance'
      BY <1>1, <1>2, <2>1, Zenon DEF RefcountBalance
    <2> QED
      BY <2>2, <2>3, <2>4
  <1>4. /\ to_importer' \in Seq(Messages) /\ to_exporter' \in Seq(Releases)
        /\ refcount' \in [Ids -> Nat] /\ remote_ref_count' \in [Ids -> Nat]
        /\ app_client' \in [Ids -> {None, "import", "promise"}]
        /\ \A e \in Ids : e \notin live' => refcount'[e] = 0
        /\ \A e \in Ids : remote_ref_count'[e] = 0 => app_client'[e] = None
    BY <1>1 DEF CInv
  <1>5. panicked' = FALSE
    BY <1>1, Zenon DEF CInv
  <1> QED
    BY <1>2, <1>3, <1>4, <1>5, Zenon DEF CInv

\* resolve_exported_promise writes one descriptor, or an error.
LEMMA SendResolveCInv ==
    ASSUME Inv, EInv, CInv, Running, NEW e \in Ids, NEW p \in Promises, NEW ops,
           SendResolve(e, p, ops), UNCHANGED <<to_exporter, import_vars, failed, panicked>>
    PROVE  CInv'
  <1>1. CASE redirect[p] \in Objects /\ Find(e)
    <2> DEFINE hook == [client_hook EXCEPT ![e] = redirect[p]]
               by_cap == [exports_by_cap EXCEPT ![client_hook[e]] = None]
               m(d) == [type |-> "Resolve", promise_id |-> e, promise |-> p, id |-> d,
                        cap |-> redirect[p]]
    <2>1. PICK d \in Ids :
              /\ WriteDescriptor(redirect[p], hook, by_cap, ops, Descriptor(d, redirect[p], FALSE))
              /\ to_importer' = Append(to_importer, m(d))
      BY <1>1, Zenon DEF SendResolve
    <2>2. redirect[p] \in Caps /\ by_cap \in [Caps -> Ids \cup {None}]
      BY <1>1, Zenon DEF EInv, Caps
    <2>3. by_cap[redirect[p]] # None => Find(by_cap[redirect[p]])
      BY <2>2 DEF EInv, EntriesAreExports
    <2> DEFINE b == FALSE
               c == redirect[p]
    <2>4. /\ c \in Caps
          /\ by_cap[c] # None => Find(by_cap[c])
          /\ WriteDescriptor(c, hook, by_cap, ops, Descriptor(d, c, b))
      BY <2>1, <2>2, <2>3, Zenon
    <2> HIDE DEF hook, by_cap, m, b, c
    <2>7. /\ refcount' = [refcount EXCEPT ![d] = @ + 1]
          /\ \A i \in Ids : i \notin live' => refcount'[i] = 0
      BY <2>2, <2>4, WriteCounts, Zenon
    <2>5. m(d) \in Messages /\ m(d).id = d /\ m(d).type = "Resolve"
      BY <2>2 DEF Messages, m
    <2>6. m(d).type # "Caps"
      BY <2>5
    <2> QED
      BY <2>1, <2>5, <2>6, <2>7, SentCInv, Zenon
  <1>2. CASE redirect[p] \notin Objects
    <2> DEFINE m == [type |-> "Resolve", promise_id |-> e, promise |-> p, id |-> None, cap |-> Error]
    <2>1. to_importer' = Append(to_importer, m) /\ UNCHANGED <<live, refcount>>
      BY <1>2, Zenon DEF SendResolve, table_vars, vars
    <2>2. m \in Messages /\ m.id = None /\ m.type = "Resolve"
      BY DEF Messages
    <2> HIDE DEF m
    <2> QED
      BY <2>1, <2>2, SentNothingCInv, Zenon
  <1>3. CASE redirect[p] \in Objects /\ ~ Find(e)
    <2>1. UNCHANGED <<live, refcount, to_importer, to_exporter, import_vars, failed, panicked>>
      BY <1>3, Zenon DEF SendResolve, table_vars, vars
    <2> QED
      BY <2>1, UnchangedCInv, Zenon
  <1> QED
    BY <1>1, <1>2, <1>3

\* release_export finds the export of the Release, and enough references.
LEMMA ReleaseCovered ==
    ASSUME CInv, Running, to_exporter # << >>
    PROVE  /\ Head(to_exporter) \in Releases /\ Head(to_exporter).id \in Ids
           /\ Head(to_exporter).count \in Nat \ {0}
           /\ Head(to_exporter).count <= refcount[Head(to_exporter).id]
           /\ Head(to_exporter).id \in live
  <1> DEFINE e == Head(to_exporter).id
             n == Head(to_exporter).count
  <1>1. to_exporter \in Seq(Releases) /\ 1 \in DOMAIN to_exporter /\ Head(to_exporter) = to_exporter[1]
    BY DEF CInv
  <1>2. Head(to_exporter) \in Releases /\ e \in Ids /\ n \in Nat \ {0}
    BY <1>1, ReleaseFields, Zenon
  <1>3. /\ Returned(to_exporter, e) = n + Returned(Tail(to_exporter), e)
        /\ Returned(Tail(to_exporter), e) \in Nat
    BY <1>1, ReturnedHead, Zenon
  <1>4. refcount[e] = Occurrences(to_importer, e) + remote_ref_count[e] + Returned(to_exporter, e)
    BY <1>2 DEF CInv, RefcountBalance
  <1>5. Occurrences(to_importer, e) \in Nat /\ remote_ref_count[e] \in Nat
    BY <1>2, OccurrencesType DEF CInv
  <1> HIDE DEF e, n
  <1>6. n <= refcount[e] /\ refcount[e] # 0
    BY <1>2, <1>3, <1>4, <1>5
  <1>7. e \in live
    BY <1>2, <1>6, Zenon DEF CInv
  <1> QED
    BY <1>2, <1>6, <1>7 DEF e, n

\* So release_export never refuses, and the references leave both sides.
LEMMA ReleaseCInv ==
    ASSUME Inv, CInv, HandleRelease
    PROVE  CInv' /\ failed' = FALSE
  <1> DEFINE m == Head(to_exporter)
             e == m.id
  <1>1. /\ Running /\ to_exporter # << >> /\ to_exporter' = Tail(to_exporter)
        /\ failed' = (~ Find(e) \/ m.count > refcount[e])
        /\ UNCHANGED <<to_importer, import_vars, panicked>>
    BY Zenon DEF HandleRelease
  <1>2. e \in Ids /\ m.count \in Nat \ {0} /\ m.count <= refcount[e] /\ e \in live
    BY <1>1, ReleaseCovered, Zenon
  <1>3. Find(e)
    BY <1>2 DEF Find, Inv, TypeOK, SlotsPartitioned, Ids
  <1>4. refcount \in [Ids -> Nat]
    BY DEF CInv
  <1>5. failed' = FALSE
    <2>1. (~ Find(e) \/ m.count > refcount[e]) = FALSE
      BY <1>2, <1>3, <1>4
    <2> QED
      BY <1>1, <2>1, Zenon
  <1>6. /\ refcount' = [refcount EXCEPT ![e] = @ - m.count]
        /\ live' = live \/ (live' = live \ {e} /\ refcount[e] = m.count)
    <2>1. CASE m.count < refcount[e]
      BY <1>5, <2>1, Zenon DEF HandleRelease, table_vars, vars
    <2>2. CASE ~ (m.count < refcount[e])
      <3>1. refcount[e] = m.count /\ refcount[e] - m.count = 0
        BY <1>2, <1>4, <2>2
      <3>2. refcount' = [refcount EXCEPT ![e] = 0] /\ Erase(e)
        BY <1>5, <2>2, Zenon DEF HandleRelease
      <3> QED
        BY <3>1, <3>2, Zenon DEF Erase
    <2> QED
      BY <2>1, <2>2
  <1> HIDE DEF m, e
  <1>7. /\ refcount' \in [Ids -> Nat] /\ \A i \in Ids : i \notin live' => refcount'[i] = 0
    <2>1. \A i \in Ids : i \notin live => refcount[i] = 0
      BY Zenon DEF CInv
    <2>2. m.count \in Nat /\ refcount[e] \in Nat
      BY <1>2, <1>4
    <2>3. refcount' \in [Ids -> Nat]
      BY <1>2, <1>4, <1>6, <2>2
    <2>4. \A i \in Ids : refcount'[i] = IF i = e THEN refcount[e] - m.count ELSE refcount[i]
      BY <1>2, <1>4, <1>6
    <2> QED
      BY <1>2, <1>6, <2>1, <2>2, <2>3, <2>4
  <1>8. UNCHANGED <<to_importer, remote_ref_count, app_client, import_refs, promise_refs, old_caps,
                    panicked>>
    BY <1>1, Zenon DEF import_vars
  <1>9. RefcountBalance'
    <2> SUFFICES ASSUME NEW i \in Ids
                 PROVE  refcount'[i] = Occurrences(to_importer', i) + remote_ref_count'[i]
                                           + Returned(to_exporter', i)
      BY DEF RefcountBalance
    <2> DEFINE occ == Occurrences(to_importer, i)
               ret == Returned(to_exporter, i)
               ret1 == Returned(to_exporter', i)
    <2>1. refcount[i] = occ + remote_ref_count[i] + ret
      BY <1>1 DEF CInv, RefcountBalance
    <2>2. occ = Occurrences(to_importer', i) /\ remote_ref_count'[i] = remote_ref_count[i]
      BY <1>8, Zenon
    <2>3. ret = (IF e = i THEN m.count ELSE 0) + ret1 /\ ret1 \in Nat
      BY <1>1, ReturnedHead, Zenon DEF m, e, CInv
    <2>4. occ \in Nat /\ remote_ref_count[i] \in Nat
      BY OccurrencesType DEF CInv
    <2>5. refcount'[i] = IF i = e THEN refcount[i] - m.count ELSE refcount[i]
      BY <1>2, <1>4, <1>6
    <2>6. m.count \in Nat
      BY <1>2
    <2> HIDE DEF occ, ret, ret1
    <2>7. refcount'[i] = occ + remote_ref_count[i] + ret1
      <3>1. CASE i = e
        <4>1. ret = m.count + ret1 /\ refcount'[i] = refcount[i] - m.count
          BY <2>3, <2>5, <3>1, Zenon
        <4> QED
          BY <2>1, <2>3, <2>4, <2>6, <4>1
      <3>2. CASE i # e
        <4>1. ret = 0 + ret1 /\ refcount'[i] = refcount[i]
          BY <2>3, <2>5, <3>2, Zenon
        <4> QED
          BY <2>1, <2>3, <2>4, <4>1
      <3> QED
        BY <3>1, <3>2
    <2> QED
      BY <2>2, <2>7 DEF occ, ret1
  <1>10. FirstOfItsId' /\ Referenced'
    BY <1>1, <1>8, Zenon DEF CInv, FirstOfItsId, NewPromise, Referenced
  <1>11. /\ to_importer' \in Seq(Messages) /\ to_exporter' \in Seq(Releases)
         /\ remote_ref_count' \in [Ids -> Nat] /\ app_client' \in [Ids -> {None, "import", "promise"}]
         /\ \A i \in Ids : remote_ref_count'[i] = 0 => app_client'[i] = None
    BY <1>1, <1>8 DEF CInv
  <1>12. panicked' = FALSE
    BY <1>8, Zenon DEF CInv
  <1> QED
    BY <1>5, <1>7, <1>9, <1>10, <1>11, <1>12, Zenon DEF CInv

\* A task waits for a promise.
TInv == resolve_op \in [Ids -> Promises \cup {None}]

\* write_descriptor keeps it.
LEMMA WriteTInv ==
    ASSUME Inv, NEW c, NEW hook, NEW by_cap, NEW ops \in [Ids -> Promises \cup {None}], NEW d,
           WriteDescriptor(c, hook, by_cap, ops, d)
    PROVE  TInv'
  <1>1. CASE by_cap[c] # None
    BY <1>1, Zenon DEF WriteDescriptor, TInv
  <1>2. CASE by_cap[c] = None
    <2>1. resolve_op' = [ops EXCEPT ![pushed'] = IF c \in Promises THEN c ELSE None] /\ Push
      BY <1>2, Zenon DEF WriteDescriptor
    <2>2. pushed' \in Ids
      BY <2>1, PushedWasFree, Zenon
    <2> QED
      BY <2>1, <2>2 DEF TInv
  <1> QED
    BY <1>1, <1>2

\* So does the Resolve of a promise.
LEMMA SendResolveTInv ==
    ASSUME Inv, NEW e, NEW p, NEW ops \in [Ids -> Promises \cup {None}], SendResolve(e, p, ops)
    PROVE  TInv'
  BY WriteTInv, Zenon DEF SendResolve, TInv

\* And every step of the two vats.
LEMMA NextTInv == Inv /\ TInv /\ [PNext]_all_vars => TInv'
  <1> SUFFICES ASSUME Inv, TInv, [PNext]_all_vars PROVE TInv'
    OBVIOUS
  <1>1. CASE \E c \in Caps : SendCap(c)
    BY <1>1, WriteTInv, Zenon DEF SendCap, TInv
  <1>2. ASSUME NEW e \in Ids, ResolveExported(e) PROVE TInv'
    <2>1. [resolve_op EXCEPT ![e] = None] \in [Ids -> Promises \cup {None}]
      BY DEF TInv
    <2> QED
      BY <1>2, <2>1, SendResolveTInv, Zenon DEF ResolveExported
  <1>3. ASSUME NEW e \in Ids, NEW p \in Promises, PollCanceled(e, p) PROVE TInv'
    BY <1>3, SendResolveTInv, Zenon DEF PollCanceled, TInv
  <1>4. CASE HandleRelease
    <2>1. resolve_op' = resolve_op \/ resolve_op' = [resolve_op EXCEPT ![Head(to_exporter).id] = None]
      BY <1>4, Zenon DEF HandleRelease
    <2> QED
      BY <2>1 DEF TInv
  <1>5. CASE \/ \E p \in Promises : DropHold(p) \/ \E r \in Objects \cup {Error} : ResolvePromise(p, r)
             \/ ImporterTask \/ \E e \in Ids : DropImport(e) \/ DropPromise(e)
             \/ UNCHANGED all_vars
    <2>1. UNCHANGED resolve_op
      BY <1>5, Zenon DEF DropHold, ResolvePromise, ImporterTask, HandleCaps, HandleResolve, DropOldCap,
                  DropImport, DropPromise, Keep, export_vars, all_vars
    <2> QED
      BY <2>1, Zenon DEF TInv
  <1> QED
    BY <1>1, <1>2, <1>3, <1>4, <1>5, Zenon DEF PNext, ExporterTask

\* Every step of the two vats keeps the invariant.
LEMMA NextCInv == Inv /\ EInv /\ TInv /\ CInv /\ [PNext]_all_vars => CInv'
  <1> SUFFICES ASSUME Inv, EInv, TInv, CInv, [PNext]_all_vars PROVE CInv'
    OBVIOUS
  <1>1. ASSUME NEW c \in Caps, SendCap(c) PROVE CInv'
    <2> DEFINE i == Innermost(c)
    <2>1. /\ Running /\ i \in Caps /\ UNCHANGED <<to_exporter, import_vars, failed, panicked>>
      BY <1>1, Zenon DEF SendCap
    <2>2. PICK e \in Ids, b \in BOOLEAN :
              /\ WriteDescriptor(i, client_hook, exports_by_cap, resolve_op, Descriptor(e, i, b))
              /\ to_importer' = Append(to_importer, Descriptor(e, i, b))
      BY <1>1, Zenon DEF SendCap
    <2> HIDE DEF i
    <2>3. /\ exports_by_cap \in [Caps -> Ids \cup {None}]
          /\ exports_by_cap[i] # None => Find(exports_by_cap[i])
      BY <2>1, Zenon DEF EInv, EntriesAreExports
    <2>4. /\ refcount' = [refcount EXCEPT ![e] = @ + 1]
          /\ \A x \in Ids : x \notin live' => refcount'[x] = 0
          /\ b = TRUE => refcount[e] = 0
      BY <2>1, <2>2, <2>3, WriteCounts, Zenon
    <2> DEFINE m == Descriptor(e, i, b)
    <2>5. m \in Messages /\ m.id = e /\ m.promise = b
      BY <2>1 DEF Messages, Descriptor
    <2> HIDE DEF m
    <2>6. to_importer' = Append(to_importer, m)
      BY <2>2 DEF m
    <2> QED
      BY <2>1, <2>4, <2>5, <2>6, SentCInv, Zenon
  <1>2. ASSUME NEW e \in Ids, ResolveExported(e) PROVE CInv'
    <2>1. resolve_op[e] \in Promises
      BY <1>2 DEF ResolveExported, TInv
    <2> QED
      BY <1>2, <2>1, SendResolveCInv, Zenon DEF ResolveExported
  <1>3. ASSUME NEW e \in Ids, NEW p \in Promises, PollCanceled(e, p) PROVE CInv'
    <2>1. CASE redirect[p] # None \/ ~ Alive(p)
      BY <1>3, <2>1, SendResolveCInv, Zenon DEF PollCanceled
    <2>2. CASE ~ (redirect[p] # None \/ ~ Alive(p))
      <3>1. UNCHANGED <<live, refcount, to_importer, to_exporter, import_vars, failed, panicked>>
        BY <1>3, <2>2, Zenon DEF PollCanceled, table_vars, vars
      <3> QED
        BY <3>1, UnchangedCInv, Zenon
    <2> QED
      BY <2>1, <2>2
  <1>4. CASE HandleRelease
    BY <1>4, ReleaseCInv, Zenon
  <1>5. CASE ImporterTask \/ \E e \in Ids : DropImport(e) \/ DropPromise(e)
    BY <1>5, ImporterCInv, Zenon
  <1>6. CASE (\E p \in Promises : DropHold(p) \/ \E r \in Objects \cup {Error} : ResolvePromise(p, r))
                \/ UNCHANGED all_vars
    <2>1. UNCHANGED <<live, refcount, to_importer, to_exporter, import_vars, failed, panicked>>
      BY <1>6, Zenon DEF DropHold, ResolvePromise, all_vars, table_vars, vars, export_vars
    <2> QED
      BY <2>1, UnchangedCInv, Zenon
  <1> QED
    BY <1>1, <1>2, <1>3, <1>4, <1>5, <1>6, Zenon DEF PNext, ExporterTask

\* All four invariants together.
LEMMA PInvariant == PSpec => [](Inv /\ EInv /\ TInv /\ CInv)
  <1>1. PInit => Inv
    BY InitInv DEF PInit
  <1>2. Inv /\ [PNext]_all_vars => Inv'
    BY PNextIsNext, NextInv
  <1>3. PInit => TInv
    BY DEF PInit, TInv
  <1> QED
    BY <1>1, <1>2, <1>3, InitEInv, NextEInv, InitCInv, NextTInv, NextCInv, PTL DEF PSpec

\* The exporter's count of an export is exactly what is under way to the importer,
\* held by it and on its way back, for any number of promises, ids and messages:
\* crossing descriptors, Resolves and Releases lose no reference and count none twice.
THEOREM ReferencesBalance == PSpec => []RefcountBalance
  <1>1. CInv => RefcountBalance
    BY Zenon DEF CInv, RefcountBalance
  <1> QED
    BY <1>1, PInvariant, PTL

\* Neither vat meets a stale table: write_descriptor's unreachable!() and the
\* dangling client of import are never reached.
THEOREM NothingDangles == PSpec => []NoDanglingEntry
  <1>1. EInv /\ CInv => NoDanglingEntry
    BY Zenon DEF EInv, CInv, NoDanglingEntry
  <1> QED
    BY <1>1, PInvariant, PTL

\* A Release never names an export that is gone, or more references than it has.
ReleasesAreCovered == [][HandleRelease => ~ failed']_all_vars

\* The branches of release_export that disconnect are never taken.
THEOREM ReleasesAccepted == PSpec => ReleasesAreCovered
  <1>1. Inv /\ CInv /\ [PNext]_all_vars => [HandleRelease => ~ failed']_all_vars
    <2> SUFFICES ASSUME Inv, CInv, HandleRelease PROVE ~ failed'
      OBVIOUS
    <2>1. failed' = FALSE
      BY ReleaseCInv, Zenon
    <2> QED
      BY <2>1, Zenon
  <1> QED
    BY <1>1, PInvariant, PTL DEF PSpec, ReleasesAreCovered

=============================================================================
