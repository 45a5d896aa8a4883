-------------------------- MODULE QuestionsProofs --------------------------
(***************************************************************************)
(* For any number of question ids and any number of messages under way:    *)
(* the invariant IInv of module Questions is inductive, hence the two vats *)
(* never reject each other's messages and no unreachable!() is reached.    *)
(*                                                                         *)
(* First what one message more, or one less, in a stream does to the       *)
(* predicates of IInv; then one lemma per action.                          *)
(***************************************************************************)
EXTENDS Questions, TLAPS

----------------------------------------------------------------------------
(* Streams as sequences *)

\* A message is added to the stream of the client.
LEMMA C2SAppend ==
    ASSUME c2s \in Seq(ToServer), NEW m \in ToServer, c2s' = Append(c2s, m)
    PROVE  /\ c2s' \in Seq(ToServer)
           /\ Len(c2s) \in Nat /\ Len(c2s') = Len(c2s) + 1
           /\ \A i \in C2S : c2s'[i] = c2s[i]
           /\ c2s'[Len(c2s) + 1] = m
  BY DEF C2S

\* The first message is taken from the stream of the client.
LEMMA C2STail ==
    ASSUME c2s \in Seq(ToServer), c2s # << >>, c2s' = Tail(c2s)
    PROVE  /\ c2s' \in Seq(ToServer)
           /\ Len(c2s) \in Nat /\ Len(c2s) >= 1 /\ Len(c2s') = Len(c2s) - 1
           /\ Head(c2s) = c2s[1] /\ c2s[1] \in ToServer
           /\ \A i \in 1 .. Len(c2s) - 1 : c2s'[i] = c2s[i + 1]
  OBVIOUS

\* A message is added to the stream of the server.
LEMMA S2CAppend ==
    ASSUME s2c \in Seq(ToClient), NEW m \in ToClient, s2c' = Append(s2c, m)
    PROVE  /\ s2c' \in Seq(ToClient)
           /\ Len(s2c) \in Nat /\ Len(s2c') = Len(s2c) + 1
           /\ \A i \in S2C : s2c'[i] = s2c[i]
           /\ s2c'[Len(s2c) + 1] = m
  BY DEF S2C

\* The first message is taken from the stream of the server.
LEMMA S2CTail ==
    ASSUME s2c \in Seq(ToClient), s2c # << >>, s2c' = Tail(s2c)
    PROVE  /\ s2c' \in Seq(ToClient)
           /\ Len(s2c) \in Nat /\ Len(s2c) >= 1 /\ Len(s2c') = Len(s2c) - 1
           /\ Head(s2c) = s2c[1] /\ s2c[1] \in ToClient
           /\ \A i \in 1 .. Len(s2c) - 1 : s2c'[i] = s2c[i + 1]
  OBVIOUS

----------------------------------------------------------------------------
(* The client's stream *)

C2SOK == CallsDistinct /\ FinishesSeparated /\ NothingUnimplemented

\* What a step leaves of the pending messages of an id.
C2SSame(q) ==
    /\ CallPending(q)' <=> CallPending(q)
    /\ OldFinishPending(q)' <=> OldFinishPending(q)
    /\ NewFinishPending(q)' <=> NewFinishPending(q)

\* A Finish behind a Call has that Call before it.
LEMMA NewFinishFollowsCall == \A q : NewFinishPending(q) => CallPending(q)
  BY DEF NewFinishPending, CallBefore, CallPending

\* An Abort of the client is neither a Call nor a Finish.
LEMMA AppendOther ==
    ASSUME c2s \in Seq(ToServer), C2SOK, c2s' = Append(c2s, Abort)
    PROVE  c2s' \in Seq(ToServer) /\ C2SOK' /\ \A q \in Ids : C2SSame(q)
<1>0. Abort \in ToServer /\ Abort.type = "Abort"
  BY DEF Abort, ToServer
<1>1. /\ c2s' \in Seq(ToServer)
      /\ Len(c2s) \in Nat /\ Len(c2s') = Len(c2s) + 1
      /\ \A i \in C2S : c2s'[i] = c2s[i]
      /\ c2s'[Len(c2s) + 1] = Abort
  BY <1>0, C2SAppend, Zenon
<1>2. \A i, q : /\ CallAt(i, q)' <=> CallAt(i, q)
                /\ FinishAt(i, q)' <=> FinishAt(i, q)
  BY <1>0, <1>1 DEF CallAt, FinishAt, C2S
<1>3. \A i, q : CallAt(i, q) \/ FinishAt(i, q) => i \in C2S
  BY DEF CallAt, FinishAt
<1>4. C2S \subseteq C2S'
  BY <1>1 DEF C2S
<1>5. \A q : \A i \in C2S : CallBefore(i, q)' <=> CallBefore(i, q)
  BY <1>2, <1>3, <1>4 DEF CallBefore
<1>6. \A q \in Ids : C2SSame(q)
  BY <1>2, <1>3, <1>4, <1>5 DEF C2SSame, CallPending, OldFinishPending, NewFinishPending
<1>7. CallsDistinct' /\ FinishesSeparated'
  BY <1>2, <1>3, <1>4 DEF C2SOK, CallsDistinct, FinishesSeparated
<1>8. NothingUnimplemented'
  BY <1>0, <1>1 DEF C2SOK, NothingUnimplemented, C2S
<1> QED
  BY <1>1, <1>6, <1>7, <1>8 DEF C2SOK

\* What adding a Call makes pending.
LEMMA AppendCall ==
    ASSUME c2s \in Seq(ToServer), C2SOK, NEW r \in Ids, ~ CallPending(r),
           NEW t \in {"Call", "Bootstrap"}, c2s' = Append(c2s, Msg(t, r))
    PROVE  /\ c2s' \in Seq(ToServer) /\ C2SOK'
           /\ \A q \in Ids \ {r} : C2SSame(q)
           /\ CallPending(r)'
           /\ OldFinishPending(r)' <=> OldFinishPending(r)
           /\ NewFinishPending(r)' <=> NewFinishPending(r)
<1> DEFINE m == Msg(t, r)
<1>0. m \in ToServer /\ m.type \in {"Call", "Bootstrap"} /\ m.id = r
  BY DEF Msg, ToServer
<1>1. /\ c2s' \in Seq(ToServer)
      /\ Len(c2s) \in Nat /\ Len(c2s') = Len(c2s) + 1
      /\ \A i \in C2S : c2s'[i] = c2s[i]
      /\ c2s'[Len(c2s) + 1] = m
  BY <1>0, C2SAppend, Zenon
<1> HIDE DEF m
<1>2. \A i, q : /\ CallAt(i, q)' <=> CallAt(i, q) \/ (i = Len(c2s) + 1 /\ q = r)
                /\ FinishAt(i, q)' <=> FinishAt(i, q)
  BY <1>0, <1>1 DEF CallAt, FinishAt, C2S
<1>3. \A i, q : CallAt(i, q) \/ FinishAt(i, q) => i \in C2S
  BY DEF CallAt, FinishAt
<1>4. /\ C2S \subseteq C2S' /\ Len(c2s) + 1 \in C2S'
      /\ \A i \in C2S : i \in Nat /\ i < Len(c2s) + 1
  BY <1>1 DEF C2S
<1>5. \A q : \A i \in C2S : CallBefore(i, q)' <=> CallBefore(i, q)
  BY <1>1, <1>2, <1>3, <1>4 DEF CallBefore
<1>6. \A q \in Ids : /\ OldFinishPending(q)' <=> OldFinishPending(q)
                     /\ NewFinishPending(q)' <=> NewFinishPending(q)
  BY <1>2, <1>3, <1>4, <1>5 DEF OldFinishPending, NewFinishPending
<1>7. CallPending(r)' /\ \A q \in Ids \ {r} : CallPending(q)' <=> CallPending(q)
  BY <1>2, <1>3, <1>4 DEF CallPending
<1>8. CallsDistinct'
  BY <1>2, <1>3, <1>4 DEF C2SOK, CallsDistinct, CallPending
<1>9. FinishesSeparated'
  BY <1>2, <1>3, <1>4 DEF C2SOK, FinishesSeparated
<1>10. NothingUnimplemented'
  BY <1>0, <1>1 DEF C2SOK, NothingUnimplemented, C2S
<1> QED
  BY <1>1, <1>6, <1>7, <1>8, <1>9, <1>10 DEF C2SOK, C2SSame

\* A Finish may follow only a Call, or a stream without one for its id.
LEMMA AppendFinish ==
    ASSUME c2s \in Seq(ToServer), C2SOK, NEW r \in Ids,
           ~ NewFinishPending(r), OldFinishPending(r) => CallPending(r),
           c2s' = Append(c2s, Msg("Finish", r))
    PROVE  /\ c2s' \in Seq(ToServer) /\ C2SOK'
           /\ \A q \in Ids \ {r} : C2SSame(q)
           /\ CallPending(r)' <=> CallPending(r)
           /\ NewFinishPending(r)' <=> CallPending(r)
           /\ OldFinishPending(r)' <=> OldFinishPending(r) \/ ~ CallPending(r)
<1> DEFINE m == Msg("Finish", r)
<1>0. m \in ToServer /\ m.type = "Finish" /\ m.id = r
  BY DEF Msg, ToServer
<1>1. /\ c2s' \in Seq(ToServer)
      /\ Len(c2s) \in Nat /\ Len(c2s') = Len(c2s) + 1
      /\ \A i \in C2S : c2s'[i] = c2s[i]
      /\ c2s'[Len(c2s) + 1] = m
  BY <1>0, C2SAppend, Zenon
<1> HIDE DEF m
<1>n. PICK n \in Nat : n = Len(c2s) + 1
  BY <1>1
<1>2. \A i, q : /\ CallAt(i, q)' <=> CallAt(i, q)
                /\ FinishAt(i, q)' <=> FinishAt(i, q) \/ (i = n /\ q = r)
  BY <1>0, <1>1, <1>n DEF CallAt, FinishAt, C2S
<1>3. \A i, q : CallAt(i, q) \/ FinishAt(i, q) => i \in C2S
  BY DEF CallAt, FinishAt
<1>4. /\ C2S \subseteq C2S' /\ n \in C2S'
      /\ \A i \in C2S' : i \in Nat /\ (i \in C2S \/ i = n)
      /\ \A i \in C2S : i \in Nat /\ i < n
  BY <1>1, <1>n DEF C2S
<1>5. \A q : \A i \in C2S : CallBefore(i, q)' <=> CallBefore(i, q)
  BY <1>2, <1>3, <1>4 DEF CallBefore
<1>6. CallBefore(n, r)' <=> CallPending(r)
  BY <1>2, <1>3, <1>4 DEF CallBefore, CallPending
<1>7. \A q \in Ids : CallPending(q)' <=> CallPending(q)
  BY <1>2, <1>3, <1>4 DEF CallPending
<1>8. \A q \in Ids \ {r} : C2SSame(q)
  BY <1>2, <1>3, <1>4, <1>5, <1>7 DEF C2SSame, OldFinishPending, NewFinishPending
<1>9. CallPending(r) => /\ NewFinishPending(r)'
                        /\ OldFinishPending(r)' <=> OldFinishPending(r)
  BY <1>2, <1>3, <1>4, <1>5, <1>6 DEF OldFinishPending, NewFinishPending
<1>10. ~ CallPending(r) => OldFinishPending(r)' /\ ~ NewFinishPending(r)'
  <2>1. FinishAt(n, r)' /\ n \in C2S'
    BY <1>2, <1>4
  <2>2. ~ CallPending(r) => OldFinishPending(r)'
    BY <2>1, <1>6 DEF OldFinishPending
  <2>3. ~ CallPending(r) => ~ NewFinishPending(r)'
    BY <1>7, NewFinishFollowsCall, <1>2, <1>3, <1>4, <1>5, <1>6 DEF NewFinishPending
  <2> QED
    BY <2>2, <2>3
<1>11. CallsDistinct'
  BY <1>2, <1>3 DEF C2SOK, CallsDistinct
<1>12. FinishesSeparated'
  <2> SUFFICES ASSUME NEW q \in Ids, NEW i \in C2S', NEW j \in C2S',
                      i < j, FinishAt(i, q)', FinishAt(j, q)'
               PROVE  \E k \in C2S' : i < k /\ k < j /\ CallAt(k, q)'
    BY DEF FinishesSeparated
  <2>1. CASE j \in C2S
    <3>1. FinishAt(i, q) /\ FinishAt(j, q) /\ i \in C2S
      BY <1>1, <1>2, <1>3, <1>4, <2>1
    <3> QED
      BY <3>1, <2>1, <1>2, <1>4 DEF C2SOK, FinishesSeparated
  <2>2. CASE j = n
    <3>1. q = r /\ FinishAt(i, r) /\ i \in C2S
      BY <1>2, <1>3, <1>4, <2>2
    <3>2. OldFinishPending(r) /\ ~ CallBefore(i, r)
      BY <3>1 DEF OldFinishPending, NewFinishPending
    <3>3. PICK k \in C2S : CallAt(k, r)
      BY <3>2 DEF CallPending
    <3>4. ~ (k < i) /\ k # i
      BY <3>1, <3>2, <3>3 DEF CallBefore, CallAt, FinishAt
    <3>5. i < k /\ k < n
      BY <3>1, <3>4, <1>4
    <3> QED
      BY <3>1, <3>3, <3>5, <2>2, <1>2, <1>4
  <2> QED
    BY <2>1, <2>2, <1>4
<1>13. NothingUnimplemented'
  BY <1>0, <1>1 DEF C2SOK, NothingUnimplemented, C2S
<1>14. C2SOK'
  BY <1>11, <1>12, <1>13 DEF C2SOK
<1>15. NewFinishPending(r)' <=> CallPending(r)
  BY <1>9, <1>10
<1>16. OldFinishPending(r)' <=> OldFinishPending(r) \/ ~ CallPending(r)
  BY <1>9, <1>10
<1> QED
  BY <1>1, <1>7, <1>8, <1>14, <1>15, <1>16

\* Taking the first message moves every other one a place forward.
LEMMA TailShift ==
    ASSUME c2s \in Seq(ToServer), c2s # << >>, c2s' = Tail(c2s)
    PROVE  /\ \A i, q : CallAt(i, q)' => i \in C2S' /\ i + 1 \in C2S /\ CallAt(i + 1, q)
           /\ \A i, q : FinishAt(i, q)' => i \in C2S' /\ i + 1 \in C2S /\ FinishAt(i + 1, q)
           /\ \A q : \A i \in C2S : i # 1 /\ CallAt(i, q) => i - 1 \in C2S' /\ CallAt(i - 1, q)'
           /\ \A q : \A i \in C2S : i # 1 /\ FinishAt(i, q) => i - 1 \in C2S' /\ FinishAt(i - 1, q)'
           /\ \A i \in C2S : i \in Nat /\ i >= 1
           /\ \A i \in C2S' : i \in Nat /\ i >= 1 /\ i + 1 \in C2S
<1>1. /\ Len(c2s) \in Nat /\ Len(c2s) >= 1 /\ Len(c2s') = Len(c2s) - 1
      /\ \A i \in 1 .. Len(c2s) - 1 : c2s'[i] = c2s[i + 1]
  BY C2STail
<1>2. \A i \in C2S : i # 1 => i - 1 \in C2S' /\ c2s'[i - 1] = c2s[i]
  BY <1>1 DEF C2S
<1> QED
  BY <1>1, <1>2 DEF CallAt, FinishAt, C2S

\* What taking the first message does to the ids it is not about, and to its own.
LEMMA TailOther ==
    ASSUME c2s \in Seq(ToServer), C2SOK, c2s # << >>, c2s' = Tail(c2s),
           NEW q \in Ids, ~ CallAt(1, q), ~ FinishAt(1, q)
    PROVE  C2SSame(q)
<1>1. CallPending(q)' <=> CallPending(q)
  BY TailShift DEF CallPending
<1>2. \A i \in C2S' : CallBefore(i, q)' <=> CallBefore(i + 1, q)
  BY TailShift DEF CallBefore
<1>3. \A i \in C2S : i # 1 => (CallBefore(i - 1, q)' <=> CallBefore(i, q))
  BY TailShift DEF CallBefore
<1>4. OldFinishPending(q)' <=> OldFinishPending(q)
  BY <1>2, <1>3, TailShift DEF OldFinishPending
<1>5. NewFinishPending(q)' <=> NewFinishPending(q)
  BY <1>2, <1>3, TailShift DEF NewFinishPending
<1> QED
  BY <1>1, <1>4, <1>5 DEF C2SSame

\* What taking a Call leaves pending.
LEMMA TailCall ==
    ASSUME c2s \in Seq(ToServer), C2SOK, c2s # << >>, c2s' = Tail(c2s),
           NEW q \in Ids, CallAt(1, q)
    PROVE  /\ CallPending(q) /\ ~ OldFinishPending(q)
           /\ ~ CallPending(q)' /\ ~ NewFinishPending(q)'
           /\ OldFinishPending(q)' <=> NewFinishPending(q)
<1>0. 1 \in C2S
  BY DEF CallAt
<1>1. ~ FinishAt(1, q)
  BY DEF CallAt, FinishAt
<1>2. \A i \in C2S : CallAt(i, q) => i = 1
  BY <1>0 DEF C2SOK, CallsDistinct
<1>3. ~ CallPending(q)'
  BY <1>2, TailShift DEF CallPending
<1>4. ~ NewFinishPending(q)'
  BY <1>3 DEF NewFinishPending, CallBefore, CallPending
<1>5. \A i \in C2S : i # 1 => CallBefore(i, q)
  BY <1>0, TailShift DEF CallBefore
<1>6. CallPending(q) /\ ~ OldFinishPending(q)
  BY <1>0, <1>1, <1>5 DEF CallPending, OldFinishPending
<1>7. \A i \in C2S' : ~ CallBefore(i, q)'
  BY <1>3 DEF CallBefore, CallPending
<1>8. OldFinishPending(q)' <=> NewFinishPending(q)
  BY <1>1, <1>5, <1>7, TailShift DEF OldFinishPending, NewFinishPending
<1> QED
  BY <1>3, <1>4, <1>6, <1>8

\* What taking a Finish leaves pending.
LEMMA TailFinish ==
    ASSUME c2s \in Seq(ToServer), C2SOK, c2s # << >>, c2s' = Tail(c2s),
           NEW q \in Ids, FinishAt(1, q)
    PROVE  /\ OldFinishPending(q) /\ ~ OldFinishPending(q)'
           /\ CallPending(q)' <=> CallPending(q)
           /\ NewFinishPending(q)' <=> NewFinishPending(q)
<1>0. 1 \in C2S /\ ~ CallAt(1, q) /\ ~ CallBefore(1, q)
  BY TailShift DEF FinishAt, CallAt, CallBefore
<1>1. CallPending(q)' <=> CallPending(q)
  BY <1>0, TailShift DEF CallPending
<1>2. \A i \in C2S' : CallBefore(i, q)' <=> CallBefore(i + 1, q)
  BY <1>0, TailShift DEF CallBefore
<1>3. \A i \in C2S : i # 1 => (CallBefore(i - 1, q)' <=> CallBefore(i, q))
  BY <1>0, TailShift DEF CallBefore
<1>4. NewFinishPending(q)' <=> NewFinishPending(q)
  BY <1>0, <1>2, <1>3, TailShift DEF NewFinishPending
<1>5. OldFinishPending(q)
  BY <1>0 DEF OldFinishPending
<1>6. \A i \in C2S : i # 1 /\ FinishAt(i, q) => CallBefore(i, q)
  <2> SUFFICES ASSUME NEW i \in C2S, i # 1, FinishAt(i, q) PROVE CallBefore(i, q)
    OBVIOUS
  <2>1. 1 < i
    BY TailShift
  <2>2. PICK k \in C2S : 1 < k /\ k < i /\ CallAt(k, q)
    BY <1>0, <2>1 DEF C2SOK, FinishesSeparated
  <2> QED
    BY <2>2 DEF CallBefore
<1>7. ~ OldFinishPending(q)'
  <2> SUFFICES ASSUME NEW i \in C2S', FinishAt(i, q)', ~ CallBefore(i, q)' PROVE FALSE
    BY DEF OldFinishPending
  <2>1. i + 1 \in C2S /\ FinishAt(i + 1, q) /\ i + 1 # 1
    BY TailShift
  <2> QED
    BY <2>1, <1>2, <1>6
<1> QED
  BY <1>1, <1>4, <1>5, <1>7

\* The order of a stream survives taking its first message.
LEMMA TailOK ==
    ASSUME c2s \in Seq(ToServer), C2SOK, c2s # << >>, c2s' = Tail(c2s)
    PROVE  c2s' \in Seq(ToServer) /\ C2SOK'
<1>1. CallsDistinct'
  <2> SUFFICES ASSUME NEW q \in Ids, NEW i \in C2S', NEW j \in C2S',
                      CallAt(i, q)', CallAt(j, q)'
               PROVE  i = j
    BY DEF CallsDistinct
  <2>1. i + 1 = j + 1
    BY TailShift DEF C2SOK, CallsDistinct
  <2> QED
    BY <2>1, TailShift
<1>2. FinishesSeparated'
  <2> SUFFICES ASSUME NEW q \in Ids, NEW i \in C2S', NEW j \in C2S',
                      i < j, FinishAt(i, q)', FinishAt(j, q)'
               PROVE  \E k \in C2S' : i < k /\ k < j /\ CallAt(k, q)'
    BY DEF FinishesSeparated
  <2>1. /\ i + 1 \in C2S /\ FinishAt(i + 1, q) /\ j + 1 \in C2S /\ FinishAt(j + 1, q)
        /\ i \in Nat /\ j \in Nat /\ i + 1 < j + 1
    BY TailShift
  <2>2. PICK k \in C2S : i + 1 < k /\ k < j + 1 /\ CallAt(k, q)
    BY <2>1 DEF C2SOK, FinishesSeparated
  <2>3. k - 1 \in C2S' /\ CallAt(k - 1, q)' /\ i < k - 1 /\ k - 1 < j
    BY <2>1, <2>2, TailShift
  <2> QED
    BY <2>3
<1>3. NothingUnimplemented'
  BY C2STail DEF C2SOK, NothingUnimplemented, C2S
<1> QED
  BY <1>1, <1>2, <1>3, C2STail DEF C2SOK

----------------------------------------------------------------------------
(* The server's stream *)

S2CSame(q) ==
    /\ ReturnPending(q)' <=> ReturnPending(q)
    /\ CanceledPending(q)' <=> CanceledPending(q)

\* What adding a Return makes pending.
LEMMA AppendReturn ==
    ASSUME s2c \in Seq(ToClient), ReturnsDistinct, NEW r \in Ids, ~ ReturnPending(r),
           NEW t \in ReturnTypes, s2c' = Append(s2c, Msg(t, r))
    PROVE  /\ s2c' \in Seq(ToClient) /\ ReturnsDistinct'
           /\ \A q \in Ids \ {r} : S2CSame(q)
           /\ CanceledPending(r)' => t = "Canceled"
<1> DEFINE m == Msg(t, r)
<1>0. m \in ToClient /\ m.type = t /\ m.id = r
  BY DEF Msg, ToClient
<1>1. /\ s2c' \in Seq(ToClient)
      /\ Len(s2c) \in Nat /\ Len(s2c') = Len(s2c) + 1
      /\ \A i \in S2C : s2c'[i] = s2c[i]
      /\ s2c'[Len(s2c) + 1] = m
  BY <1>0, S2CAppend, Zenon
<1> HIDE DEF m
<1>n. PICK n \in Nat : n = Len(s2c) + 1
  BY <1>1
<1>2. \A i, q : ReturnAt(i, q)' <=> ReturnAt(i, q) \/ (i = n /\ q = r)
  BY <1>0, <1>1, <1>n DEF ReturnAt, S2C
<1>3. /\ \A i, q : ReturnAt(i, q) => i \in S2C
      /\ S2C \subseteq S2C' /\ n \notin S2C
      /\ s2c'[n].type = t
      /\ \A i \in S2C : s2c'[i] = s2c[i]
  BY <1>0, <1>1, <1>n DEF ReturnAt, S2C
<1>4. ReturnsDistinct'
  BY <1>2, <1>3 DEF ReturnsDistinct, ReturnPending
<1>5. \A q \in Ids \ {r} : S2CSame(q)
  BY <1>2, <1>3, Zenon DEF S2CSame, ReturnPending, CanceledPending
<1>6. CanceledPending(r)' => t = "Canceled"
  BY <1>2, <1>3, Zenon DEF ReturnPending, CanceledPending
<1> QED
  BY <1>1, <1>4, <1>5, <1>6

\* An Abort of the server is no Return.
LEMMA AppendServerAbort ==
    ASSUME s2c \in Seq(ToClient), ReturnsDistinct, s2c' = Append(s2c, Abort)
    PROVE  s2c' \in Seq(ToClient) /\ ReturnsDistinct' /\ \A q \in Ids : S2CSame(q)
<1>0. Abort \in ToClient /\ Abort.type \notin ReturnTypes
  BY DEF Abort, ToClient, ReturnTypes
<1>1. /\ s2c' \in Seq(ToClient)
      /\ Len(s2c) \in Nat /\ Len(s2c') = Len(s2c) + 1
      /\ \A i \in S2C : s2c'[i] = s2c[i]
      /\ s2c'[Len(s2c) + 1] = Abort
  BY <1>0, S2CAppend, Zenon
<1>2. \A i, q : ReturnAt(i, q)' <=> ReturnAt(i, q)
  BY <1>0, <1>1 DEF ReturnAt, S2C
<1>3. /\ \A i, q : ReturnAt(i, q) => i \in S2C
      /\ S2C \subseteq S2C'
  BY <1>1 DEF ReturnAt, S2C
<1> QED
  BY <1>1, <1>2, <1>3, Zenon DEF ReturnsDistinct, S2CSame, ReturnPending, CanceledPending

\* What taking a Return leaves pending.
LEMMA TailReturns ==
    ASSUME s2c \in Seq(ToClient), ReturnsDistinct, s2c # << >>, s2c' = Tail(s2c)
    PROVE  /\ s2c' \in Seq(ToClient) /\ ReturnsDistinct'
           /\ \A q \in Ids : ReturnAt(1, q) => /\ ReturnPending(q)
                                             /\ ~ ReturnPending(q)'
                                             /\ ~ CanceledPending(q)'
           /\ \A q \in Ids : ~ ReturnAt(1, q) => S2CSame(q)
<1>1. /\ s2c' \in Seq(ToClient)
      /\ Len(s2c) \in Nat /\ Len(s2c) >= 1 /\ Len(s2c') = Len(s2c) - 1
      /\ \A i \in 1 .. Len(s2c) - 1 : s2c'[i] = s2c[i + 1]
  BY S2CTail
<1>2. \A i \in S2C : i # 1 => i - 1 \in S2C' /\ s2c'[i - 1] = s2c[i]
  BY <1>1 DEF S2C
<1>3. \A i \in S2C' : i \in Nat /\ i >= 1 /\ i + 1 \in S2C /\ s2c'[i] = s2c[i + 1]
  BY <1>1 DEF S2C
<1>4. /\ \A i, q : ReturnAt(i, q)' => i \in S2C' /\ ReturnAt(i + 1, q)
      /\ \A q : \A i \in S2C : i # 1 /\ ReturnAt(i, q) => ReturnAt(i - 1, q)'
  BY <1>2, <1>3, Zenon DEF ReturnAt
<1>5. ReturnsDistinct'
  <2> SUFFICES ASSUME NEW q \in Ids, NEW i \in S2C', NEW j \in S2C',
                      ReturnAt(i, q)', ReturnAt(j, q)'
               PROVE  i = j
    BY DEF ReturnsDistinct
  <2>1. i + 1 = j + 1
    BY <1>3, <1>4 DEF ReturnsDistinct
  <2> QED
    BY <2>1, <1>3
<1>6. ASSUME NEW q \in Ids, ReturnAt(1, q)
      PROVE  ReturnPending(q) /\ ~ ReturnPending(q)' /\ ~ CanceledPending(q)'
  <2>1. 1 \in S2C /\ \A i \in S2C : ReturnAt(i, q) => i = 1
    BY <1>6 DEF ReturnsDistinct, ReturnAt
  <2>2. \A i \in S2C' : ~ ReturnAt(i, q)'
    BY <2>1, <1>3, <1>4
  <2> QED
    BY <1>6, <2>1, <2>2 DEF ReturnPending, CanceledPending
<1>7. ASSUME NEW q \in Ids, ~ ReturnAt(1, q) PROVE S2CSame(q)
  <2>1. ReturnPending(q)' <=> ReturnPending(q)
    BY <1>2, <1>3, <1>4, <1>7 DEF ReturnPending
  <2>2. CanceledPending(q)' <=> CanceledPending(q)
    BY <1>2, <1>3, <1>4, <1>7, ZenonT(40) DEF CanceledPending
  <2> QED
    BY <2>1, <2>2 DEF S2CSame
<1> QED
  BY <1>1, <1>5, <1>6, <1>7

\* What is pending for the server depends on the stream of the client alone.
LEMMA C2SUnchanged ==
    ASSUME C2SOK, c2s' = c2s
    PROVE  C2SOK' /\ \A q : C2SSame(q)
  BY DEF C2SOK, C2SSame, CallsDistinct, FinishesSeparated, NothingUnimplemented,
         CallPending, OldFinishPending, NewFinishPending, CallBefore, CallAt, FinishAt, C2S

\* What is pending for the client depends on the stream of the server alone.
LEMMA S2CUnchanged ==
    ASSUME ReturnsDistinct, s2c' = s2c
    PROVE  ReturnsDistinct' /\ \A q : S2CSame(q)
  BY DEF ReturnsDistinct, S2CSame, ReturnPending, CanceledPending, ReturnAt, S2C

\* IInv in the form the action lemmas use.
LEMMA IInvParts ==
    IInv => /\ TypeOK /\ NoProtocolError /\ NoUnreachable /\ TablesAgree
            /\ C2SOK /\ ReturnsDistinct
            /\ \A q \in Ids : Agreement(q)
  BY DEF IInv, Streams, C2SOK

----------------------------------------------------------------------------
(* The actions of the client *)

\* NewRequest keeps the invariant.
LEMMA NewRequestStep == IInv /\ NewRequest => IInv'
<1> SUFFICES ASSUME IInv, NewRequest PROVE IInv'
    OBVIOUS
<1> USE IInvParts DEF NewRequest, conn_vars, server_vars
<1>1. TypeOK' /\ NoProtocolError' /\ NoUnreachable' /\ TablesAgree'
  BY MaxRequestsAssumption DEF TypeOK, NoProtocolError, NoUnreachable, TablesAgree
<1>2. C2SOK' /\ ReturnsDistinct' /\ \A q \in Ids : C2SSame(q) /\ S2CSame(q)
  BY C2SUnchanged, S2CUnchanged
<1>3. \A q \in Ids : Agreement(q)'
  BY <1>2 DEF Agreement, Awaited, Unreferenced, ServerListening, ClientSending, BothUp,
              Unreturned, Unfinished, C2SSame, S2CSame
<1> QED
  BY <1>1, <1>2, <1>3 DEF IInv, Streams, C2SOK

\* Send keeps the invariant.
LEMMA SendStep == IInv /\ (Send \/ Bootstrap) => IInv'
<1> SUFFICES ASSUME IInv, Send \/ Bootstrap PROVE IInv'
    OBVIOUS
<1>0. PICK r \in Ids, t \in {"Call", "Bootstrap"} :
          /\ NextQuestionId(r) /\ PushQuestion(r) /\ ClientSends(Msg(t, r))
          /\ requests' \in {requests, requests - 1} /\ requests' \in Nat
          /\ UNCHANGED <<conn_vars, panicked, s2c, server_vars>>
  BY IInvParts DEF Send, Bootstrap, TypeOK
<1> USE IInvParts DEF conn_vars, server_vars
<1>1. r \notin questions /\ Agreement(r)
  BY <1>0 DEF NextQuestionId
<1>2. /\ ~ CallPending(r) /\ ~ ReturnPending(r) /\ r \notin Unreturned
      /\ r \notin received_finish
      /\ ~ NewFinishPending(r) /\ ~ CanceledPending(r)
  <2>1. ~ CallPending(r) /\ ~ ReturnPending(r) /\ r \notin Unreturned
    BY <1>1 DEF Agreement, Awaited, TypeOK
  <2>2. r \notin received_finish
    BY <2>1 DEF TypeOK, TablesAgree, Unreturned
  <2> QED
    BY <2>1, <2>2, NewFinishFollowsCall DEF CanceledPending, ReturnPending
<1>3. ReturnsDistinct' /\ \A q \in Ids : S2CSame(q)
  BY <1>0, S2CUnchanged
<1>4. /\ c2s' \in Seq(ToServer) /\ C2SOK'
      /\ \A q \in Ids \ {r} : C2SSame(q)
      /\ CallPending(r)' <=> conn["client"]
      /\ OldFinishPending(r)' <=> OldFinishPending(r)
      /\ NewFinishPending(r)' <=> NewFinishPending(r)
  <2>1. CASE conn["client"]
    BY <2>1, <1>0, <1>2, AppendCall DEF ClientSends, TypeOK
  <2>2. CASE ~ conn["client"]
    BY <2>2, <1>0, <1>2, C2SUnchanged DEF ClientSends, TypeOK, C2SSame
  <2> QED
    BY <2>1, <2>2
<1>5. TypeOK' /\ NoProtocolError' /\ NoUnreachable' /\ TablesAgree'
  <2>1. requests' \in 0 .. MaxRequests
    BY <1>0, MaxRequestsAssumption DEF TypeOK
  <2>2. TypeOK'
    BY <2>1, <1>0, <1>4 DEF TypeOK, PushQuestion
  <2> QED
    BY <2>2, <1>0 DEF NoProtocolError, NoUnreachable, TablesAgree, PushQuestion
<1>6. \A q \in Ids \ {r} : Agreement(q)'
  BY <1>0, <1>3, <1>4 DEF Agreement, Awaited, Unreferenced, ServerListening, ClientSending,
        BothUp, Unreturned, Unfinished, C2SSame, S2CSame, PushQuestion
<1>7. Agreement(r)'
  BY <1>0, <1>1, <1>2, <1>3, <1>4 DEF Agreement, Awaited, Unreferenced, ServerListening,
        ClientSending, BothUp, Unreturned, Unfinished, S2CSame, PushQuestion
<1> QED
  BY <1>3, <1>4, <1>5, <1>6, <1>7 DEF IInv, Streams, C2SOK

\* BootstrapDisconnected keeps the invariant.
LEMMA BootstrapDisconnectedStep == IInv /\ BootstrapDisconnected => IInv'
<1> SUFFICES ASSUME IInv, BootstrapDisconnected PROVE IInv'
    OBVIOUS
<1> USE IInvParts DEF BootstrapDisconnected, conn_vars, client_vars, server_vars
<1>1. TypeOK' /\ NoProtocolError' /\ NoUnreachable' /\ TablesAgree'
  BY DEF TypeOK, NoProtocolError, NoUnreachable, TablesAgree, Panics
<1>2. C2SOK' /\ ReturnsDistinct' /\ \A q \in Ids : C2SSame(q) /\ S2CSame(q)
  BY C2SUnchanged, S2CUnchanged
<1>3. \A q \in Ids : Agreement(q)'
  BY <1>2 DEF Agreement, Awaited, Unreferenced, ServerListening, ClientSending,
        BothUp, Unreturned, Unfinished, C2SSame, S2CSame
<1> QED
  BY <1>1, <1>2, <1>3 DEF IInv, Streams, C2SOK

\* DropQuestionRef keeps the invariant.
LEMMA DropQuestionRefStep ==
    ASSUME IInv, NEW r \in Ids, DropQuestionRef(r)
    PROVE  IInv'
<1> USE IInvParts DEF conn_vars, server_vars
<1>0. /\ r \in self_ref /\ r \in questions /\ Agreement(r)
      /\ question_refs' = question_refs \ {r}
      /\ fulfiller' = fulfiller \ {r}
      /\ ClientSends(Msg("Finish", r))
      /\ questions' = IF r \in is_awaiting_return THEN questions ELSE questions \ {r}
      /\ self_ref' = self_ref \ {r}
      /\ UNCHANGED <<conn_vars, panicked, s2c, requests, is_awaiting_return, server_vars>>
  BY DEF DropQuestionRef, TablesAgree, TypeOK
<1>1. ~ NewFinishPending(r)
  BY <1>0 DEF Agreement, Unreferenced
<1>2. ReturnsDistinct' /\ \A q \in Ids : S2CSame(q)
  BY <1>0, S2CUnchanged
<1>3. /\ c2s' \in Seq(ToServer) /\ C2SOK'
      /\ \A q \in Ids \ {r} : C2SSame(q)
      /\ CallPending(r)' <=> CallPending(r)
      /\ conn["client"] => /\ NewFinishPending(r)' <=> CallPending(r)
                           /\ OldFinishPending(r)' <=> OldFinishPending(r) \/ ~ CallPending(r)
      /\ ~ conn["client"] => C2SSame(r)
  <2>1. CASE conn["client"]
    <3>1. OldFinishPending(r) => CallPending(r)
      BY <2>1, <1>0 DEF Agreement, ClientSending
    <3> QED
      BY <2>1, <3>1, <1>0, <1>1, AppendFinish DEF ClientSends, TypeOK
  <2>2. CASE ~ conn["client"]
    BY <2>2, <1>0, C2SUnchanged DEF ClientSends, TypeOK, C2SSame
  <2> QED
    BY <2>1, <2>2
<1>4. TypeOK' /\ NoProtocolError' /\ NoUnreachable' /\ TablesAgree'
  <2>1. TypeOK'
    BY <1>0, <1>3, SMTT(30) DEF TypeOK
  <2> QED
    BY <2>1, <1>0 DEF NoProtocolError, NoUnreachable, TablesAgree
<1>5. \A q \in Ids \ {r} : Agreement(q)'
  BY <1>0, <1>2, <1>3 DEF Agreement, Awaited, Unreferenced, ServerListening, ClientSending,
        BothUp, Unreturned, Unfinished, C2SSame, S2CSame
<1>6. Agreement(r)'
  <2>1. Awaited(r)' /\ Unreferenced(r)'
    BY <1>0, <1>2, <1>3 DEF Agreement, Awaited, Unreferenced, Unreturned, S2CSame
  <2>2. ServerListening(r)'
    BY <1>0, <1>1, <1>2, <1>3 DEF Agreement, ServerListening, BothUp, Unfinished, C2SSame
  <2>3. ClientSending(r)' /\ BothUp(r)'
    BY <1>0, <1>2, <1>3 DEF Agreement, Awaited, ClientSending, BothUp, Unreturned, Unfinished
  <2> QED
    BY <2>1, <2>2, <2>3 DEF Agreement
<1> QED
  BY <1>2, <1>3, <1>4, <1>5, <1>6 DEF IInv, Streams, C2SOK

\* The first message of the server's stream, when it is a Return.
LEMMA FirstReturn ==
    ASSUME IInv, s2c # << >>, Head(s2c).type \in ReturnTypes
    PROVE  /\ Head(s2c).id \in Ids
           /\ \A q \in Ids : ReturnAt(1, q) <=> q = Head(s2c).id
           /\ Head(s2c).type = "Canceled" => CanceledPending(Head(s2c).id)
<1>1. s2c \in Seq(ToClient) /\ Len(s2c) \in Nat /\ Len(s2c) >= 1
      /\ Head(s2c) = s2c[1] /\ s2c[1] \in ToClient
  BY IInvParts DEF TypeOK
<1>2. s2c[1].id \in Ids
  BY <1>1 DEF ToClient, ReturnTypes
<1>3. 1 \in S2C
  BY <1>1 DEF S2C
<1> QED
  BY <1>1, <1>2, <1>3 DEF ReturnAt, CanceledPending

\* AcceptReturn keeps the invariant.
LEMMA AcceptReturnStep == IInv /\ ClientReceives(ReturnTypes) /\ AcceptReturn => IInv'
<1> SUFFICES ASSUME IInv, ClientReceives(ReturnTypes), AcceptReturn PROVE IInv'
    OBVIOUS
<1>0. PICK r \in Ids : r = Head(s2c).id
  BY FirstReturn DEF AcceptReturn, ClientReceives
<1> USE IInvParts DEF server_vars
<1>1. /\ s2c # << >> /\ s2c' = Tail(s2c) /\ Head(s2c).type \in ReturnTypes
      /\ looping["client"]
      /\ is_awaiting_return' = is_awaiting_return \ {r}
      /\ UNCHANGED <<conn, failed, requests, self_ref, question_refs, server_vars>>
      /\ looping' = [looping EXCEPT !["client"] = conn["client"]]
  BY <1>0, SMTT(30) DEF AcceptReturn, ClientReceives, Handled
<1>2. /\ s2c' \in Seq(ToClient) /\ ReturnsDistinct'
      /\ ReturnPending(r) /\ ~ ReturnPending(r)' /\ ~ CanceledPending(r)'
      /\ \A q \in Ids \ {r} : S2CSame(q)
  BY <1>0, <1>1, FirstReturn, TailReturns, SMTT(30) DEF TypeOK
<1>3. Agreement(r) /\ (Head(s2c).type = "Canceled" => r \notin self_ref)
  BY <1>0, <1>1, FirstReturn, ZenonT(40) DEF Agreement, Unreferenced
<1>4. /\ UNCHANGED <<c2s, panicked>>
      /\ r \in self_ref => UNCHANGED questions /\ fulfiller' = fulfiller \ {r}
      /\ r \notin self_ref => UNCHANGED fulfiller /\ questions' = questions \ {r}
  BY <1>0, <1>3, Zenon DEF AcceptReturn, ReturnToCaller, ReturnAfterFinish, TablesAgree
<1>5. C2SOK' /\ \A q \in Ids : C2SSame(q)
  BY <1>4, C2SUnchanged
<1>6. TypeOK' /\ NoProtocolError' /\ NoUnreachable' /\ TablesAgree'
  <2>1. TypeOK'
    BY <1>1, <1>2, <1>4 DEF TypeOK, Vats
  <2> QED
    BY <2>1, <1>1, <1>4 DEF NoProtocolError, NoUnreachable, TablesAgree
<1>7. UNCHANGED <<conn["client"], looping["server"]>>
  BY <1>1 DEF TypeOK, Vats
<1>8. \A q \in Ids \ {r} : Agreement(q)'
  BY <1>1, <1>2, <1>4, <1>5, <1>7, SMTT(30) DEF Agreement, Awaited, Unreferenced, ServerListening, ClientSending,
        BothUp, Unreturned, Unfinished, C2SSame, S2CSame
<1>9. Agreement(r)'
  BY <1>1, <1>2, <1>3, <1>4, <1>5, <1>7, NewFinishFollowsCall
     DEF Agreement, Awaited, Unreferenced, ServerListening, ClientSending,
        BothUp, Unreturned, Unfinished, C2SSame, S2CSame, TablesAgree
<1> QED
  BY <1>2, <1>5, <1>6, <1>8, <1>9 DEF IInv, Streams, C2SOK

\* RejectReturn keeps the invariant.
LEMMA RejectReturnStep == IInv /\ ClientReceives(ReturnTypes) /\ RejectReturn => IInv'
<1> SUFFICES ASSUME IInv, ClientReceives(ReturnTypes), RejectReturn PROVE FALSE
    BY SMTT(30)
<1>1. PICK r \in Ids : r = Head(s2c).id /\ ReturnAt(1, r)
  BY FirstReturn, Zenon DEF RejectReturn, ClientReceives
<1>2. ReturnPending(r)
  BY <1>1 DEF ReturnPending, ReturnAt
<1>3. r \in questions
  BY <1>2, IInvParts DEF Agreement, Awaited, TypeOK
<1> QED
  BY <1>1, <1>3 DEF RejectReturn

\* ConnectionState::disconnect at the client, with or without a message taken.
LEMMA DisconnectClientStep ==
    ASSUME IInv, DisconnectClient, looping' \in [Vats -> BOOLEAN],
           looping'["server"] = looping["server"],
           s2c' \in Seq(ToClient), ReturnsDistinct', \A q \in Ids : S2CSame(q),
           UNCHANGED <<failed, panicked, requests, questions, is_awaiting_return,
                       self_ref, question_refs, server_vars>>
    PROVE  IInv'
<1> USE IInvParts DEF server_vars
<1>1. c2s' \in Seq(ToServer) /\ C2SOK' /\ \A q \in Ids : C2SSame(q)
  BY AppendOther, C2SUnchanged DEF DisconnectClient, ClientSends, TypeOK
<1>2. conn' \in [Vats -> BOOLEAN] /\ ~ conn'["client"]
  BY DEF DisconnectClient, TypeOK, Vats
<1>3. TypeOK' /\ NoProtocolError' /\ NoUnreachable' /\ TablesAgree'
  <2>1. fulfiller' \in SUBSET question_refs'
    BY DEF DisconnectClient, TypeOK
  <2> QED
    BY <1>1, <1>2, <2>1 DEF TypeOK, NoProtocolError, NoUnreachable, TablesAgree
<1>4. \A q \in Ids : Agreement(q)'
  BY <1>1, <1>2 DEF Agreement, Awaited, Unreferenced, ServerListening, ClientSending,
        BothUp, Unreturned, Unfinished, C2SSame, S2CSame
<1> QED
  BY <1>1, <1>3, <1>4 DEF IInv, Streams, C2SOK

\* ClientDisconnects keeps the invariant.
LEMMA ClientDisconnectsStep == IInv /\ ClientDisconnects => IInv'
<1> SUFFICES ASSUME IInv, ClientDisconnects PROVE IInv'
    OBVIOUS
<1>1. ReturnsDistinct' /\ \A q \in Ids : S2CSame(q)
  BY IInvParts, S2CUnchanged DEF ClientDisconnects
<1>2. looping' \in [Vats -> BOOLEAN] /\ looping'["server"] = looping["server"]
      /\ s2c' \in Seq(ToClient)
  BY IInvParts DEF ClientDisconnects, TypeOK
<1> QED
  BY <1>1, <1>2, DisconnectClientStep DEF ClientDisconnects

\* ClientHandleAbort keeps the invariant.
LEMMA ClientHandleAbortStep == IInv /\ ClientHandleAbort => IInv'
<1> SUFFICES ASSUME IInv, ClientHandleAbort PROVE IInv'
    OBVIOUS
<1>1. s2c # << >> /\ s2c' = Tail(s2c) /\ Head(s2c).type = "Abort"
  BY DEF ClientHandleAbort, ClientReceives
<1>2. \A q \in Ids : ~ ReturnAt(1, q)
  BY <1>1, IInvParts, S2CTail DEF ReturnAt, ReturnTypes, TypeOK
<1>3. s2c' \in Seq(ToClient) /\ ReturnsDistinct' /\ \A q \in Ids : S2CSame(q)
  BY <1>1, <1>2, IInvParts, TailReturns DEF TypeOK
<1>4. looping' \in [Vats -> BOOLEAN] /\ looping'["server"] = looping["server"]
  BY IInvParts DEF ClientHandleAbort, ClientFails, TypeOK, Vats
<1> QED
  BY <1>3, <1>4, DisconnectClientStep DEF ClientHandleAbort, ClientFails

----------------------------------------------------------------------------
(* The actions of the server *)

\* The first message of the client's stream.
LEMMA FirstMessage ==
    ASSUME IInv, c2s # << >>
    PROVE  /\ \A q \in Ids : CallAt(1, q) <=>
                 Head(c2s).type \in {"Call", "Bootstrap"} /\ q = Head(c2s).id
           /\ \A q \in Ids : FinishAt(1, q) <=>
                 Head(c2s).type = "Finish" /\ q = Head(c2s).id
           /\ Head(c2s).type \in {"Call", "Bootstrap", "Finish"} => Head(c2s).id \in Ids
           /\ Head(c2s).type # "Unimplemented"
<1>1. c2s \in Seq(ToServer) /\ Len(c2s) \in Nat /\ Len(c2s) >= 1
      /\ Head(c2s) = c2s[1] /\ c2s[1] \in ToServer
  BY IInvParts DEF TypeOK
<1>2. 1 \in C2S
  BY <1>1 DEF C2S
<1>3. c2s[1].type \in {"Call", "Bootstrap", "Finish"} => c2s[1].id \in Ids
  BY <1>1 DEF ToServer
<1>4. c2s[1].type # "Unimplemented"
  BY <1>2, IInvParts DEF C2SOK, NothingUnimplemented
<1> QED
  BY <1>1, <1>2, <1>3, <1>4 DEF CallAt, FinishAt

\* AcceptCall keeps the invariant.
LEMMA AcceptCallStep == IInv /\ ServerReceives({"Call"}) /\ AcceptCall => IInv'
<1> SUFFICES ASSUME IInv, ServerReceives({"Call"}), AcceptCall PROVE IInv'
    BY SMTT(30)
<1>0. PICK r \in Ids : r = Head(c2s).id
  BY FirstMessage, SMTT(30) DEF AcceptCall, ServerReceives
<1> USE IInvParts DEF client_vars
<1>1. /\ looping["server"] /\ c2s # << >> /\ c2s' = Tail(c2s)
      /\ Head(c2s).type = "Call" /\ r \notin answers
      /\ answers' = answers \cup {r} /\ running' = running \cup {r}
      /\ looping' = [looping EXCEPT !["server"] = conn["server"]]
      /\ UNCHANGED <<conn, failed, panicked, s2c, client_vars, return_has_been_sent,
                     received_finish>>
  BY <1>0 DEF AcceptCall, ServerReceives, Handled
<1>2. CallAt(1, r) /\ \A q \in Ids \ {r} : ~ CallAt(1, q) /\ ~ FinishAt(1, q)
  BY <1>0, <1>1, FirstMessage
<1>3. /\ c2s' \in Seq(ToServer) /\ C2SOK'
      /\ \A q \in Ids \ {r} : C2SSame(q)
      /\ CallPending(r) /\ ~ CallPending(r)' /\ ~ NewFinishPending(r)'
      /\ OldFinishPending(r)' <=> NewFinishPending(r)
  BY <1>1, <1>2, TailOK, TailCall, TailOther DEF TypeOK
<1>4. ReturnsDistinct' /\ \A q \in Ids : S2CSame(q)
  BY <1>1, S2CUnchanged
<1>5. TypeOK' /\ NoProtocolError' /\ NoUnreachable' /\ TablesAgree'
  <2>1. TypeOK'
    BY <1>1, <1>3 DEF TypeOK, Vats
  <2> QED
    BY <2>1, <1>1 DEF NoProtocolError, NoUnreachable, TablesAgree, TypeOK
<1>6. looping'["server"] => looping["server"]
  BY <1>1, SMTT(30)
<1>7. \A q \in Ids \ {r} : Agreement(q)'
  BY <1>1, <1>3, <1>4, <1>6 DEF Agreement, Awaited, Unreferenced, ServerListening, ClientSending,
        BothUp, Unreturned, Unfinished, C2SSame, S2CSame
<1>8. Agreement(r)'
  <2>0. Agreement(r)
    OBVIOUS
  <2>1. Awaited(r)' /\ Unreferenced(r)'
    BY <2>0, <1>1, <1>3, <1>4, SMTT(30) DEF Agreement, Awaited, Unreferenced, Unreturned, S2CSame, TypeOK
  <2>2. ServerListening(r)' /\ ClientSending(r)'
    BY <2>0, <1>1, <1>3, <1>4, SMTT(30) DEF Agreement, ServerListening, ClientSending, Unfinished,
          Unreferenced, TypeOK
  <2>3. BothUp(r)'
    BY <2>0, <1>1, <1>3, <1>4 DEF Agreement, Awaited, ClientSending, BothUp, Unfinished, TypeOK
  <2> QED
    BY <2>1, <2>2, <2>3 DEF Agreement
<1> QED
  BY <1>3, <1>4, <1>5, <1>7, <1>8 DEF IInv, Streams, C2SOK

\* A message the server takes for the last time, without touching its tables.
LEMMA TakenStep ==
    ASSUME IInv, c2s # << >>, c2s' = Tail(c2s),
           looping' = [looping EXCEPT !["server"] = FALSE],
           conn' \in [Vats -> BOOLEAN], conn'["client"] = conn["client"],
           Head(c2s).type # "Finish",
           s2c' \in Seq(ToClient), ReturnsDistinct', \A q \in Ids : S2CSame(q),
           UNCHANGED <<failed, panicked, client_vars, server_vars>>
    PROVE  IInv'
<1> USE IInvParts DEF client_vars, server_vars
<1>1. c2s' \in Seq(ToServer) /\ C2SOK'
  BY TailOK DEF TypeOK
<1>2. ~ looping'["server"] /\ looping' \in [Vats -> BOOLEAN]
  BY DEF TypeOK, Vats
<1>3. TypeOK' /\ NoProtocolError' /\ NoUnreachable' /\ TablesAgree'
  <2>1. TypeOK'
    BY <1>1, <1>2 DEF TypeOK
  <2> QED
    BY <2>1 DEF NoProtocolError, NoUnreachable, TablesAgree
<1>4. ASSUME NEW q \in Ids PROVE Agreement(q)'
  <2>0. Agreement(q) /\ S2CSame(q)
    BY SMTT(30)
  <2>1. CASE CallAt(1, q)
    <3>1. /\ CallPending(q) /\ ~ CallPending(q)' /\ ~ NewFinishPending(q)'
          /\ OldFinishPending(q)' <=> NewFinishPending(q)
      BY <2>1, TailCall, SMTT(30) DEF TypeOK
    <3> QED
      BY <2>0, <3>1, <1>2 DEF Agreement, Awaited, Unreferenced, ServerListening, ClientSending,
        BothUp, Unreturned, Unfinished, C2SSame, S2CSame
  <2>2. CASE ~ CallAt(1, q)
    <3>1. C2SSame(q)
      BY <2>2, FirstMessage, TailOther, Zenon DEF TypeOK
    <3> QED
      BY <2>0, <3>1, <1>2, SMTT(30) DEF Agreement, Awaited, Unreferenced, ServerListening, ClientSending,
        BothUp, Unreturned, Unfinished, C2SSame, S2CSame
  <2> QED
    BY <2>1, <2>2
<1> QED
  BY <1>1, <1>3, <1>4 DEF IInv, Streams, C2SOK

\* NoTarget keeps the invariant.
LEMMA NoTargetStep == IInv /\ ServerReceives({"Call"}) /\ NoTarget => IInv'
<1> SUFFICES ASSUME IInv, ServerReceives({"Call"}), NoTarget PROVE IInv'
    BY SMTT(30)
<1>1. ReturnsDistinct' /\ \A q \in Ids : S2CSame(q)
  BY IInvParts, S2CUnchanged DEF NoTarget
<1> QED
  BY <1>1, IInvParts, TakenStep, Zenon
     DEF NoTarget, ServerReceives, Handled, TypeOK

\* ServerHandleAbort keeps the invariant.
LEMMA ServerHandleAbortStep == IInv /\ ServerHandleAbort => IInv'
<1> SUFFICES ASSUME IInv, ServerHandleAbort PROVE IInv'
    OBVIOUS
<1>0. Head(c2s).type = "Abort" /\ UNCHANGED failed
  BY FirstMessage DEF ServerHandleAbort, ServerReceives
<1>1. s2c' \in Seq(ToClient) /\ ReturnsDistinct' /\ \A q \in Ids : S2CSame(q)
  BY IInvParts, S2CUnchanged, AppendServerAbort
     DEF ServerHandleAbort, ServerFails, DisconnectServer, ServerSends, TypeOK
<1>2. conn' \in [Vats -> BOOLEAN] /\ conn'["client"] = conn["client"]
  BY IInvParts DEF ServerHandleAbort, ServerFails, DisconnectServer, TypeOK, Vats
<1> QED
  BY <1>0, <1>1, <1>2, TakenStep DEF ServerHandleAbort, ServerReceives, ServerFails

\* The two ways the server could reject an id.
LEMMA RejectInUseStep ==
    IInv /\ ServerReceives({"Call", "Bootstrap"}) /\ RejectInUse => IInv'
<1> SUFFICES ASSUME IInv, ServerReceives({"Call", "Bootstrap"}), RejectInUse PROVE FALSE
    OBVIOUS
<1>1. PICK r \in Ids : r = Head(c2s).id /\ CallAt(1, r)
  BY FirstMessage DEF RejectInUse, ServerReceives
<1>2. c2s \in Seq(ToServer) /\ c2s # << >> /\ c2s' = Tail(c2s) /\ C2SOK
  BY IInvParts DEF RejectInUse, ServerReceives, TypeOK
<1>3. CallPending(r) /\ ~ OldFinishPending(r)
  BY <1>1, <1>2, TailCall, SMTT(30)
<1> QED
  BY <1>1, <1>3, IInvParts DEF RejectInUse, ServerReceives, Agreement, ServerListening

\* RejectFinish keeps the invariant.
LEMMA RejectFinishStep == IInv /\ ServerReceives({"Finish"}) /\ RejectFinish => IInv'
<1> SUFFICES ASSUME IInv, ServerReceives({"Finish"}), RejectFinish PROVE FALSE
    BY SMTT(30)
<1>1. PICK r \in Ids : r = Head(c2s).id /\ FinishAt(1, r)
  BY FirstMessage DEF RejectFinish, ServerReceives
<1>2. c2s \in Seq(ToServer) /\ c2s # << >> /\ c2s' = Tail(c2s) /\ C2SOK
  BY IInvParts DEF RejectFinish, ServerReceives, TypeOK
<1>3. OldFinishPending(r)
  BY <1>1, <1>2, TailFinish
<1> QED
  BY <1>1, <1>3, IInvParts
     DEF RejectFinish, ServerReceives, Agreement, ServerListening, Unfinished

\* AcceptBootstrap keeps the invariant.
LEMMA AcceptBootstrapStep == IInv /\ ServerReceives({"Bootstrap"}) /\ AcceptBootstrap => IInv'
<1> SUFFICES ASSUME IInv, ServerReceives({"Bootstrap"}), AcceptBootstrap PROVE IInv'
    OBVIOUS
<1>0. PICK r \in Ids : r = Head(c2s).id
  BY FirstMessage, SMTT(30) DEF AcceptBootstrap, ServerReceives
<1> USE IInvParts DEF client_vars
<1>a. CASE ~ conn["server"]
  <2>1. s2c' = s2c /\ UNCHANGED server_vars
    BY <1>a DEF AcceptBootstrap, server_vars
  <2>2. ReturnsDistinct' /\ \A q \in Ids : S2CSame(q)
    BY <2>1, S2CUnchanged
  <2> QED
    BY <1>a, <2>1, <2>2, TakenStep, ZenonT(40) DEF AcceptBootstrap, ServerReceives, Handled, TypeOK
<1>b. CASE conn["server"]
  <2>1. /\ looping["server"] /\ c2s # << >> /\ c2s' = Tail(c2s)
        /\ Head(c2s).type = "Bootstrap" /\ r \notin answers
        /\ answers' = answers \cup {r}
        /\ return_has_been_sent' = return_has_been_sent \cup {r}
        /\ s2c' = Append(s2c, Msg("Results", r))
        /\ looping' = [looping EXCEPT !["server"] = TRUE]
        /\ UNCHANGED <<conn, failed, panicked, client_vars, received_finish, running>>
    BY <1>0, <1>b, SMTT(30) DEF AcceptBootstrap, ServerReceives, Handled, ServerSends
  <2>2. CallAt(1, r) /\ \A q \in Ids \ {r} : ~ CallAt(1, q) /\ ~ FinishAt(1, q)
    BY <1>0, <2>1, FirstMessage
  <2>3. /\ c2s' \in Seq(ToServer) /\ C2SOK'
        /\ \A q \in Ids \ {r} : C2SSame(q)
        /\ CallPending(r) /\ ~ CallPending(r)' /\ ~ NewFinishPending(r)'
        /\ OldFinishPending(r)' <=> NewFinishPending(r)
    BY <2>1, <2>2, TailOK, TailCall, TailOther DEF TypeOK
  <2>4. r \in is_awaiting_return /\ ~ ReturnPending(r)
    BY <2>3 DEF Agreement, Awaited
  <2>5. /\ s2c' \in Seq(ToClient) /\ ReturnsDistinct'
        /\ \A q \in Ids \ {r} : S2CSame(q)
        /\ ~ CanceledPending(r)'
    BY <2>1, <2>4, AppendReturn, SMTT(30) DEF TypeOK, ReturnTypes
  <2>6. TypeOK' /\ NoProtocolError' /\ NoUnreachable' /\ TablesAgree'
    <3>1. TypeOK'
      BY <2>1, <2>3, <2>5 DEF TypeOK, Vats
    <3> QED
      BY <3>1, <2>1 DEF NoProtocolError, NoUnreachable, TablesAgree, TypeOK
  <2>7. looping'["server"] /\ \A q \in Ids : Agreement(q)
    BY <2>1, SMTT(30) DEF TypeOK, Vats
  <2>8. \A q \in Ids \ {r} : Agreement(q)'
    BY <2>1, <2>3, <2>5, <2>7 DEF Agreement, Awaited, Unreferenced, ServerListening, ClientSending,
        BothUp, Unreturned, Unfinished, C2SSame, S2CSame
  <2>9. Agreement(r)'
    <3>1. Awaited(r)' /\ Unreferenced(r)'
      BY <2>1, <2>3, <2>4, <2>5, <2>7, SMTT(30) DEF Agreement, Awaited, Unreferenced, Unreturned, TypeOK
    <3>2. ServerListening(r)' /\ ClientSending(r)'
      BY <2>1, <2>3, <2>7, SMTT(30) DEF Agreement, ServerListening, ClientSending, Unfinished,
            Unreferenced, TypeOK
    <3>3. BothUp(r)'
      BY <2>1, <2>3, <2>4, <2>7 DEF Agreement, ClientSending, BothUp, Unfinished, TypeOK
    <3> QED
      BY <3>1, <3>2, <3>3, SMTT(30) DEF Agreement
  <2> QED
    BY <2>3, <2>5, <2>6, <2>8, <2>9 DEF IInv, Streams, C2SOK
<1> QED
  BY <1>a, <1>b

\* AcceptFinish keeps the invariant.
LEMMA AcceptFinishStep == IInv /\ ServerReceives({"Finish"}) /\ AcceptFinish => IInv'
<1> SUFFICES ASSUME IInv, ServerReceives({"Finish"}), AcceptFinish PROVE IInv'
    BY SMTT(30)
<1>0. PICK r \in Ids : r = Head(c2s).id
  BY FirstMessage, ZenonT(40) DEF AcceptFinish, ServerReceives
<1> USE IInvParts DEF client_vars
<1>1. /\ looping["server"] /\ c2s # << >> /\ c2s' = Tail(c2s)
      /\ Head(c2s).type = "Finish" /\ r \in answers
      /\ looping' = [looping EXCEPT !["server"] = conn["server"]]
      /\ UNCHANGED <<conn, failed, panicked, s2c, client_vars, running>>
      /\ r \in return_has_been_sent =>
            /\ answers' = answers \ {r}
            /\ received_finish' = received_finish \ {r}
            /\ return_has_been_sent' = return_has_been_sent \ {r}
      /\ r \notin return_has_been_sent =>
            /\ received_finish' = received_finish \cup {r}
            /\ UNCHANGED <<answers, return_has_been_sent>>
  BY <1>0, Zenon DEF AcceptFinish, ServerReceives, Handled, EraseAnswer
<1>2. FinishAt(1, r) /\ \A q \in Ids \ {r} : ~ CallAt(1, q) /\ ~ FinishAt(1, q)
  <2>1. /\ \A q \in Ids : CallAt(1, q) <=>
             Head(c2s).type \in {"Call", "Bootstrap"} /\ q = Head(c2s).id
        /\ \A q \in Ids : FinishAt(1, q) <=> Head(c2s).type = "Finish" /\ q = Head(c2s).id
    BY <1>1, FirstMessage, Zenon
  <2>2. Head(c2s).type \notin {"Call", "Bootstrap"}
    BY <1>1
  <2> QED
    BY <1>0, <1>1, <2>1, <2>2, Zenon
<1>3. /\ c2s' \in Seq(ToServer) /\ C2SOK'
      /\ \A q \in Ids \ {r} : C2SSame(q)
      /\ OldFinishPending(r) /\ ~ OldFinishPending(r)'
      /\ CallPending(r)' <=> CallPending(r)
      /\ NewFinishPending(r)' <=> NewFinishPending(r)
  BY <1>1, <1>2, TailOK, TailFinish, TailOther DEF TypeOK
<1>4. ReturnsDistinct' /\ \A q \in Ids : S2CSame(q)
  BY <1>1, S2CUnchanged
<1>5. TypeOK' /\ NoProtocolError' /\ NoUnreachable' /\ TablesAgree'
  <2>1. TypeOK'
    BY <1>1, <1>3 DEF TypeOK, Vats, TablesAgree
  <2> QED
    BY <2>1, <1>1 DEF NoProtocolError, NoUnreachable, TablesAgree
<1>6. (looping'["server"] => looping["server"]) /\ \A q \in Ids : Agreement(q)
  BY <1>1, SMTT(30)
<1>7. \A q \in Ids \ {r} : Agreement(q)'
  BY <1>1, <1>3, <1>4, <1>6 DEF Agreement, Awaited, Unreferenced, ServerListening, ClientSending,
        BothUp, Unreturned, Unfinished, C2SSame, S2CSame
<1>8. Agreement(r)'
  <2>1. Awaited(r)'
    BY <1>1, <1>3, <1>4, <1>6, SMTT(30) DEF Agreement, Awaited, Unreturned, S2CSame
  <2>2. Unreferenced(r)'
    BY <1>1, <1>3, <1>4, <1>6, SMTT(30) DEF Agreement, Unreferenced, Unreturned, S2CSame
  <2>3. ServerListening(r)' /\ ClientSending(r)'
    BY <1>1, <1>3, <1>6, SMTT(30) DEF Agreement, Awaited, ServerListening, ClientSending, Unreturned
  <2>4. BothUp(r)'
    BY <1>1, <1>3, <1>6 DEF Agreement, Awaited, Unreferenced, ClientSending, BothUp,
          Unreturned, Unfinished, TypeOK
  <2> QED
    BY <2>1, <2>2, <2>3, <2>4, SMTT(30) DEF Agreement
<1> QED
  BY <1>3, <1>4, <1>5, <1>7, <1>8 DEF IInv, Streams, C2SOK

\* CompleteCall keeps the invariant.
LEMMA CompleteCallStep ==
    ASSUME IInv, NEW r \in Ids, CompleteCall(r)
    PROVE  IInv'
<1> USE IInvParts DEF conn_vars, client_vars
<1>0. r \in Unreturned /\ r \in answers /\ r \notin return_has_been_sent
  BY DEF CompleteCall, TypeOK, TablesAgree, Unreturned
<1>a. /\ running' = running \ {r}
      /\ UNCHANGED <<conn_vars, panicked, c2s, client_vars>>
      /\ r \in received_finish =>
            /\ answers' = answers \ {r}
            /\ received_finish' = received_finish \ {r}
            /\ return_has_been_sent' = return_has_been_sent \ {r}
      /\ r \notin received_finish =>
            /\ return_has_been_sent' = return_has_been_sent \cup {r}
            /\ UNCHANGED <<answers, received_finish>>
  BY <1>0 DEF CompleteCall, AnswerHasSentReturn, EraseAnswer
<1>b. PICK t \in ReturnTypes :
        ServerSends(Msg(t, r)) /\ (t = "Canceled" => r \in received_finish)
  <2>1. CASE r \in received_finish
    <3>1. "Canceled" \in ReturnTypes /\ ServerSends(Msg("Canceled", r))
      BY <2>1 DEF CompleteCall, ReturnTypes
    <3> QED
      BY <3>1, <2>1
  <2>2. CASE r \notin received_finish
    <3>1. PICK t \in {"Results", "Exception"} : ServerSends(Msg(t, r))
      BY <2>2 DEF CompleteCall
    <3>2. t \in ReturnTypes /\ t # "Canceled"
      BY <3>1 DEF ReturnTypes
    <3> QED
      BY <3>1, <3>2
  <2> QED
    BY <2>1, <2>2
<1>2. C2SOK' /\ \A q \in Ids : C2SSame(q)
  BY <1>a, <1>b, C2SUnchanged
<1>3. \A q \in Ids : Agreement(q)
  BY SMTT(30)
<1>4. /\ ~ CallPending(r) /\ ~ ReturnPending(r) /\ r \in is_awaiting_return
      /\ ~ CanceledPending(r)
  BY <1>0, <1>3, Zenon DEF Agreement, Awaited, CanceledPending, ReturnPending
<1>5. /\ s2c' \in Seq(ToClient) /\ ReturnsDistinct'
      /\ \A q \in Ids \ {r} : S2CSame(q)
      /\ CanceledPending(r)' => r \in received_finish
  <2>1. CASE conn["server"]
    BY <2>1, <1>a, <1>b, <1>4, AppendReturn DEF ServerSends, TypeOK
  <2>2. CASE ~ conn["server"]
    BY <2>2, <1>a, <1>b, <1>4, S2CUnchanged DEF ServerSends, TypeOK, S2CSame
  <2> QED
    BY <2>1, <2>2
<1>6. TypeOK' /\ NoProtocolError' /\ NoUnreachable' /\ TablesAgree'
  <2>1. TypeOK'
    BY <1>0, <1>a, <1>b, <1>5, SMTT(30) DEF TypeOK
  <2> QED
    BY <2>1, <1>a, <1>b DEF NoProtocolError, NoUnreachable, TablesAgree
<1>7. \A q \in Ids \ {r} : Agreement(q)'
  BY <1>a, <1>b, <1>2, <1>3, <1>5 DEF Agreement, Awaited, Unreferenced, ServerListening, ClientSending,
        BothUp, Unreturned, Unfinished, C2SSame, S2CSame
<1>8. Agreement(r)'
  <2>1. Awaited(r)'
    BY <1>a, <1>b, <1>2, <1>4 DEF Awaited, Unreturned, C2SSame
  <2>2. Unreferenced(r)'
    BY <1>a, <1>b, <1>2, <1>3, <1>5, SMTT(30) DEF Agreement, Unreferenced, Unreturned, C2SSame
  <2>3. ServerListening(r)' /\ ClientSending(r)'
    BY <1>a, <1>b, <1>2, <1>3, <1>4, SMTT(30) DEF Agreement, ServerListening, ClientSending, Unfinished,
          C2SSame
  <2>4. BothUp(r)'
    BY <1>0, <1>a, <1>b, <1>2, <1>3, <1>4, SMTT(30) DEF Agreement, Unreferenced, BothUp, Unfinished, C2SSame,
          TypeOK
  <2> QED
    BY <2>1, <2>2, <2>3, <2>4 DEF Agreement
<1> QED
  BY <1>2, <1>5, <1>6, <1>7, <1>8 DEF IInv, Streams, C2SOK

\* A call that ends without a word: CancelCall, and CompleteLocally.
LEMMA CallDroppedStep ==
    ASSUME IInv, NEW r \in Ids, CancelCall(r) \/ CompleteLocally(r)
    PROVE  IInv'
<1> USE IInvParts DEF CancelCall, CompleteLocally, conn_vars, client_vars
<1>1. C2SOK' /\ ReturnsDistinct' /\ \A q \in Ids : C2SSame(q) /\ S2CSame(q)
  BY C2SUnchanged, S2CUnchanged
<1>2. TypeOK' /\ NoProtocolError' /\ NoUnreachable' /\ TablesAgree'
  <2>1. TypeOK'
    BY SMTT(30) DEF TypeOK
  <2> QED
    BY <2>1 DEF NoProtocolError, NoUnreachable, TablesAgree
<1>3. \A q \in Ids : Agreement(q)'
  BY <1>1 DEF Agreement, Awaited, Unreferenced, ServerListening, ClientSending,
        BothUp, Unreturned, Unfinished, C2SSame, S2CSame
<1> QED
  BY <1>1, <1>2, <1>3 DEF IInv, Streams, C2SOK

\* ServerDisconnects keeps the invariant.
LEMMA ServerDisconnectsStep == IInv /\ ServerDisconnects => IInv'
<1> SUFFICES ASSUME IInv, ServerDisconnects PROVE IInv'
    OBVIOUS
<1> USE IInvParts DEF ServerDisconnects, client_vars, server_vars
<1>1. C2SOK' /\ \A q \in Ids : C2SSame(q)
  BY C2SUnchanged
<1>2. s2c' \in Seq(ToClient) /\ ReturnsDistinct' /\ \A q \in Ids : S2CSame(q)
  BY AppendServerAbort DEF DisconnectServer, ServerSends, TypeOK
<1>3. conn' \in [Vats -> BOOLEAN] /\ conn'["client"] = conn["client"]
  BY DEF DisconnectServer, TypeOK, Vats
<1>4. TypeOK' /\ NoProtocolError' /\ NoUnreachable' /\ TablesAgree'
  <2>1. TypeOK'
    BY <1>2, <1>3, SMTT(30) DEF TypeOK
  <2> QED
    BY <2>1 DEF NoProtocolError, NoUnreachable, TablesAgree
<1>5. \A q \in Ids : Agreement(q)'
  BY <1>1, <1>2, <1>3, SMTT(30) DEF Agreement, Awaited, Unreferenced, ServerListening, ClientSending,
        BothUp, Unreturned, Unfinished, C2SSame, S2CSame
<1> QED
  BY <1>1, <1>2, <1>4, <1>5 DEF IInv, Streams, C2SOK

\* HandleOther keeps the invariant.
LEMMA HandleOtherStep ==
    ASSUME IInv, NEW v \in Vats, HandleOther(v)
    PROVE  IInv'
<1> USE IInvParts DEF HandleOther, Handled, client_vars, server_vars
<1>1. C2SOK' /\ ReturnsDistinct' /\ \A q \in Ids : C2SSame(q) /\ S2CSame(q)
  BY C2SUnchanged, S2CUnchanged
<1>2. TypeOK' /\ NoProtocolError' /\ NoUnreachable' /\ TablesAgree'
  <2>1. TypeOK'
    BY DEF TypeOK
  <2> QED
    BY <2>1 DEF NoProtocolError, NoUnreachable, TablesAgree
<1>3. looping'["server"] => looping["server"]
  BY SMTT(30) DEF TypeOK, Vats
<1>4. \A q \in Ids : Agreement(q)'
  BY <1>1, <1>3 DEF Agreement, Awaited, Unreferenced, ServerListening, ClientSending,
        BothUp, Unreturned, Unfinished, C2SSame, S2CSame
<1> QED
  BY <1>1, <1>2, <1>4 DEF IInv, Streams, C2SOK

\* Stuttering keeps the invariant.
LEMMA StutterStep == IInv /\ UNCHANGED vars => IInv'
<1> SUFFICES ASSUME IInv, UNCHANGED vars PROVE IInv'
    OBVIOUS
<1> USE IInvParts DEF vars, conn_vars, client_vars, server_vars
<1>1. C2SOK' /\ ReturnsDistinct' /\ \A q \in Ids : C2SSame(q) /\ S2CSame(q)
  BY C2SUnchanged, S2CUnchanged
<1>2. TypeOK' /\ NoProtocolError' /\ NoUnreachable' /\ TablesAgree'
  BY SMTT(30) DEF TypeOK, NoProtocolError, NoUnreachable, TablesAgree
<1>3. \A q \in Ids : Agreement(q)'
  BY <1>1 DEF Agreement, Awaited, Unreferenced, ServerListening, ClientSending,
        BothUp, Unreturned, Unfinished, C2SSame, S2CSame
<1> QED
  BY <1>1, <1>2, <1>3 DEF IInv, Streams, C2SOK

----------------------------------------------------------------------------
\* The invariant holds initially.
LEMMA InitIInv == Init => IInv
<1> SUFFICES ASSUME Init PROVE IInv
    OBVIOUS
<1>1. TypeOK /\ NoProtocolError /\ NoUnreachable /\ TablesAgree
  BY MaxRequestsAssumption
     DEF Init, TypeOK, NoProtocolError, NoUnreachable, TablesAgree, Vats
<1>2. C2S = {} /\ S2C = {}
  BY SMTT(30) DEF Init, C2S, S2C
<1>3. Streams
  BY <1>2, SMTT(30) DEF Streams, CallsDistinct, FinishesSeparated, ReturnsDistinct, NothingUnimplemented
<1>4. \A q : /\ ~ CallPending(q) /\ ~ ReturnPending(q) /\ ~ CanceledPending(q)
             /\ ~ OldFinishPending(q) /\ ~ NewFinishPending(q)
  BY <1>2, SMTT(30) DEF CallPending, ReturnPending, CanceledPending, OldFinishPending, NewFinishPending
<1>5. \A q \in Ids : Agreement(q)
  BY <1>4 DEF Init, Agreement, Awaited, Unreferenced, ServerListening, ClientSending, BothUp,
              Unreturned, Unfinished
<1> QED
  BY <1>1, <1>3, <1>5 DEF IInv

\* Every step of the two vats keeps the invariant.
LEMMA NextIInv == IInv /\ [Next]_vars => IInv'
<1> SUFFICES ASSUME IInv, [Next]_vars PROVE IInv'
    OBVIOUS
<1>1. CASE ClientNext
  BY <1>1, NewRequestStep, SendStep, BootstrapDisconnectedStep, DropQuestionRefStep,
     AcceptReturnStep, RejectReturnStep, ClientHandleAbortStep,
     ClientDisconnectsStep DEF ClientNext, HandleReturn
<1>2. CASE ServerNext
  <2>1. CASE HandleCall \/ HandleBootstrap
    <3>1. \A t : t \in {{"Call"}, {"Bootstrap"}} /\ ServerReceives(t)
                  => ServerReceives({"Call", "Bootstrap"})
      BY DEF ServerReceives
    <3> QED
      BY <2>1, <3>1, AcceptCallStep, NoTargetStep, RejectInUseStep, AcceptBootstrapStep
         DEF HandleCall, HandleBootstrap
  <2>2. CASE HandleFinish
    BY <2>2, AcceptFinishStep, RejectFinishStep DEF HandleFinish
  <2> QED
    BY <1>2, <2>1, <2>2, ServerHandleAbortStep, CompleteCallStep, CallDroppedStep,
       ServerDisconnectsStep DEF ServerNext
<1> QED
  BY <1>1, <1>2, StutterStep, HandleOtherStep DEF Next

\* The inductive invariant holds of every behaviour, for any number of ids,
\* calls and messages under way.
THEOREM Invariance == Spec => []IInv
  BY InitIInv, NextIInv, PTL DEF Spec

\* The tables keep their shape: Question, Answer and the two streams.
THEOREM TypeCorrect == Spec => []TypeOK
<1>1. IInv => TypeOK
  BY DEF IInv
<1> QED
  BY <1>1, Invariance, PTL

\* handle_message never rejects a Call, Bootstrap, Return, Finish or
\* Unimplemented of a peer running the same code, ids being reused and vats
\* disconnecting at any time.
THEOREM ProtocolSafe == Spec => []NoProtocolError
<1>1. IInv => NoProtocolError
  BY DEF IInv
<1> QED
  BY <1>1, Invariance, PTL

\* No unreachable!() or expect() of QuestionRef::drop, of the Return handler
\* or of answer_has_sent_return is reached.
THEOREM UnreachableSafe == Spec => []NoUnreachable
<1>1. IInv => NoUnreachable
  BY DEF IInv
<1> QED
  BY <1>1, Invariance, PTL
=============================================================================
