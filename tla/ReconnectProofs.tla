-------------------------- MODULE ReconnectProofs ---------------------------
(***************************************************************************)
(* Proofs about module Reconnect, for any set of calls and any number of   *)
(* targets.                                                                *)
(***************************************************************************)
EXTENDS Reconnect, TLAPS

Made(c) == stage[c] # "none"
Waited(c) == stage[c] \in {"sent", "returned", "failed", "disconnected"}

\* What relates the generation of a call to its target: a generation has had the
\* current target of its calls replaced once it is over, and until then they are on
\* the current one, unless set_target has been used.
IInv ==
    /\ ReconnectTypeOK
    /\ \A c \in Calls : Made(c) => /\ target[c] # 0 /\ current # 0
                                   /\ built[c] <= generation
                                   /\ built[c] < generation => target[c] # current
                                   /\ built[c] = generation /\ ~ set_by_hand => target[c] = current
    /\ \A c \in Calls : Waited(c) => built[c] <= wrapped[c] /\ wrapped[c] <= generation
    /\ \A c \in Calls : stage[c] = "disconnected" => wrapped[c] < generation
    /\ \A c, d \in Calls : Made(c) /\ Made(d) /\ target[c] = target[d] => built[c] = built[d]
    /\ \A c \in reconnectors : stage[c] = "disconnected"
    /\ \A c, d \in reconnectors : c # d => wrapped[c] # wrapped[d]

\* A sequence grows by one.
LEMMA AppendLen ==
    ASSUME NEW S, NEW s \in Seq(S), NEW e \in S
    PROVE  /\ Append(s, e) \in Seq(S)
           /\ Len(Append(s, e)) = Len(s) + 1
           /\ Len(s) \in Nat
  OBVIOUS

\* What connect leaves behind.
LEMMA ConnectEffect ==
    ASSUME ReconnectTypeOK, Connect
    PROVE  /\ health' \in Seq(Health) /\ Len(health') = Len(health) + 1
           /\ current' = Len(health') /\ Len(health) \in Nat
           /\ current' # 0 /\ \A t \in 0 .. Len(health) : t # current' /\ t \in 0 .. Len(health')
  <1>1. PICK h \in Health : health' = Append(health, h)
    BY DEF Connect
  <1>2. /\ health' \in Seq(Health) /\ Len(health') = Len(health) + 1 /\ Len(health) \in Nat
    BY <1>1, AppendLen DEF ReconnectTypeOK
  <1>3. current' = Len(health) + 1
    BY DEF Connect
  <1>4. PICK n : n = Len(health) /\ n \in Nat
    BY <1>2
  <1>. QED  BY <1>2, <1>3, <1>4

\* The invariant holds initially.
LEMMA InitIInv == ReconnectInit => IInv
  <1>. SUFFICES ASSUME ReconnectInit PROVE IInv
    OBVIOUS
  <1>a. health \in Seq(Health) /\ current \in 0 .. Len(health)
    <2>1. CASE health = << >> /\ current = 0
      BY <2>1
    <2>2. CASE health = <<"up">> /\ current = 1
      <3>1. "up" \in Health
        BY DEF Health
      <3>. QED  BY <2>2, <3>1
    <2>. QED  BY <2>1, <2>2 DEF ReconnectInit
  <1>b. set_by_hand \in BOOLEAN
    BY Zenon DEF ReconnectInit
  <1>c. 0 \in 0 .. Len(health)
    BY <1>a
  <1>1. ReconnectTypeOK
    BY <1>a, <1>b, <1>c, MaxSetsAssumption DEF ReconnectInit, ReconnectTypeOK, Stages
  <1>. QED  BY <1>1 DEF ReconnectInit, IInv, Made, Waited

\* get_current leaves the current target, or connects when there is none.
LEMMA GetCurrentEffect ==
    ASSUME IInv, GetCurrent
    PROVE  /\ health' \in Seq(Health) /\ current' \in 1 .. Len(health')
           /\ 0 .. Len(health) \subseteq 0 .. Len(health')
           /\ \A c \in Calls : Made(c) => current' = current
  <1>1. CASE current = 0
    <2>1. Connect
      BY <1>1 DEF GetCurrent
    <2>2. ReconnectTypeOK
      BY DEF IInv
    <2>3. \A c \in Calls : ~ Made(c)
      BY <1>1, Zenon DEF IInv
    <2>4. PICK n \in Nat : n = Len(health')
      BY <2>1, <2>2, ConnectEffect
    <2>. QED  BY <2>1, <2>2, <2>3, <2>4, ConnectEffect
  <1>2. CASE current # 0
    BY <1>2 DEF GetCurrent, IInv, ReconnectTypeOK
  <1>. QED  BY <1>1, <1>2

\* A call is made, on the target and in the generation of the moment.
LEMMA MakeIInv ==
    ASSUME IInv, NEW c \in Calls, NewCall(c) \/ CallTarget(c)
    PROVE  IInv'
  <1>1. /\ stage[c] = "none" /\ GetCurrent
        /\ target' = [target EXCEPT ![c] = current']
        /\ built' = [built EXCEPT ![c] = generation]
        /\ UNCHANGED <<generation, reconnectors, sets, set_by_hand>>
    BY DEF NewCall, CallTarget
  <1>2. \/ stage' = [stage EXCEPT ![c] = "built"] /\ wrapped' = wrapped
        \/ /\ stage' = [stage EXCEPT ![c] = "sent"]
           /\ wrapped' = [wrapped EXCEPT ![c] = generation]
    BY DEF NewCall, CallTarget
  <1>3. /\ health' \in Seq(Health) /\ current' \in 1 .. Len(health')
        /\ 0 .. Len(health) \subseteq 0 .. Len(health')
        /\ \A d \in Calls : Made(d) => current' = current
    BY <1>1, GetCurrentEffect
  <1>4. current' \in 0 .. Len(health') /\ current' # 0
    BY <1>3
  <1>5. ReconnectTypeOK'
    <2>1. stage' \in [Calls -> Stages] /\ wrapped' \in [Calls -> Nat] /\ built' \in [Calls -> Nat]
      BY <1>1, <1>2 DEF IInv, ReconnectTypeOK, Stages
    <2>2. target' \in [Calls -> 0 .. Len(health')]
      BY <1>1, <1>3, <1>4 DEF IInv, ReconnectTypeOK
    <2>. QED  BY <1>1, <1>3, <1>4, <2>1, <2>2 DEF IInv, ReconnectTypeOK
  <1>6. c \notin reconnectors
    BY <1>1 DEF IInv
  <1>7. \A d \in Calls : d # c =>
            /\ stage'[d] = stage[d] /\ target'[d] = target[d]
            /\ built'[d] = built[d] /\ wrapped'[d] = wrapped[d]
    BY <1>1, <1>2 DEF IInv, ReconnectTypeOK
  <1>8. /\ target'[c] = current' /\ built'[c] = generation
        /\ stage'[c] \in {"built", "sent"}
        /\ stage'[c] = "sent" => wrapped'[c] = generation
    BY <1>1, <1>2 DEF IInv, ReconnectTypeOK
  <1>9. \A d \in Calls : d # c => (Made(d)' <=> Made(d)) /\ (Waited(d)' <=> Waited(d))
    BY <1>7 DEF Made, Waited
  <1>10. generation \in Nat /\ generation' = generation
    BY <1>1 DEF IInv, ReconnectTypeOK
  <1>11. \A d \in Calls : Made(d)' =>
            /\ target'[d] # 0 /\ current' # 0
            /\ built'[d] <= generation'
            /\ built'[d] < generation' => target'[d] # current'
            /\ built'[d] = generation' /\ ~ set_by_hand' => target'[d] = current'
    BY <1>1, <1>3, <1>4, <1>7, <1>8, <1>9, <1>10 DEF IInv
  <1>12. \A d \in Calls : Waited(d)' => built'[d] <= wrapped'[d] /\ wrapped'[d] <= generation'
    BY <1>7, <1>8, <1>9, <1>10 DEF IInv, Waited
  <1>13. \A d, e \in Calls :
            Made(d)' /\ Made(e)' /\ target'[d] = target'[e] => built'[d] = built'[e]
    <2>1. \A d \in Calls : d # c /\ Made(d) /\ target[d] = current' => built[d] = generation
      BY <1>3 DEF IInv, ReconnectTypeOK
    <2>. QED  BY <2>1, <1>7, <1>8, <1>9 DEF IInv
  <1>14. \A d \in Calls : stage'[d] = "disconnected" => wrapped'[d] < generation'
    BY <1>7, <1>8, <1>10 DEF IInv
  <1>15. /\ \A d \in reconnectors' : stage'[d] = "disconnected"
         /\ \A d, e \in reconnectors' : d # e => wrapped'[d] # wrapped'[e]
    <2>1. reconnectors' = reconnectors /\ reconnectors \subseteq Calls
      BY <1>1 DEF IInv, ReconnectTypeOK
    <2>2. \A d \in reconnectors : stage'[d] = stage[d] /\ wrapped'[d] = wrapped[d]
      BY <2>1, <1>6, <1>7
    <2>3. /\ \A d \in reconnectors : stage[d] = "disconnected"
          /\ \A d, e \in reconnectors : d # e => wrapped[d] # wrapped[e]
      BY DEF IInv
    <2>. QED  BY <2>1, <2>2, <2>3
  <1>. QED  BY <1>5, <1>11, <1>12, <1>13, <1>14, <1>15 DEF IInv

\* A call is settled, or its request is sent: the targets stay.
LEMMA StageIInv ==
    ASSUME IInv, NEW c \in Calls, Send(c) \/ Return(c) \/ Fail(c) \/ DropCall(c)
    PROVE  IInv'
  <1>1. /\ UNCHANGED <<health, current, generation, target, built, reconnectors, sets, set_by_hand>>
        /\ stage[c] \in {"built", "sent"}
    BY DEF Send, Return, Fail, DropCall, Wrap
  <1>2. PICK x \in {"sent", "returned", "failed", "dropped"} : stage' = [stage EXCEPT ![c] = x]
    BY Zenon DEF Send, Return, Fail, DropCall
  <1>3. \/ wrapped' = [wrapped EXCEPT ![c] = generation]
        \/ wrapped' = wrapped /\ (stage[c] = "sent" \/ x = "dropped")
    BY <1>2, Zenon DEF Send, Return, Fail, DropCall, IInv, ReconnectTypeOK
  <1>4. ReconnectTypeOK'
    <2>1. stage' \in [Calls -> Stages] /\ wrapped' \in [Calls -> Nat]
      BY <1>2, <1>3, Zenon DEF IInv, ReconnectTypeOK, Stages
    <2>. QED  BY <1>1, <2>1 DEF IInv, ReconnectTypeOK
  <1>5. \A d \in Calls : d # c => stage'[d] = stage[d] /\ wrapped'[d] = wrapped[d]
    BY <1>2, <1>3 DEF IInv, ReconnectTypeOK
  <1>6. stage'[c] = x /\ (wrapped'[c] = generation \/ wrapped'[c] = wrapped[c])
    BY <1>2, <1>3 DEF IInv, ReconnectTypeOK
  <1>7. x # "dropped" => wrapped'[c] = generation \/ (wrapped'[c] = wrapped[c] /\ Waited(c))
    BY <1>3, <1>6 DEF IInv, ReconnectTypeOK, Waited
  <1>8. \A d \in Calls : Made(d)' <=> Made(d)
    BY <1>1, <1>5, <1>6 DEF Made
  <1>9. Made(c) /\ generation \in Nat
    BY <1>1 DEF Made, IInv, ReconnectTypeOK
  <1>10. \A d \in Calls : Waited(d)' => built'[d] <= wrapped'[d] /\ wrapped'[d] <= generation'
    <2>1. Waited(c)' => built'[c] <= wrapped'[c] /\ wrapped'[c] <= generation'
      BY <1>1, <1>6, <1>7, <1>9 DEF IInv, Waited
    <2>2. \A d \in Calls : d # c /\ Waited(d)' => Waited(d)
      BY <1>5 DEF Waited
    <2>. QED  BY <2>1, <2>2, <1>1, <1>5 DEF IInv
  <1>11. \A d \in Calls : stage'[d] = "disconnected" => wrapped'[d] < generation'
    BY <1>1, <1>5, <1>6 DEF IInv
  <1>12. /\ \A d \in reconnectors' : stage'[d] = "disconnected"
         /\ \A d, e \in reconnectors' : d # e => wrapped'[d] # wrapped'[e]
    <2>1. reconnectors' = reconnectors /\ reconnectors \subseteq Calls /\ c \notin reconnectors
      BY <1>1 DEF IInv, ReconnectTypeOK
    <2>2. \A d \in reconnectors : stage'[d] = stage[d] /\ wrapped'[d] = wrapped[d]
      BY <2>1, <1>5
    <2>3. /\ \A d \in reconnectors : stage[d] = "disconnected"
          /\ \A d, e \in reconnectors : d # e => wrapped[d] # wrapped[e]
      BY DEF IInv
    <2>. QED  BY <2>1, <2>2, <2>3
  <1>13. /\ \A d \in Calls : Made(d)' =>
                /\ target'[d] # 0 /\ current' # 0
                /\ built'[d] <= generation'
                /\ built'[d] < generation' => target'[d] # current'
                /\ built'[d] = generation' /\ ~ set_by_hand' => target'[d] = current'
         /\ \A d, e \in Calls :
                Made(d)' /\ Made(e)' /\ target'[d] = target'[e] => built'[d] = built'[e]
    BY <1>1, <1>8 DEF IInv
  <1>. QED  BY <1>4, <1>10, <1>11, <1>12, <1>13 DEF IInv

\* A target is lost: no call is touched.
LEMMA LoseIInv == ASSUME IInv, Lose PROVE IInv'
  <1>1. health' \in Seq(Health) /\ Len(health') = Len(health)
    <2>1. PICK t \in DOMAIN health : health' = [health EXCEPT ![t] = "lost"]
      BY Zenon DEF Lose
    <2>. QED  BY <2>1 DEF IInv, ReconnectTypeOK, Health
  <1>. QED  BY <1>1 DEF Lose, calls, IInv, ReconnectTypeOK, Made, Waited

\* set_target: the target is new, so that no call is on it.
LEMMA SetTargetIInv == ASSUME IInv, SetTarget PROVE IInv'
  <1>1. Connect
    BY DEF SetTarget, Connect, Health
  <1>2. ReconnectTypeOK
    BY DEF IInv
  <1>3. /\ health' \in Seq(Health) /\ current' \in 0 .. Len(health') /\ current' # 0
        /\ \A t \in 0 .. Len(health) : t # current' /\ t \in 0 .. Len(health')
    <2>1. PICK n \in Nat : n = Len(health')
      BY <1>1, <1>2, ConnectEffect
    <2>. QED  BY <1>1, <1>2, <2>1, ConnectEffect
  <1>4. set_by_hand' \in BOOLEAN /\ set_by_hand'
    BY DEF SetTarget
  <1>5. sets' \in 0 .. MaxSets
    BY MaxSetsAssumption DEF SetTarget, IInv, ReconnectTypeOK
  <1>6. UNCHANGED <<generation, stage, target, built, wrapped, reconnectors>>
    BY DEF SetTarget, calls
  <1>7. ReconnectTypeOK'
    BY <1>3, <1>4, <1>5, <1>6 DEF IInv, ReconnectTypeOK
  <1>8. \A c \in Calls : target'[c] # current'
    BY <1>3, <1>6 DEF IInv, ReconnectTypeOK
  <1>. QED  BY <1>3, <1>4, <1>6, <1>7, <1>8 DEF IInv, Made, Waited

\* A call reports that its target is lost.  If its generation is the present one,
\* the target is replaced by a new one and the generation is over.
LEMMA FailDisconnectedIInv ==
    ASSUME IInv, NEW c \in Calls, FailDisconnected(c)
    PROVE  IInv'
  <1>1. /\ stage[c] = "sent" /\ stage' = [stage EXCEPT ![c] = "disconnected"]
        /\ UNCHANGED <<target, built, wrapped, sets>>
        /\ Wrap(c, TRUE)
    BY Zenon DEF FailDisconnected
  <1>2. /\ stage' \in [Calls -> Stages] /\ stage'[c] = "disconnected"
        /\ \A d \in Calls : d # c => stage'[d] = stage[d]
    BY <1>1 DEF IInv, ReconnectTypeOK, Stages
  <1>3. \A d \in Calls : (Made(d)' <=> Made(d)) /\ (Waited(d)' <=> Waited(d))
    BY <1>1, <1>2 DEF Made, Waited
  <1>4. Waited(c) /\ wrapped[c] <= generation /\ c \notin reconnectors
    BY <1>1 DEF Waited, IInv
  <1>5. CASE wrapped[c] = generation
    <2>1. /\ generation' = generation + 1 /\ Connect
          /\ reconnectors' = reconnectors \cup {c} /\ set_by_hand' = FALSE
      BY <1>1, <1>5 DEF Wrap
    <2>2. ReconnectTypeOK
      BY DEF IInv
    <2>3. /\ health' \in Seq(Health) /\ current' \in 0 .. Len(health') /\ current' # 0
          /\ \A t \in 0 .. Len(health) : t # current' /\ t \in 0 .. Len(health')
      <3>1. PICK n \in Nat : n = Len(health')
        BY <2>1, <2>2, ConnectEffect
      <3>. QED  BY <2>1, <2>2, <3>1, ConnectEffect
    <2>4. PICK g \in Nat : g = generation /\ generation' = g + 1
      BY <2>1 DEF IInv, ReconnectTypeOK
    <2>5. ReconnectTypeOK'
      <3>1. set_by_hand' \in BOOLEAN
        BY <2>1, Zenon
      <3>. QED  BY <1>1, <1>2, <2>1, <2>3, <2>4, <3>1 DEF IInv, ReconnectTypeOK
    <2>6. \A d \in Calls : target'[d] # current'
      BY <1>1, <2>3 DEF IInv, ReconnectTypeOK
    <2>7. \A d \in Calls : Made(d)' =>
              /\ target'[d] # 0 /\ current' # 0
              /\ built'[d] <= generation'
              /\ built'[d] < generation' => target'[d] # current'
              /\ built'[d] = generation' /\ ~ set_by_hand' => target'[d] = current'
      <3>1. \A d \in Calls : Made(d) => built[d] \in Nat /\ built[d] <= g
        BY <2>4 DEF IInv, ReconnectTypeOK
      <3>2. \A d \in Calls : Made(d) => built[d] <= g + 1 /\ built[d] # g + 1
        BY <3>1
      <3>. QED  BY <1>1, <1>3, <2>3, <2>4, <2>6, <3>2 DEF IInv
    <2>8. \A d \in Calls : Waited(d)' => built'[d] <= wrapped'[d] /\ wrapped'[d] <= generation'
      <3>1. \A d \in Calls : Waited(d) => /\ built[d] <= wrapped[d] /\ wrapped[d] <= g
                                         /\ wrapped[d] \in Nat
        BY <2>4 DEF IInv, ReconnectTypeOK
      <3>2. \A d \in Calls : Waited(d) => wrapped[d] <= g + 1
        BY <3>1
      <3>. QED  BY <1>1, <1>3, <2>4, <3>1, <3>2
    <2>9. \A d \in Calls : stage'[d] = "disconnected" => wrapped'[d] < generation'
      <3>1. \A d \in Calls : stage[d] = "disconnected" => wrapped[d] \in Nat /\ wrapped[d] < g
        BY <2>4 DEF IInv, ReconnectTypeOK
      <3>2. \A d \in Calls : stage[d] = "disconnected" => wrapped[d] < g + 1
        BY <3>1
      <3>. QED  BY <1>1, <1>2, <1>5, <2>4, <3>2
    <2>10. \A d \in reconnectors' : d \in Calls /\ stage'[d] = "disconnected"
      BY <1>2, <2>1 DEF IInv, ReconnectTypeOK
    <2>11. \A d, e \in reconnectors' : d # e => wrapped'[d] # wrapped'[e]
      <3>1. \A d \in reconnectors : wrapped[d] \in Nat /\ wrapped[d] < g
        BY <2>4 DEF IInv, ReconnectTypeOK
      <3>2. \A d \in reconnectors : wrapped[d] # g
        BY <3>1
      <3>3. \A d, e \in reconnectors : d # e => wrapped[d] # wrapped[e]
        BY DEF IInv
      <3>. QED  BY <1>1, <1>5, <2>1, <2>4, <3>2, <3>3
    <2>. QED  BY <1>1, <1>3, <2>5, <2>7, <2>8, <2>9, <2>10, <2>11 DEF IInv
  <1>6. CASE wrapped[c] # generation
    <2>1. UNCHANGED <<health, current, generation, reconnectors, set_by_hand>>
      BY <1>1, <1>6 DEF Wrap
    <2>2. ReconnectTypeOK'
      BY <1>1, <1>2, <2>1 DEF IInv, ReconnectTypeOK
    <2>3. wrapped[c] < generation
      BY <1>4, <1>6 DEF IInv, ReconnectTypeOK
    <2>4. \A d \in Calls : stage'[d] = "disconnected" => wrapped'[d] < generation'
      BY <1>1, <1>2, <2>1, <2>3 DEF IInv
    <2>5. \A d \in reconnectors' : stage'[d] = "disconnected"
      BY <1>2, <2>1 DEF IInv, ReconnectTypeOK
    <2>. QED  BY <1>1, <1>3, <2>1, <2>2, <2>4, <2>5 DEF IInv
  <1>. QED  BY <1>5, <1>6

\* The invariant is preserved by every step.
LEMMA NextIInv == IInv /\ [ReconnectNext]_reconnect_vars => IInv'
  <1>. SUFFICES ASSUME IInv, [ReconnectNext]_reconnect_vars PROVE IInv'
    OBVIOUS
  <1>1. CASE UNCHANGED reconnect_vars
    BY <1>1 DEF reconnect_vars, calls, IInv, ReconnectTypeOK, Made, Waited
  <1>2. ASSUME NEW c \in Calls, NewCall(c) \/ CallTarget(c) PROVE IInv'
    BY <1>2, MakeIInv
  <1>3. ASSUME NEW c \in Calls, Send(c) \/ Return(c) \/ Fail(c) \/ DropCall(c) PROVE IInv'
    BY <1>3, StageIInv
  <1>4. ASSUME NEW c \in Calls, FailDisconnected(c) PROVE IInv'
    BY <1>4, FailDisconnectedIInv
  <1>. QED  BY <1>1, <1>2, <1>3, <1>4, LoseIInv, SetTargetIInv DEF ReconnectNext

\* The invariant holds in every behaviour of the reconnecting client.
LEMMA Invariance == ReconnectSpec => []IInv
  BY InitIInv, NextIInv, PTL DEF ReconnectSpec

\* Type correctness.
THEOREM Typed == ReconnectSpec => []ReconnectTypeOK
  <1>1. IInv => ReconnectTypeOK
    BY DEF IInv
  <1>. QED  BY Invariance, <1>1, PTL

\* A target that has answered Disconnected is never current again, for any number
\* of calls and of targets (Client::wrap).
THEOREM LostTargetsAreLeft == ReconnectSpec => []LostIsLeft
  <1>1. IInv => LostIsLeft
    <2>. SUFFICES ASSUME IInv, NEW c \in Calls, stage[c] = "disconnected"
                  PROVE  current # target[c]
      BY DEF LostIsLeft
    <2>1. wrapped[c] < generation /\ built[c] <= wrapped[c] /\ Made(c)
      BY DEF IInv, Waited, Made
    <2>2. built[c] < generation
      BY <2>1 DEF IInv, ReconnectTypeOK
    <2>. QED  BY <2>1, <2>2 DEF IInv
  <1>. QED  BY Invariance, <1>1, PTL

\* The loss of a target makes the client reconnect once, late requests apart
\* (Client::wrap).
THEOREM ReconnectsOnce == ReconnectSpec => []OncePerLoss
  <1>1. IInv => OncePerLoss
    <2>. SUFFICES ASSUME IInv, NEW c \in reconnectors, NEW d \in reconnectors, c # d,
                         target[c] = target[d], ~ Late(c), ~ Late(d)
                  PROVE  FALSE
      BY DEF OncePerLoss
    <2>1. c \in Calls /\ d \in Calls /\ Made(c) /\ Made(d) /\ wrapped[c] # wrapped[d]
      BY DEF IInv, ReconnectTypeOK, Made
    <2>2. built[c] = built[d]
      BY <2>1 DEF IInv
    <2>. QED  BY <2>1, <2>2 DEF Late
  <1>. QED  BY Invariance, <1>1, PTL

\* The client leaves only the target whose own call has ended with Disconnected, late
\* requests and targets set by hand apart, for any number of calls, targets and
\* reconnects in between (Client::wrap, set_target).
THEOREM OnlyReportedAreLeft == ReconnectSpec => LeavesOnlyReported
  <1>. DEFINE Leaves == \A c \in reconnectors' \ reconnectors :
                  ~ Late(c) /\ ~ set_by_hand => target[c] = current
  <1>1. IInv /\ [ReconnectNext]_reconnect_vars => [Leaves]_reconnect_vars
    <2>. SUFFICES ASSUME IInv, ReconnectNext, NEW c \in reconnectors' \ reconnectors,
                         ~ Late(c), ~ set_by_hand
                  PROVE  target[c] = current
      OBVIOUS
    <2>1. PICK d \in Calls : FailDisconnected(d) /\ Wrap(d, TRUE)
      BY DEF ReconnectNext, Lose, SetTarget, NewCall, Send, CallTarget, Return, Fail, Wrap,
             FailDisconnected, DropCall
    <2>2. c = d /\ wrapped[c] = generation
      BY <2>1 DEF Wrap
    <2>3. built[c] = generation /\ Made(c)
      BY <2>1, <2>2 DEF Late, FailDisconnected, Made
    <2>. QED  BY <2>2, <2>3 DEF IInv
  <1>. QED  BY Invariance, <1>1, PTL DEF ReconnectSpec, LeavesOnlyReported
=============================================================================
