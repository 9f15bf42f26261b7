------------------------ MODULE PendingDeletion_proof ------------------------
(***************************************************************************)
(* Type correctness of PendingDeletion, and that each lane holds only      *)
(* operations on intents of its own conversation, the one under way at its *)
(* head: for every set of conversations, turns and requests, every bound   *)
(* and every choice of faults.                                             *)
(***************************************************************************)
EXTENDS PendingDeletionInvariant, SequenceTheorems, FiniteSetTheorems, TLAPS

\* The one operation that carries no id is told apart by its name.
LEMMA TurnsOpName == TurnsOp.op = "turns"
BY DEF TurnsOp

\* Every other operation carries the id of an intent.
LEMMA OpIds ==
    \A o \in Op : o # TurnsOp => o.id \in Id
BY DEF Op, TurnsOp

\* What is at the head of a lane that is not empty is an operation.
LEMMA HeadIsOp ==
    ASSUME TypeOK, NEW k \in Conv, lane[k] # <<>>
    PROVE  Head1(k) \in Op /\ (Head1(k) # TurnsOp => Head1(k).id \in Id)
<1>1. lane[k] \in Seq(Op)  BY DEF TypeOK, LaneTypeOK
<1>2. Head1(k) \in Op  BY <1>1 DEF Head1
<1> QED BY <1>2, OpIds

\* What EndOp, Enqueue and GoTo do to the lanes.
LEMMA EndOpLanes ==
    ASSUME TypeOK, NEW k \in Conv, lane[k] # <<>>, EndOp(k)
    PROVE  /\ lane' \in [Conv -> Seq(Op)]
           /\ pc' \in [Conv -> OpPhase]
           /\ pc'[k] = "start"
           /\ \A j \in Conv \ {k} : lane'[j] = lane[j] /\ pc'[j] = pc[j]
           /\ Waiting(k)' = Rest(k)
           /\ Rest(k) \subseteq Waiting(k)
<1>1. lane[k] \in Seq(Op)  BY DEF TypeOK, LaneTypeOK
<1>2. /\ Tail(lane[k]) \in Seq(Op)
      /\ Len(Tail(lane[k])) = Len(lane[k]) - 1
      /\ \A n \in 1 .. Len(Tail(lane[k])) : Tail(lane[k])[n] = lane[k][n + 1]
  BY <1>1, HeadTailProperties
<1>3. lane' = [lane EXCEPT ![k] = Tail(@)] /\ pc' = [pc EXCEPT ![k] = "start"]
  BY DEF EndOp
<1>4. lane' \in [Conv -> Seq(Op)] /\ pc' \in [Conv -> OpPhase]
  BY <1>2, <1>3 DEF TypeOK, LaneTypeOK, OpPhase
<1>5. /\ pc'[k] = "start" /\ lane'[k] = Tail(lane[k])
      /\ \A j \in Conv \ {k} : lane'[j] = lane[j] /\ pc'[j] = pc[j]
  BY <1>3 DEF TypeOK, LaneTypeOK
<1>6. DOMAIN lane[k] = 1 .. Len(lane[k]) /\ DOMAIN Tail(lane[k]) = 1 .. Len(Tail(lane[k]))
  BY <1>1, <1>2, LenProperties
<1>7. Len(lane[k]) \in Nat
  BY <1>1, LenProperties
<1>8. ASSUME NEW n \in DOMAIN lane[k] \ {1}
      PROVE  n - 1 \in DOMAIN Tail(lane[k]) /\ Tail(lane[k])[n - 1] = lane[k][n]
  BY <1>2, <1>6, <1>7
<1>9. ASSUME NEW n \in DOMAIN Tail(lane[k])
      PROVE  n + 1 \in DOMAIN lane[k] \ {1} /\ Tail(lane[k])[n] = lane[k][n + 1]
  BY <1>2, <1>6, <1>7
<1>10. Waiting(k)' = Rest(k)
  BY <1>5, <1>8, <1>9 DEF Waiting, Rest
<1>11. Rest(k) \subseteq Waiting(k)
  BY DEF Rest, Waiting
<1> QED BY <1>4, <1>5, <1>10, <1>11

\* Enqueue appends to one lane and leaves the heads of all lanes alone.
LEMMA EnqueueLanes ==
    ASSUME TypeOK, NEW k \in Conv, NEW o \in Op, Enqueue(k, o)
    PROVE  /\ lane' \in [Conv -> Seq(Op)]
           /\ \A j \in Conv \ {k} : lane'[j] = lane[j]
           /\ Waiting(k)' = Waiting(k) \cup {o}
           /\ \A j \in Conv \ {k} : Waiting(j)' = Waiting(j)
           /\ \A j \in Conv : lane[j] # <<>> => lane'[j] # <<>> /\ Head1(j)' = Head1(j)
<1>1. lane[k] \in Seq(Op)  BY DEF TypeOK, LaneTypeOK
<1>2. /\ Append(lane[k], o) \in Seq(Op)
      /\ Len(Append(lane[k], o)) = Len(lane[k]) + 1
      /\ \A n \in 1 .. Len(lane[k]) : Append(lane[k], o)[n] = lane[k][n]
      /\ Append(lane[k], o)[Len(lane[k]) + 1] = o
      /\ Append(lane[k], o) # <<>>
  BY <1>1, AppendProperties
<1>3. lane' = [lane EXCEPT ![k] = Append(@, o)]
  BY DEF Enqueue
<1>4. lane' \in [Conv -> Seq(Op)] /\ lane'[k] = Append(lane[k], o)
  BY <1>2, <1>3 DEF TypeOK, LaneTypeOK
<1>5. \A j \in Conv \ {k} : lane'[j] = lane[j]
  BY <1>3 DEF TypeOK, LaneTypeOK
<1>6. /\ DOMAIN lane[k] = 1 .. Len(lane[k]) /\ Len(lane[k]) \in Nat
      /\ DOMAIN Append(lane[k], o) = 1 .. (Len(lane[k]) + 1)
  BY <1>1, <1>2, LenProperties
<1>7. Waiting(k)' = Waiting(k) \cup {o}
  BY <1>2, <1>4, <1>6, SMTT(30) DEF Waiting
<1>8. lane[k] # <<>> => Head1(k)' = Head1(k)
  <2> SUFFICES ASSUME lane[k] # <<>> PROVE Head1(k)' = Head1(k)
    OBVIOUS
  <2>1. 1 \in 1 .. Len(lane[k])
    BY <1>1, <1>6, EmptySeq
  <2> QED BY <1>2, <1>4, <2>1 DEF Head1
<1>9. \A j \in Conv \ {k} : Waiting(j)' = Waiting(j)
  BY <1>5 DEF Waiting
<1> QED BY <1>2, <1>4, <1>5, <1>7, <1>8, <1>9 DEF Head1

\* GoTo moves one lane to another phase and touches no operation.
LEMMA GoToLanes ==
    ASSUME TypeOK, NEW k \in Conv, NEW phase \in OpPhase, GoTo(k, phase)
    PROVE  /\ pc' \in [Conv -> OpPhase] /\ lane' = lane
           /\ pc'[k] = phase
           /\ \A j \in Conv \ {k} : pc'[j] = pc[j]
BY DEF GoTo, TypeOK, LaneTypeOK

\* Ending an operation leaves its lane between operations.
LEMMA EndOpBusy ==
    ASSUME TypeOK, BusyHead, NEW k \in Conv, lane[k] # <<>>, EndOp(k)
    PROVE  lane' \in [Conv -> Seq(Op)] /\ pc' \in [Conv -> OpPhase] /\ BusyHead'
BY EndOpLanes DEF BusyHead, Head1

\* Going on to the next phase keeps the operation at the head of its lane.
LEMMA GoToBusy ==
    ASSUME TypeOK, BusyHead, NEW k \in Conv, NEW phase \in OpPhase, GoTo(k, phase),
           lane[k] # <<>>, Head1(k) # TurnsOp
    PROVE  lane' \in [Conv -> Seq(Op)] /\ pc' \in [Conv -> OpPhase] /\ BusyHead'
<1>1. lane' = lane /\ pc' \in [Conv -> OpPhase] /\ \A j \in Conv \ {k} : pc'[j] = pc[j]
  BY GoToLanes
<1> QED BY <1>1 DEF BusyHead, Head1, TypeOK, LaneTypeOK

\* Appending an operation disturbs none that is under way.
LEMMA EnqueueBusy ==
    ASSUME TypeOK, BusyHead, NEW k \in Conv, NEW o \in Op, Enqueue(k, o), UNCHANGED pc
    PROVE  lane' \in [Conv -> Seq(Op)] /\ pc' \in [Conv -> OpPhase] /\ BusyHead'
BY EnqueueLanes DEF BusyHead, TypeOK, LaneTypeOK

\* Whatever bumps or crosses the writers leaves them writers.
LEMMA FenceTypes ==
    ASSUME FenceTypeOK
    PROVE  /\ \A keys : BumpAll(keys) \in [Writer -> WriterRecord]
           /\ \A k : Bump(k) \in [Writer -> WriterRecord]
           /\ \A k : \A b \in BOOLEAN : Cross(k, b) \in [Writer -> WriterRecord]
BY DEF FenceTypeOK, WriterRecord, BumpAll, Bump, Cross

\* A listing of a set of intents is a sequence of its elements.
LEMMA ListingSeq ==
    ASSUME NEW S \in SUBSET Id, NEW s \in Listings(S)
    PROVE  s \in Seq(S) /\ DOMAIN s = 1 .. Len(s) /\ Len(s) \in Nat
<1>1. IsFiniteSet(S)
  <2>1. 1 \in Int /\ MaxId \in Int
    BY BoundAssumption
  <2>2. IsFiniteSet(Id)
    BY <2>1, FS_Interval DEF Id
  <2> QED BY <2>2, FS_Subset
<1>2. Cardinality(S) \in Nat
  BY <1>1, FS_CardinalityType
<1> QED BY <1>2, IsASeq, LenProperties DEF Listings

\* finalizeTurnsForConversation puts the finalizations of its turns in its place,
\* and what is behind it moves by as much.
LEMMA StartTurnsShape ==
    ASSUME TypeOK, NEW k \in Conv, StartTurns(k)
    PROVE  /\ lane' \in [Conv -> Seq(Op)]
           /\ \A j \in Conv \ {k} : lane'[j] = lane[j]
           /\ \E m \in Nat :
                 /\ \A n \in DOMAIN lane'[k] :
                       \/ lane'[k][n] \in {FinalizeTurn(i) : i \in TurnEntries(k)}
                       \/ n - m + 1 \in DOMAIN lane[k] \ {1} /\ lane'[k][n] = lane[k][n - m + 1]
                 /\ \A n \in DOMAIN lane[k] \ {1} :
                       n + m - 1 \in DOMAIN lane'[k] /\ lane'[k][n + m - 1] = lane[k][n]
<1>1. PICK s \in Listings(TurnEntries(k)) :
        lane' = [lane EXCEPT ![k] = [n \in DOMAIN s |-> FinalizeTurn(s[n])] \o Tail(@)]
  BY DEF StartTurns
<1>2. lane[k] \in Seq(Op) /\ lane[k] # <<>> /\ pc' = pc /\ pc[k] = "start"
  BY DEF StartTurns, Running, TypeOK, LaneTypeOK
<1>3. TurnEntries(k) \in SUBSET Id
  BY DEF TurnEntries, Used
<1>4. s \in Seq(TurnEntries(k)) /\ DOMAIN s = 1 .. Len(s) /\ Len(s) \in Nat
  BY <1>3, ListingSeq
<1>5. \A n \in DOMAIN s : FinalizeTurn(s[n]) \in Op
  BY <1>3, <1>4 DEF FinalizeTurn, Op
<1> DEFINE new == [n \in DOMAIN s |-> FinalizeTurn(s[n])]
           all == new \o Tail(lane[k])
<1>6. new \in Seq(Op) /\ DOMAIN new = 1 .. Len(s) /\ Len(new) = Len(s)
  BY <1>4, <1>5, IsASeq, LenProperties
<1>7. /\ Tail(lane[k]) \in Seq(Op) /\ Len(Tail(lane[k])) = Len(lane[k]) - 1
      /\ \A n \in 1 .. Len(Tail(lane[k])) : Tail(lane[k])[n] = lane[k][n + 1]
  BY <1>2, HeadTailProperties
<1>8. /\ all \in Seq(Op) /\ Len(all) = Len(new) + Len(Tail(lane[k]))
      /\ \A n \in 1 .. Len(all) :
            all[n] = IF n <= Len(new) THEN new[n] ELSE Tail(lane[k])[n - Len(new)]
  <2>1. new \in Seq(Op) /\ Tail(lane[k]) \in Seq(Op)
    BY <1>6, <1>7
  <2> HIDE DEF new
  <2>2. /\ all \in Seq(Op) /\ Len(all) = Len(new) + Len(Tail(lane[k]))
        /\ \A n \in 1 .. (Len(new) + Len(Tail(lane[k]))) :
              all[n] = IF n <= Len(new) THEN new[n] ELSE Tail(lane[k])[n - Len(new)]
    BY ONLY <2>1, ConcatProperties
  <2> HIDE DEF all
  <2> QED BY <2>2
<1>9. lane' \in [Conv -> Seq(Op)] /\ lane'[k] = all /\ \A j \in Conv \ {k} : lane'[j] = lane[j]
  BY <1>1, <1>8 DEF TypeOK, LaneTypeOK
<1>10. /\ Len(new) \in Nat /\ Len(lane[k]) \in Nat /\ Len(lane[k]) > 0
       /\ DOMAIN lane[k] = 1 .. Len(lane[k]) /\ DOMAIN all = 1 .. Len(all)
  <2> HIDE DEF all
  <2> QED BY <1>2, <1>4, <1>6, <1>8, LenProperties, EmptySeq
<1>11. ASSUME NEW n \in DOMAIN all
       PROVE  \/ all[n] \in {FinalizeTurn(i) : i \in TurnEntries(k)}
              \/ n - Len(new) + 1 \in DOMAIN lane[k] \ {1} /\ all[n] = lane[k][n - Len(new) + 1]
  <2>1. n \in 1 .. Len(all)
    BY <1>10
  <2>2. CASE n <= Len(new)
    <3>1. n \in DOMAIN s /\ all[n] = new[n]
      BY <1>4, <1>6, <1>8, <2>1, <2>2
    <3>2. all[n] = FinalizeTurn(s[n]) /\ s[n] \in TurnEntries(k)
      BY <1>4, <3>1, ElementOfSeq
    <3> QED BY <3>2
  <2>3. CASE n > Len(new)
    <3>1. /\ n - Len(new) \in 1 .. Len(Tail(lane[k]))
          /\ n - Len(new) + 1 \in DOMAIN lane[k] \ {1}
      BY <1>7, <1>8, <1>10, <2>1, <2>3
    <3>2. all[n] = lane[k][n - Len(new) + 1]
      BY <1>7, <1>8, <1>10, <2>1, <2>3, <3>1
    <3> QED BY <3>1, <3>2
  <2> QED BY <1>10, <2>1, <2>2, <2>3, SMTT(30)
<1>12. ASSUME NEW n \in DOMAIN lane[k] \ {1}, NEW m, m = n + Len(new) - 1
       PROVE  m \in DOMAIN all /\ all[m] = lane[k][n]
  <2> HIDE DEF all, new
  <2>0. /\ n \in 1 .. Len(lane[k]) /\ n # 1 /\ Len(new) \in Nat /\ Len(lane[k]) \in Nat
        /\ Len(Tail(lane[k])) = Len(lane[k]) - 1 /\ Len(all) = Len(new) + Len(Tail(lane[k]))
    BY <1>7, <1>8, <1>10
  <2>1. m \in 1 .. Len(all) /\ ~(m <= Len(new)) /\ n - 1 \in 1 .. Len(Tail(lane[k]))
    <3>1. n \in Nat /\ n >= 2 /\ n <= Len(lane[k])
      BY <2>0
    <3>2. m = n + Len(new) - 1
      BY <1>12
    <3> QED BY ONLY <2>0, <3>1, <3>2
  <2>2. m - Len(new) = n - 1 /\ n - 1 + 1 = n
    BY <1>12, <2>0
  <2>3. all[m] = Tail(lane[k])[m - Len(new)]
    BY <1>8, <2>1
  <2>4. Tail(lane[k])[m - Len(new)] = lane[k][n]
    BY <1>7, <2>1, <2>2
  <2> QED BY <1>10, <2>1, <2>3, <2>4
<1> QED
  <2> HIDE DEF all, new
  <2>1. \A n \in DOMAIN lane[k] \ {1} :
           n + Len(new) - 1 \in DOMAIN all /\ all[n + Len(new) - 1] = lane[k][n]
    BY <1>12
  <2>2. PICK m \in Nat : m = Len(new)
    BY <1>10
  <2> QED BY <1>9, <1>11, <2>1, <2>2

\* So it only puts turns of its own conversation in its lane.
LEMMA StartTurnsLanes ==
    ASSUME TypeOK, NEW k \in Conv, StartTurns(k)
    PROVE  /\ lane' \in [Conv -> Seq(Op)]
           /\ pc' = pc /\ pc[k] = "start" /\ pc \in [Conv -> OpPhase]
           /\ \A j \in Conv \ {k} : lane'[j] = lane[j]
           /\ Waiting(k)' \subseteq Waiting(k) \cup {FinalizeTurn(i) : i \in TurnEntries(k)}
           /\ Rest(k) \subseteq Waiting(k)'
<1>1. pc' = pc /\ pc[k] = "start" /\ pc \in [Conv -> OpPhase]
  BY DEF StartTurns, Running, TypeOK, LaneTypeOK
<1> QED BY <1>1, StartTurnsShape DEF Waiting, Rest

\* A sweep appends finalizations to the lanes of their own conversations.
LEMMA FinalizeAllShape ==
    ASSUME TypeOK, NEW S \in SUBSET Id, FinalizeAll(S)
    PROVE  /\ lane' \in [Conv -> Seq(Op)]
           /\ \A j \in Conv : lane[j] # <<>> => lane'[j] # <<>> /\ Head1(j)' = Head1(j)
           /\ \A j \in Conv : \A n \in DOMAIN lane[j] :
                 n \in DOMAIN lane'[j] /\ lane'[j][n] = lane[j][n]
           /\ \A j \in Conv : \A n \in DOMAIN lane'[j] \ DOMAIN lane[j] :
                 lane'[j][n] \in {FinalizeOp(i) : i \in {m \in S : Key(m) = j}}
           /\ \A j \in Conv : \A i \in S : Key(i) = j => FinalizeOp(i) \in Waiting(j)'
<1> DEFINE Of(k) == {i \in S : Key(i) = k /\ ~Scheduled(i)}
<1>1. PICK s : /\ \A k \in Conv : s[k] \in Listings(Of(k))
               /\ lane' = [k \in Conv |->
                             lane[k] \o [n \in DOMAIN s[k] |-> FinalizeOp(s[k][n])]]
  BY DEF FinalizeAll
<1>2. lane' = [k \in Conv |-> lane'[k]]
  BY <1>1
<1>3. SUFFICES ASSUME NEW j \in Conv
               PROVE  /\ lane'[j] \in Seq(Op)
                      /\ lane[j] # <<>> => lane'[j] # <<>> /\ lane'[j][1] = lane[j][1]
                      /\ \A n \in DOMAIN lane[j] :
                            n \in DOMAIN lane'[j] /\ lane'[j][n] = lane[j][n]
                      /\ \A n \in DOMAIN lane'[j] \ DOMAIN lane[j] :
                            lane'[j][n] \in {FinalizeOp(i) : i \in {m \in S : Key(m) = j}}
                      /\ \A i \in S : Key(i) = j => FinalizeOp(i) \in Waiting(j)'
  BY <1>2, ZenonT(60) DEF Head1
<1> DEFINE new == [n \in DOMAIN s[j] |-> FinalizeOp(s[j][n])]
           all == lane[j] \o new
<1>4. /\ lane'[j] = all
      /\ lane[j] \in Seq(Op) /\ Len(lane[j]) \in Nat /\ DOMAIN lane[j] = 1 .. Len(lane[j])
  BY <1>1, LenProperties DEF TypeOK, LaneTypeOK
<1>5. s[j] \in Seq(Of(j)) /\ DOMAIN s[j] = 1 .. Len(s[j]) /\ Len(s[j]) \in Nat
  BY <1>1, ListingSeq
<1>6. \A n \in DOMAIN s[j] : s[j][n] \in Of(j)
  BY <1>5, ElementOfSeq
<1>7. \A n \in DOMAIN s[j] : FinalizeOp(s[j][n]) \in Op
  BY <1>6 DEF FinalizeOp, Op
<1>8. new \in Seq(Op) /\ DOMAIN new = 1 .. Len(s[j]) /\ Len(new) = Len(s[j])
  BY <1>5, <1>7, IsASeq, LenProperties
<1>9. /\ all \in Seq(Op) /\ Len(all) = Len(lane[j]) + Len(new)
      /\ \A n \in 1 .. Len(all) :
            all[n] = IF n <= Len(lane[j]) THEN lane[j][n] ELSE new[n - Len(lane[j])]
  <2> HIDE DEF new
  <2>1. /\ all \in Seq(Op) /\ Len(all) = Len(lane[j]) + Len(new)
        /\ \A n \in 1 .. (Len(lane[j]) + Len(new)) :
              all[n] = IF n <= Len(lane[j]) THEN lane[j][n] ELSE new[n - Len(lane[j])]
    <3>1. lane[j] \in Seq(Op) /\ new \in Seq(Op)
      BY <1>4, <1>8
    <3> QED BY ONLY <3>1, ConcatProperties
  <2> HIDE DEF all
  <2> QED BY <2>1
<1>10. lane[j] # <<>> => all # <<>> /\ all[1] = lane[j][1]
  <2> HIDE DEF all
  <2> SUFFICES ASSUME lane[j] # <<>> PROVE all # <<>> /\ all[1] = lane[j][1]
    OBVIOUS
  <2>1. Len(lane[j]) > 0 /\ Len(all) > 0 /\ 1 \in 1 .. Len(all) /\ 1 <= Len(lane[j])
    BY <1>4, <1>5, <1>8, <1>9, EmptySeq
  <2>2. all[1] = lane[j][1]
    BY <1>9, <2>1
  <2>3. all # <<>>
    BY <2>1, EmptySeq
  <2> QED BY <2>2, <2>3
<1>11. DOMAIN all = 1 .. Len(all) /\ Len(new) \in Nat
  <2> HIDE DEF all
  <2> QED BY <1>5, <1>8, <1>9, LenProperties
<1>12. ASSUME NEW n \in DOMAIN all \ DOMAIN lane[j]
       PROVE  all[n] \in {FinalizeOp(i) : i \in {m \in S : Key(m) = j}}
  <2>1. n - Len(lane[j]) \in DOMAIN s[j] /\ all[n] = new[n - Len(lane[j])]
    BY <1>4, <1>5, <1>8, <1>9, <1>11
  <2>2. all[n] = FinalizeOp(s[j][n - Len(lane[j])])
    BY <2>1
  <2> QED BY <1>6, <2>1, <2>2
<1>13. ASSUME NEW n \in DOMAIN lane[j]
       PROVE  n \in DOMAIN all /\ all[n] = lane[j][n]
  BY <1>4, <1>9, <1>11
<1>14. ASSUME NEW i \in S, Key(i) = j
       PROVE  \E n \in DOMAIN all : all[n] = FinalizeOp(i)
  <2>1. CASE Scheduled(i)
    BY <1>13, <1>14, <2>1 DEF Scheduled, Waiting
  <2>2. CASE ~Scheduled(i)
    <3>1. PICK n \in DOMAIN s[j] : s[j][n] = i
      BY <1>1, <1>14, <2>2 DEF Listings
    <3>2. new[n] = FinalizeOp(i) /\ n \in 1 .. Len(new)
      BY <1>5, <1>8, <3>1
    <3> HIDE DEF all, new
    <3>3. ASSUME NEW m, m = n + Len(lane[j]) PROVE m \in DOMAIN all /\ all[m] = new[n]
      <4>1. m \in 1 .. Len(all) /\ ~(m <= Len(lane[j])) /\ m - Len(lane[j]) = n
        BY <1>4, <1>9, <1>11, <3>2, <3>3
      <4>2. all[m] = new[m - Len(lane[j])]
        BY <1>9, <4>1
      <4> QED BY <1>11, <4>1, <4>2
    <3> QED BY <3>2, <3>3
  <2> QED BY <2>1, <2>2
<1> QED
  <2> HIDE DEF all
  <2> QED BY <1>4, <1>9, <1>10, <1>12, <1>13, <1>14 DEF Waiting

\* So every one of them is in its lane, and nothing else joins it.
LEMMA FinalizeAllLanes ==
    ASSUME TypeOK, NEW S \in SUBSET Id, FinalizeAll(S)
    PROVE  /\ lane' \in [Conv -> Seq(Op)]
           /\ \A j \in Conv : lane[j] # <<>> => lane'[j] # <<>> /\ Head1(j)' = Head1(j)
           /\ \A j \in Conv : Waiting(j)' \subseteq
                  Waiting(j) \cup {FinalizeOp(i) : i \in {m \in S : Key(m) = j}}
           /\ \A j \in Conv : Waiting(j) \subseteq Waiting(j)'
BY FinalizeAllShape DEF Waiting

\* The operation at the head of a lane is one of those in it.
LEMMA HeadWaits ==
    ASSUME TypeOK, NEW k \in Conv, lane[k] # <<>>
    PROVE  Head1(k) \in Waiting(k)
<1>1. lane[k] \in Seq(Op)  BY DEF TypeOK, LaneTypeOK
<1>2. 1 \in DOMAIN lane[k]  BY <1>1, EmptySeq, LenProperties
<1> QED BY <1>2 DEF Head1, Waiting

\* A step of a lane is about what is at its head, and touches no other lane.
LEMMA LaneHead ==
    ASSUME TypeOK, BusyHead, NEW k \in Conv, Lane(k)
    PROVE  /\ lane[k] # <<>>
           /\ ~StartTurns(k) => Head1(k) # TurnsOp /\ Head1(k) \in Op /\ HeadId(k) \in Id
<1> USE DEF Lane, Finalize, StartQueue, InsertIntent, InsertFails, StartUndo, UndoDone,
        UndoFails, StartTurns, StartFinalize, MarkConversation, MarkTurn, MarkTurnFails,
        VerifyFresh, VerifyStale, VerifyFails, Quarantine, DeleteConversation,
        DeleteConversationFails, CleanUpConversation, CleanUpFails, PurgeTurn, PurgeFails,
        PurgeDone, ScrubManifest, ScrubFails, DeleteTurn, DeleteTurnFails, CleanUpTurn,
        CleanUpTurnFails, MarkCleanUpPending, Withdraw, WithdrawFails, FinalizeFails
<1>1. lane[k] # <<>>
  BY DEF Running, BusyHead
<1>2. ~StartTurns(k) => Head1(k) # TurnsOp
  <2>1. pc[k] # "start" => Head1(k) # TurnsOp
    BY DEF BusyHead
  <2>2. pc[k] = "start" /\ ~StartTurns(k)
          => Head1(k).op \in {"queue", "undo", "finalize", "finalizeTurn"}
    BY DEF Running
  <2> HIDE DEF StartTurns
  <2> QED BY <2>1, <2>2, TurnsOpName
<1> HIDE DEF StartTurns
<1> QED BY <1>1, <1>2, HeadIsOp DEF HeadId

\* A step of one lane is not a step of another.
LEMMA OtherLanes ==
    ASSUME TypeOK, NEW k \in Conv, Lane(k)
    PROVE  \A j \in Conv \ {k} : lane'[j] = lane[j] /\ pc'[j] = pc[j] /\ todo'[j] = todo[j]
BY DEF TypeOK, LaneTypeOK, EndOp, GoTo, Lane, Finalize, StartQueue, InsertIntent,
   InsertFails, StartUndo, UndoDone, UndoFails, StartTurns, StartFinalize,
   MarkConversation, MarkTurn, MarkTurnFails, VerifyFresh, VerifyStale, VerifyFails,
   Quarantine, DeleteConversation, DeleteConversationFails, CleanUpConversation,
   CleanUpFails, PurgeTurn, PurgeFails, PurgeDone, ScrubManifest, ScrubFails, DeleteTurn,
   DeleteTurnFails, CleanUpTurn, CleanUpTurnFails, MarkCleanUpPending, Withdraw,
   WithdrawFails, FinalizeFails

\* A step of a lane keeps the shape of every variable.
LEMMA LaneTypes ==
    ASSUME TypeOK, BusyHead, NEW k \in Conv, Lane(k)
    PROVE  TypeOK' /\ BusyHead'
<1> USE DEF Lane, Finalize, StartQueue, InsertIntent, InsertFails, StartUndo, UndoDone,
        UndoFails, StartTurns, StartFinalize, MarkConversation, MarkTurn, MarkTurnFails,
        VerifyFresh, VerifyStale, VerifyFails, Quarantine, DeleteConversation,
        DeleteConversationFails, CleanUpConversation, CleanUpFails, PurgeTurn, PurgeFails,
        PurgeDone, ScrubManifest, ScrubFails, DeleteTurn, DeleteTurnFails, CleanUpTurn,
        CleanUpTurnFails, MarkCleanUpPending, Withdraw, WithdrawFails, FinalizeFails
<1>1. lane[k] # <<>>
  BY LaneHead
<1>2. ~StartTurns(k) => Head1(k) # TurnsOp
  BY LaneHead
<1>3. ~StartTurns(k) => Head1(k) \in Op /\ HeadId(k) \in Id
  BY LaneHead
<1>4. DurableTypeOK'
  BY <1>3, ZenonT(60) DEF TypeOK, DurableTypeOK, MemoryTypeOK, durable, TryUpdate, Updated, IntentState,
     DeletionState, HeadId
<1>5. MemoryTypeOK'
  BY <1>3 DEF TypeOK, MemoryTypeOK, memory, RemoveEntry, Arm, IntentState, DeletionState,
     HeadId
<1>6. todo' \in [Conv -> SUBSET Id]
  BY DEF TypeOK, LaneTypeOK, TurnEntries, Used
<1>7. ProcessTypeOK'
  BY <1>3 DEF TypeOK, ProcessTypeOK, process, HeadId
<1>8. FenceTypeOK'
  BY FenceTypes DEF TypeOK, FenceTypeOK, fence, AbandonQueue
<1>9. lane' \in [Conv -> Seq(Op)] /\ pc' \in [Conv -> OpPhase] /\ BusyHead'
  <2>1. CASE StartTurns(k)
    BY <2>1, StartTurnsLanes DEF BusyHead, Head1
  <2>2. CASE PurgeTurn(k)
    BY <2>2 DEF BusyHead, Head1, TypeOK, LaneTypeOK
  <2>3. CASE ~StartTurns(k) /\ ~PurgeTurn(k)
    BY <1>1, <1>2, <2>3, EndOpBusy, GoToBusy DEF OpPhase
  <2> QED BY <2>1, <2>2, <2>3
<1> QED BY <1>4, <1>5, <1>6, <1>7, <1>8, <1>9 DEF TypeOK, LaneTypeOK

\* Appending to a lane, existing or not, keeps the shape of the lanes.
LEMMA EnqueueAnywhere ==
    ASSUME TypeOK, BusyHead, NEW k, NEW o \in Op, Enqueue(k, o), UNCHANGED pc
    PROVE  lane' \in [Conv -> Seq(Op)] /\ pc' \in [Conv -> OpPhase] /\ BusyHead'
<1>1. CASE k \in Conv
  BY <1>1, EnqueueBusy
<1>2. CASE k \notin Conv
  <2>1. lane' = lane
    BY <1>2 DEF Enqueue, TypeOK, LaneTypeOK
  <2> QED BY <2>1 DEF BusyHead, Head1, TypeOK, LaneTypeOK
<1> QED BY <1>1, <1>2

\* Leaving the lanes alone keeps their shape.
LEMMA StillBusy ==
    ASSUME TypeOK, BusyHead, UNCHANGED <<lane, pc, todo>>
    PROVE  LaneTypeOK' /\ BusyHead'
BY DEF TypeOK, LaneTypeOK, BusyHead, Head1

\* A request for a deletion keeps the shape of all but the fence.
LEMMA RequestTypes ==
    ASSUME TypeOK, BusyHead, NEW x \in Target, RequestDeletion(x), FenceTypeOK'
    PROVE  TypeOK' /\ BusyHead'
<1>1. nextId + 1 \in Id /\ nextId + 1 \in 0 .. MaxId
  BY BoundAssumption DEF RequestDeletion, TypeOK, DurableTypeOK, Id
<1>2. QueueOp(nextId + 1) \in Op
  BY <1>1 DEF QueueOp, Op
<1>3. lane' \in [Conv -> Seq(Op)] /\ pc' \in [Conv -> OpPhase] /\ BusyHead'
  BY <1>2, EnqueueAnywhere DEF RequestDeletion
<1>4. DurableTypeOK' /\ MemoryTypeOK' /\ todo' \in [Conv -> SUBSET Id] /\ ProcessTypeOK'
  BY <1>1 DEF RequestDeletion, TypeOK, DurableTypeOK, MemoryTypeOK, LaneTypeOK,
     ProcessTypeOK, memory, process
<1> QED BY <1>3, <1>4 DEF TypeOK, LaneTypeOK

\* Whatever can be deleted belongs to a conversation.
LEMMA KeyOfTarget ==
    \A x \in Target : KeyOf(x) \in Conv
BY ConvOfAssumption DEF Target, KeyOf

\* A requested intent deletes something of a conversation.
LEMMA KeyOfUsed ==
    ASSUME TypeOK, NEW i \in Used
    PROVE  target[i] \in Target /\ Key(i) \in Conv
BY KeyOfTarget DEF Used, Key, TypeOK, DurableTypeOK

\* A request to delete a conversation keeps the shape of every variable.
LEMMA ConversationRequestTypes ==
    ASSUME TypeOK, BusyHead, NEW k \in Conv, RequestConversationDeletion(k)
    PROVE  TypeOK' /\ BusyHead'
<1>1. k \in Target /\ KeyOf(k) \in Conv
  BY KeyOfTarget DEF Target
<1>2. FenceTypeOK'
  <2>1. frozen' = frozen \cup {KeyOf(k)} /\ \E b \in BOOLEAN : writer' = Cross(k, b)
    BY DEF RequestConversationDeletion, RequestDeletion
  <2> QED BY <1>1, <2>1, FenceTypes DEF FenceTypeOK, TypeOK
<1> QED BY <1>1, <1>2, RequestTypes DEF RequestConversationDeletion

\* So does a request to delete a turn.
LEMMA TurnRequestTypes ==
    ASSUME TypeOK, BusyHead, NEW x \in Turn, RequestTurnDeletion(x)
    PROVE  TypeOK' /\ BusyHead'
<1>1. x \in Target /\ KeyOf(x) \in Conv
  BY KeyOfTarget DEF Target
<1>2. FenceTypeOK'
  <2>1. frozen' = frozen \cup {KeyOf(x)} /\ writer' = Cross(ConvOf[x], TRUE)
    BY DEF RequestTurnDeletion, RequestDeletion
  <2> QED BY <1>1, <2>1, FenceTypes DEF FenceTypeOK, TypeOK
<1> QED BY <1>1, <1>2, RequestTypes DEF RequestTurnDeletion

\* So do Undo, a fork, the end of an Undo window and a timer.
LEMMA ButtonTypes ==
    ASSUME TypeOK, BusyHead, NEW i \in Id,
           RequestUndo(i) \/ RequestFork(i) \/ UndoWindowEnds(i) \/ TimerFires(i)
    PROVE  TypeOK' /\ BusyHead'
<1>1. UndoOp(i) \in Op /\ FinalizeOp(i) \in Op
  BY DEF UndoOp, FinalizeOp, Op
<1>2. /\ DurableTypeOK' /\ MemoryTypeOK' /\ ProcessTypeOK' /\ FenceTypeOK'
      /\ todo' \in [Conv -> SUBSET Id]
  BY DEF RequestUndo, RequestFork, UndoWindowEnds, TimerFires, Arm, TypeOK, DurableTypeOK,
     MemoryTypeOK, LaneTypeOK, ProcessTypeOK, FenceTypeOK, durable, memory, lanes,
     process, fence
<1>3. lane' \in [Conv -> Seq(Op)] /\ pc' \in [Conv -> OpPhase] /\ BusyHead'
  BY <1>1, EnqueueAnywhere, StillBusy
     DEF RequestUndo, RequestFork, UndoWindowEnds, TimerFires, lanes, LaneTypeOK
<1> QED BY <1>2, <1>3 DEF TypeOK, LaneTypeOK

\* So does every step of a send.
LEMMA SendTypes ==
    ASSUME TypeOK, BusyHead, NEW w \in Writer, Send(w)
    PROVE  TypeOK' /\ BusyHead'
<1> USE DEF Send, BeginSend, PassPendingCheck, SendCaptures, ValidateScope, SendEnters,
        SendLeaves
<1>1. DurableTypeOK' /\ MemoryTypeOK' /\ todo' \in [Conv -> SUBSET Id] /\ ProcessTypeOK'
  BY DEF TypeOK, DurableTypeOK, MemoryTypeOK, LaneTypeOK, ProcessTypeOK, durable, memory,
     lanes, process
<1>2. FenceTypeOK'
  <2> USE DEF TypeOK, FenceTypeOK, WriterRecord, WriterPhase
  <2>1. CASE \E k \in Conv : BeginSend(w, k)
    BY <2>1
  <2>2. CASE Finish(w) /\ UNCHANGED frozen
    BY <2>2 DEF Finish, AtRest
  <2>3. CASE \E phase \in WriterPhase : MoveTo(w, phase) /\ UNCHANGED frozen
    BY <2>3 DEF MoveTo
  <2>4. CASE SendCaptures(w)
    BY <2>4 DEF CaptureGeneration
  <2> QED BY <2>1, <2>2, <2>3, <2>4 DEF EnterWrite, LeaveWrite
<1>3. lane' \in [Conv -> Seq(Op)] /\ pc' \in [Conv -> OpPhase] /\ BusyHead'
  <2>1. CASE UNCHANGED lanes
    BY <2>1, StillBusy DEF lanes, LaneTypeOK
  <2>2. CASE \E k \in Conv : BeginSend(w, k)
    <3>1. TurnsOp \in Op
      BY DEF Op
    <3> QED BY <2>2, <3>1, EnqueueAnywhere, StillBusy DEF LaneTypeOK
  <2> QED BY <2>1, <2>2
<1> QED BY <1>1, <1>2, <1>3 DEF TypeOK, LaneTypeOK

\* The states the loader starts and ends in are states of the loader.
LEMMA LoaderShapes ==
    /\ NoRows \in [Id -> IntentState]
    /\ IdleLoader \in LoaderRecord /\ BootLoader \in LoaderRecord
    /\ \A b \in BOOLEAN : LoaderAt("select", b, {}) \in LoaderRecord
    /\ \A D \in SUBSET Id : LoaderAt("sweeping", FALSE, D) \in LoaderRecord
<1>1. NoRows \in [Id -> IntentState]
  BY DEF NoRows, IntentState
<1> QED BY <1>1 DEF IdleLoader, BootLoader, LoaderAt, LoaderRecord

\* Finalizing a set of intents keeps the shape of the lanes.
LEMMA FinalizeAllTypes ==
    ASSUME TypeOK, BusyHead, NEW S \in SUBSET Id, FinalizeAll(S), UNCHANGED <<pc, todo>>
    PROVE  LaneTypeOK' /\ BusyHead'
BY FinalizeAllLanes DEF BusyHead, TypeOK, LaneTypeOK

\* A sweep keeps the shape of every variable.
LEMMA SweepTypes ==
    ASSUME TypeOK, BusyHead, SweepExpired
    PROVE  TypeOK' /\ BusyHead'
<1>1. LaneTypeOK' /\ BusyHead'
  BY FinalizeAllTypes DEF SweepExpired, Used
<1> QED BY <1>1 DEF SweepExpired, TypeOK, DurableTypeOK, MemoryTypeOK, ProcessTypeOK,
       FenceTypeOK, durable, memory, process, fence

\* So does every step of the loader.
LEMMA LoadTypes ==
    ASSUME TypeOK, BusyHead, OnlyUsed, Load
    PROVE  TypeOK' /\ BusyHead'
<1> USE DEF Load, EnsureFenceLoaded, StartupSweep, SelectIntents, MarkUnreadable,
        SelectFails, SweepDue
<1>1. LaneTypeOK' /\ BusyHead'
  <2>1. CASE UNCHANGED <<lane, pc, todo>>
    BY <2>1, StillBusy
  <2>2. CASE SweepDue
    BY <2>2, FinalizeAllTypes DEF TypeOK, ProcessTypeOK, LoaderRecord
  <2> QED BY <2>1, <2>2 DEF lanes
<1>2. DurableTypeOK'
  BY DEF TypeOK, DurableTypeOK, durable
<1>3. MemoryTypeOK'
  BY DEF TypeOK, DurableTypeOK, MemoryTypeOK, ProcessTypeOK, LoaderRecord, memory, LoadRows
<1>4. ProcessTypeOK'
  <2>1. \A S, snapshot : Due(S, snapshot) \subseteq S
    BY DEF Due
  <2>2. CASE SelectIntents
    <3>1. PICK S \in SUBSET Id :
            IF UnreadableRow
            THEN /\ loader' =
                       [phase |-> "unreadable", sweep |-> loader.sweep,
                        snapshot |-> [i \in Id |-> IF i \in S THEN "none" ELSE row[i]],
                        due |-> Due(S, row)]
                 /\ UNCHANGED <<ui, fenceLoaded>>
            ELSE LoadEnds(Due(S, row)) /\ ui' = TRUE
      BY <2>2
    <3>2. [i \in Id |-> IF i \in S THEN "none" ELSE row[i]] \in [Id -> IntentState]
      BY DEF TypeOK, DurableTypeOK, IntentState
    <3>3. loader' \in LoaderRecord /\ ui' \in BOOLEAN /\ fenceLoaded' \in BOOLEAN
      <4>1. CASE UnreadableRow
        BY <2>1, <3>1, <3>2, <4>1 DEF TypeOK, ProcessTypeOK, LoaderRecord
      <4>2. CASE ~UnreadableRow
        BY <2>1, <3>1, <4>2, LoaderShapes DEF TypeOK, ProcessTypeOK, LoadEnds
      <4> QED BY <4>1, <4>2
    <3> QED BY <2>2, <3>3 DEF TypeOK, ProcessTypeOK
  <2>3. CASE MarkUnreadable
    <3>1. PICK D \in SUBSET Id : LoadEnds(D) /\ ui' = TRUE
      BY <2>1, <2>3 DEF TypeOK, ProcessTypeOK, LoaderRecord
    <3> QED BY <2>3, <3>1, LoaderShapes DEF LoadEnds, TypeOK, ProcessTypeOK
  <2>4. CASE ~SelectIntents /\ ~MarkUnreadable
    BY <2>4, LoaderShapes DEF TypeOK, ProcessTypeOK, StartLoad
  <2> QED BY <2>2, <2>3, <2>4
<1>5. FenceTypeOK'
  <2>1. CASE UNCHANGED fence
    BY <2>1 DEF TypeOK, FenceTypeOK, fence
  <2>2. CASE SelectIntents \/ MarkUnreadable
    <3>1. PICK S \in SUBSET Used : \E snapshot : LoadRows(S, snapshot)
      BY <2>2 DEF OnlyUsed, Used
    <3>2. \A i \in S : Key(i) \in Conv
      BY <3>1, KeyOfUsed
    <3> QED BY <3>1, <3>2, FenceTypes DEF LoadRows, TypeOK, FenceTypeOK
  <2> QED BY <2>1, <2>2
<1> QED BY <1>1, <1>2, <1>3, <1>4, <1>5 DEF TypeOK

\* So does a crash.
LEMMA CrashTypes ==
    ASSUME TypeOK, BusyHead, Crash
    PROVE  TypeOK' /\ BusyHead'
<1>1. LaneTypeOK' /\ BusyHead'
  BY EmptySeq DEF Crash, LaneTypeOK, BusyHead, NoLanes, AtStart, NoTodo, OpPhase
<1>2. DurableTypeOK' /\ MemoryTypeOK'
  BY DEF Crash, TypeOK, DurableTypeOK, MemoryTypeOK, durable, NoRows, NoTimers, IntentState
<1>3. ProcessTypeOK'
  <2>1. crashes' \in 0 .. MaxCrash
    BY BoundAssumption DEF Crash, TypeOK, ProcessTypeOK
  <2> QED BY <2>1, LoaderShapes DEF Crash, TypeOK, ProcessTypeOK
<1>4. FenceTypeOK'
  BY DEF Crash, TypeOK, FenceTypeOK, WriterRecord, WriterPhase, AtRest
<1> QED BY <1>1, <1>2, <1>3, <1>4 DEF TypeOK

\* Every variable starts with its shape.
LEMMA InitTypes == Init => TypeOK /\ BusyHead
<1> SUFFICES ASSUME Init PROVE TypeOK /\ BusyHead
  OBVIOUS
<1>1. LaneTypeOK /\ BusyHead
  BY EmptySeq DEF Init, LaneTypeOK, BusyHead, NoLanes, AtStart, NoTodo, OpPhase
<1>2. DurableTypeOK /\ MemoryTypeOK
  BY BoundAssumption DEF Init, DurableTypeOK, MemoryTypeOK, NoRows, NoTimers, IntentState
<1>3. ProcessTypeOK
  <2>1. crashes \in 0 .. MaxCrash
    BY BoundAssumption DEF Init
  <2> QED BY <2>1, LoaderShapes DEF Init, ProcessTypeOK
<1>4. FenceTypeOK
  BY DEF Init, FenceTypeOK, WriterRecord, WriterPhase
<1> QED BY <1>1, <1>2, <1>3, <1>4 DEF TypeOK

-------------------------------------------------------------------------------
\* A step of a lane leaves every operation in the lane of its conversation.
LEMMA LaneKeys ==
    ASSUME TypeOK, LaneInv, NEW k \in Conv, Lane(k)
    PROVE  LaneInv'
<1> USE DEF Lane, Finalize, StartQueue, InsertIntent, InsertFails, StartUndo, UndoDone,
        UndoFails, StartFinalize, MarkConversation, MarkTurn, MarkTurnFails,
        VerifyFresh, VerifyStale, VerifyFails, Quarantine, DeleteConversation,
        DeleteConversationFails, CleanUpConversation, CleanUpFails, PurgeTurn, PurgeFails,
        PurgeDone, ScrubManifest, ScrubFails, DeleteTurn, DeleteTurnFails, CleanUpTurn,
        CleanUpTurnFails, MarkCleanUpPending, Withdraw, WithdrawFails, FinalizeFails
<1>1. BusyHead'
  BY LaneTypes DEF LaneInv
<1>2. target' = target /\ nextId' = nextId /\ loader' = loader
  BY DEF durable, process, StartTurns
<1>3. Used' = Used /\ (\A i : Key(i)' = Key(i)) /\ (\A i : IsTurn(i)' = IsTurn(i))
  BY <1>2 DEF Used, Key, IsTurn
<1>4. IdsInOrder'
  BY <1>2, <1>3 DEF LaneInv, IdsInOrder
<1>5. ~StartTurns(k) => HeadId(k) \in Used
  <2>1. lane[k] # <<>> /\ (~StartTurns(k) => Head1(k) # TurnsOp)
    BY LaneHead DEF LaneInv
  <2>2. Head1(k) \in Waiting(k)
    BY <2>1, HeadWaits
  <2> QED BY <2>1, <2>2 DEF LaneInv, LaneOfKey, HeadId
<1>6. OnlyUsed'
  BY <1>2, <1>3, <1>5, ZenonT(60) DEF StartTurns, LaneInv, OnlyUsed, HeadId, durable, memory,
     RemoveEntry, TryUpdate, Updated, TypeOK, DurableTypeOK, MemoryTypeOK
<1>7. TodoOfKey'
  BY <1>3 DEF StartTurns, LaneInv, TodoOfKey, TurnEntries, TypeOK, LaneTypeOK
<1>8. LaneOfKey'
  <2>1. \A j \in Conv \ {k} : Waiting(j)' = Waiting(j)
    BY OtherLanes, ZenonT(60) DEF Waiting
  <2>2. CASE StartTurns(k)
    BY <1>3, <2>1, <2>2, StartTurnsLanes DEF LaneInv, LaneOfKey, TurnEntries, FinalizeTurn
  <2>3. CASE ~StartTurns(k)
    <3>1. Waiting(k)' \subseteq Waiting(k)
      BY <2>3, LaneHead, EndOpLanes DEF GoTo, Waiting, LaneInv
    <3> QED BY <1>3, <2>1, <3>1 DEF LaneInv, LaneOfKey
  <2> QED BY <2>2, <2>3
<1> QED BY <1>1, <1>4, <1>6, <1>7, <1>8 DEF LaneInv

\* A requested deletion joins the lane of its own conversation.
LEMMA RequestKeys ==
    ASSUME TypeOK, LaneInv, BusyHead', NEW x \in Target, RequestDeletion(x)
    PROVE  LaneInv'
<1>1. nextId + 1 \in Id /\ nextId \in Nat
  BY BoundAssumption DEF RequestDeletion, TypeOK, DurableTypeOK, Id
<1>2. /\ target' = [target EXCEPT ![nextId + 1] = x] /\ nextId' = nextId + 1
      /\ x # NoTarget /\ KeyOf(x) \in Conv
  BY TargetAssumption, KeyOfTarget DEF RequestDeletion, Target
<1>3. /\ Used' = Used \cup {nextId + 1} /\ nextId + 1 \notin Used
      /\ target'[nextId + 1] = x /\ \A i \in Used : target'[i] = target[i]
  BY <1>1, <1>2 DEF Used, LaneInv, IdsInOrder, TypeOK, DurableTypeOK
<1>4. IdsInOrder'
  BY <1>1, <1>2, <1>3 DEF LaneInv, IdsInOrder, Used, Id
<1>5. OnlyUsed'
  BY <1>3 DEF RequestDeletion, LaneInv, OnlyUsed, memory, process
<1>6. TodoOfKey'
  BY <1>3 DEF RequestDeletion, LaneInv, TodoOfKey, IsTurn, Key
<1>7. LaneOfKey'
  <2>1. QueueOp(nextId + 1) \in Op /\ QueueOp(nextId + 1).id = nextId + 1
    BY <1>1 DEF QueueOp, Op
  <2>2. /\ Waiting(KeyOf(x))' = Waiting(KeyOf(x)) \cup {QueueOp(nextId + 1)}
        /\ \A j \in Conv \ {KeyOf(x)} : Waiting(j)' = Waiting(j)
    BY <1>2, <2>1, EnqueueLanes DEF RequestDeletion
  <2>3. \A i \in Used : Key(i)' = Key(i)
    BY <1>3 DEF Key
  <2>4. \A i \in Used' \ Used : Key(i)' = KeyOf(x)
    BY <1>3 DEF Key
  <2>5. ASSUME NEW k \in Conv, NEW o \in Waiting(k)', o # TurnsOp
        PROVE  o.id \in Used' /\ Key(o.id)' = k
    <3>1. CASE o \in Waiting(k)
      BY <1>3, <2>3, <2>5, <3>1 DEF LaneInv, LaneOfKey
    <3>2. CASE o \notin Waiting(k)
      <4>1. o.id = nextId + 1 /\ k = KeyOf(x)
        BY <2>1, <2>2, <2>5, <3>2
      <4> QED BY <1>3, <2>4, <4>1
    <3> QED BY <3>1, <3>2
  <2> QED BY <2>5 DEF LaneOfKey
<1> QED BY <1>4, <1>5, <1>6, <1>7 DEF LaneInv

\* What an intent is about depends on its target only.
LEMMA SameTargets ==
    ASSUME UNCHANGED <<target, nextId>>
    PROVE  /\ Used' = Used
           /\ \A i : Key(i)' = Key(i) /\ IsTurn(i)' = IsTurn(i) /\ IsConv(i)' = IsConv(i)
BY DEF Used, Key, IsTurn, IsConv

\* A step that appends operations on requested intents to their own lanes.
LEMMA AppendKeys ==
    ASSUME TypeOK, LaneInv, BusyHead', UNCHANGED <<target, nextId, todo>>, OnlyUsed',
           \A k \in Conv : \A o \in Waiting(k)' \ Waiting(k) :
                o # TurnsOp => o.id \in Used /\ Key(o.id) = k
    PROVE  LaneInv'
<1>1. IdsInOrder' /\ TodoOfKey' /\ LaneOfKey'
  BY SameTargets DEF LaneInv, IdsInOrder, TodoOfKey, LaneOfKey
<1> QED BY <1>1 DEF LaneInv

\* Undo, fork and timers append to the lane of their own intent.
LEMMA ButtonKeys ==
    ASSUME TypeOK, LaneInv, BusyHead', NEW i \in Id,
           RequestUndo(i) \/ RequestFork(i) \/ UndoWindowEnds(i) \/ TimerFires(i)
    PROVE  LaneInv'
<1> USE DEF RequestUndo, RequestFork, UndoWindowEnds, TimerFires
<1>1. UNCHANGED <<target, nextId, todo, row, entry, loader>>
  BY DEF durable, memory, lanes, process
<1>2. OnlyUsed'
  BY <1>1, SameTargets DEF LaneInv, OnlyUsed
<1>3. UndoOp(i) \in Op /\ FinalizeOp(i) \in Op /\ UndoOp(i).id = i /\ FinalizeOp(i).id = i
  BY DEF UndoOp, FinalizeOp, Op
<1>4. ASSUME NEW o \in {UndoOp(i), FinalizeOp(i)}, Enqueue(Key(i), o), entry[i] # "none"
      PROVE  \A k \in Conv : \A p \in Waiting(k)' \ Waiting(k) :
                p # TurnsOp => p.id \in Used /\ Key(p.id) = k
  <2> HIDE DEF RequestUndo, RequestFork, UndoWindowEnds, TimerFires
  <2>1. i \in Used /\ Key(i) \in Conv
    BY <1>4, KeyOfUsed DEF LaneInv, OnlyUsed
  <2>2. o \in Op /\ o.id = i
    BY <1>3
  <2>3. PICK key \in Conv : key = Key(i)
    BY <2>1
  <2>4. /\ Waiting(key)' = Waiting(key) \cup {o}
        /\ \A j \in Conv \ {key} : Waiting(j)' = Waiting(j)
    BY <1>4, <2>2, <2>3, EnqueueLanes
  <2> QED BY <2>1, <2>4, <2>2, <2>3
<1>5. CASE UNCHANGED lane
  BY <1>1, <1>2, <1>5, AppendKeys DEF Waiting
<1>6. CASE \E o \in {UndoOp(i), FinalizeOp(i)} : Enqueue(Key(i), o) /\ entry[i] # "none"
  BY <1>1, <1>2, <1>4, <1>6, AppendKeys
<1> QED BY <1>5, <1>6 DEF lanes

\* A send appends nothing that carries an id.
LEMMA SendKeys ==
    ASSUME TypeOK, LaneInv, BusyHead', NEW w \in Writer, Send(w)
    PROVE  LaneInv'
<1> USE DEF Send, BeginSend, PassPendingCheck, SendCaptures, ValidateScope, SendEnters,
        SendLeaves
<1>1. UNCHANGED <<target, nextId, todo, row, entry, loader>>
  BY DEF durable, memory, lanes, process
<1>2. OnlyUsed'
  BY <1>1, SameTargets DEF LaneInv, OnlyUsed
<1>3. CASE UNCHANGED lane
  BY <1>1, <1>2, <1>3, AppendKeys DEF Waiting
<1>4. CASE \E k \in Conv : Enqueue(k, TurnsOp)
  <2>1. PICK k \in Conv : Enqueue(k, TurnsOp)
    BY <1>4
  <2>2. TurnsOp \in Op
    BY DEF Op
  <2>3. \A j \in Conv : Waiting(j)' \subseteq Waiting(j) \cup {TurnsOp}
    BY <2>1, <2>2, EnqueueLanes
  <2> QED BY <1>1, <1>2, <2>3, AppendKeys
<1> QED BY <1>3, <1>4 DEF lanes

\* Finalizing a set of intents appends to their own lanes.
LEMMA FinalizeAllKeys ==
    ASSUME TypeOK, NEW S \in SUBSET Used, FinalizeAll(S)
    PROVE  \A k \in Conv : \A o \in Waiting(k)' \ Waiting(k) :
              o # TurnsOp => o.id \in Used /\ Key(o.id) = k
<1>1. \A k \in Conv : Waiting(k)' \subseteq
          Waiting(k) \cup {FinalizeOp(i) : i \in {m \in S : Key(m) = k}}
  BY FinalizeAllLanes DEF Used
<1> QED BY <1>1 DEF FinalizeOp

\* So a sweep leaves every operation in its own lane.
LEMMA SweepKeys ==
    ASSUME TypeOK, LaneInv, BusyHead', SweepExpired
    PROVE  LaneInv'
<1>1. UNCHANGED <<target, nextId, todo, row, entry, loader>>
  BY DEF SweepExpired, durable, memory, process
<1>2. OnlyUsed'
  BY <1>1, SameTargets DEF LaneInv, OnlyUsed
<1>3. PICK S \in SUBSET Used : FinalizeAll(S)
  BY DEF SweepExpired
<1> QED BY <1>1, <1>2, <1>3, FinalizeAllKeys, AppendKeys

\* So does the loader, which loads only what was requested.
LEMMA LoadKeys ==
    ASSUME TypeOK, LaneInv, BusyHead', Load
    PROVE  LaneInv'
<1> USE DEF Load, EnsureFenceLoaded, StartupSweep, SelectIntents, MarkUnreadable,
        SelectFails, SweepDue
<1>1. UNCHANGED <<target, nextId, todo, row>>
  BY DEF durable, lanes
<1>2. OnlyUsed'
  <2>1. \A i \in Id \ Used : entry'[i] = "none"
    BY ZenonT(60) DEF LaneInv, OnlyUsed, LoadRows, memory, TypeOK, MemoryTypeOK
  <2>2. \A i \in Id \ Used : loader'.snapshot[i] = "none"
    BY DEF LaneInv, OnlyUsed, LoadEnds, StartLoad, IdleLoader, LoaderAt, NoRows
  <2> QED BY <1>1, <2>1, <2>2, SameTargets DEF LaneInv, OnlyUsed
<1>3. CASE UNCHANGED lane
  BY <1>1, <1>2, <1>3, AppendKeys DEF Waiting
<1>4. CASE SweepDue
  <2>1. PICK S \in SUBSET Used : FinalizeAll(S)
    BY <1>4 DEF LaneInv, OnlyUsed, TypeOK, ProcessTypeOK, LoaderRecord
  <2> QED BY <1>1, <1>2, <2>1, FinalizeAllKeys, AppendKeys
<1> QED BY <1>3, <1>4 DEF lanes

\* After a crash no lane has an operation.
LEMMA CrashKeys ==
    ASSUME TypeOK, LaneInv, Crash
    PROVE  LaneInv'
<1>1. BusyHead'
  BY DEF Crash, BusyHead, AtStart
<1>2. UNCHANGED <<target, nextId, row>>
  BY DEF Crash, durable
<1>3. IdsInOrder' /\ TodoOfKey' /\ OnlyUsed'
  BY <1>2, SameTargets DEF Crash, LaneInv, IdsInOrder, TodoOfKey, OnlyUsed, NoTodo, NoRows,
     BootLoader, LoaderAt
<1>4. LaneOfKey'
  <2>1. \A k \in Conv : DOMAIN lane'[k] = {}
    BY EmptySeq, LenProperties DEF Crash, NoLanes
  <2> QED BY <2>1 DEF LaneOfKey, Waiting
<1> QED BY <1>1, <1>3, <1>4 DEF LaneInv

\* At the start no lane has an operation and nothing was requested.
LEMMA InitKeys == Init => LaneInv
<1> SUFFICES ASSUME Init PROVE LaneInv
  OBVIOUS
<1>1. BusyHead /\ IdsInOrder /\ TodoOfKey /\ OnlyUsed
  BY DEF Init, BusyHead, AtStart, IdsInOrder, Used, TodoOfKey, NoTodo, OnlyUsed, NoRows,
     BootLoader, LoaderAt
<1>2. LaneOfKey
  <2>1. \A k \in Conv : DOMAIN lane[k] = {}
    <3>1. DOMAIN <<>> = {}
      OBVIOUS
    <3> QED BY <3>1 DEF Init, NoLanes
  <2> QED BY <2>1 DEF LaneOfKey, Waiting
<1> QED BY <1>1, <1>2 DEF LaneInv

\* Every variable keeps the shape the code gives it, a lane in the middle of an
\* operation has that operation at its head, and an operation never leaves the
\* lane of its conversation.
THEOREM TypeCorrect == Spec => [](TypeOK /\ LaneInv)
<1>1. TypeOK /\ LaneInv /\ [Next]_vars => TypeOK' /\ LaneInv'
  <2> SUFFICES ASSUME TypeOK, LaneInv, [Next]_vars PROVE TypeOK' /\ LaneInv'
    OBVIOUS
  <2>1. BusyHead /\ OnlyUsed
    BY DEF LaneInv
  <2>2. CASE UNCHANGED vars
    <3>1. TypeOK' /\ BusyHead'
      BY <2>1, <2>2, StillBusy DEF vars, TypeOK, DurableTypeOK, MemoryTypeOK, ProcessTypeOK,
         FenceTypeOK, durable, memory, lanes, process, fence
    <3>2. OnlyUsed' /\ UNCHANGED <<target, nextId, todo, lane>>
      BY <2>1, <2>2 DEF vars, OnlyUsed, Used, durable, memory, lanes, process
    <3> QED BY <3>1, <3>2, AppendKeys DEF Waiting
  <2>3. CASE \E k \in Conv : RequestConversationDeletion(k)
    BY <2>1, <2>3, ConversationRequestTypes, RequestKeys DEF RequestConversationDeletion,
       Target
  <2>4. CASE \E x \in Turn : RequestTurnDeletion(x)
    BY <2>1, <2>4, TurnRequestTypes, RequestKeys DEF RequestTurnDeletion, Target
  <2>5. CASE \E k \in Conv : Lane(k)
    BY <2>1, <2>5, LaneTypes, LaneKeys
  <2>6. CASE \E i \in Id : RequestUndo(i) \/ RequestFork(i) \/ UndoWindowEnds(i) \/ TimerFires(i)
    BY <2>1, <2>6, ButtonTypes, ButtonKeys
  <2>7. CASE \E w \in Writer : Send(w)
    BY <2>1, <2>7, SendTypes, SendKeys
  <2>8. CASE SweepExpired
    BY <2>1, <2>8, SweepTypes, SweepKeys
  <2>9. CASE Load
    BY <2>1, <2>9, LoadTypes, LoadKeys
  <2>10. CASE Crash
    BY <2>1, <2>10, CrashTypes, CrashKeys
  <2> QED BY <2>2, <2>3, <2>4, <2>5, <2>6, <2>7, <2>8, <2>9, <2>10 DEF Next, Quiet
<1> QED BY <1>1, InitTypes, InitKeys, PTL DEF Spec
===============================================================================
