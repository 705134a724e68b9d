-------------------------- MODULE PendingQueueProofs --------------------------
(***************************************************************************)
(* Theorems about the pending queue, for every set of pools and messages,  *)
(* every capacity and every limit on attempts.                             *)
(***************************************************************************)
EXTENDS PendingQueueLoop, SequenceTheorems, FiniteSetTheorems, TLAPS

\* A prefix stays a prefix when a message is appended.
LEMMA AppendKeepsPrefix ==
  ASSUME NEW S, NEW s \in Seq(S), NEW m \in S, NEW n \in 0 .. Len(s)
  PROVE  /\ Append(s, m) \in Seq(S) /\ Len(Append(s, m)) = Len(s) + 1
         /\ SubSeq(Append(s, m), 1, n) = SubSeq(s, 1, n)
OBVIOUS

\* Cutting off a prefix leaves a sequence.
LEMMA CutTyped ==
  ASSUME NEW S, NEW s \in Seq(S), NEW n \in Nat
  PROVE  SubSeq(s, n + 1, Len(s)) \in Seq(S)
OBVIOUS

\* The whole of a sequence is a prefix of it.
LEMMA WholeIsPrefix ==
  ASSUME NEW S, NEW s \in Seq(S)
  PROVE  SubSeq(s, 1, Len(s)) = s /\ Len(s) \in Nat /\ (s # <<>> => Len(s) > 0)
OBVIOUS

QueueInv == TypeOK /\ HandedIsPrefix /\ AttemptsMatch

LEMMA QueueInvInductive == QueueInv /\ [Next]_vars => QueueInv'
<1> SUFFICES ASSUME QueueInv, [Next]_vars PROVE QueueInv'
  OBVIOUS
<1> USE QueueAssumption DEF QueueInv, TypeOK, QueueTypeOK, Handling
<1>1. ASSUME NEW p \in Pool, NEW m \in Msg, Enqueue(p, m) PROVE QueueInv'
  <2>1. groups' = [groups EXCEPT ![p] = Append(groups[p], m)]
    BY <1>1 DEF Enqueue
  <2>2. TypeOK'
    BY <1>1, AppendKeepsPrefix DEF Enqueue
  <2>3. HandedIsPrefix'
    <3> SUFFICES ASSUME Handling
                 PROVE  /\ handed.msgs # <<>>
                        /\ Len(handed.msgs) <= Len(groups'[handed.pool])
                        /\ SubSeq(groups'[handed.pool], 1, Len(handed.msgs)) = handed.msgs
      BY <1>1 DEF Enqueue, HandedIsPrefix
    <3> DEFINE q == handed.pool
               n == Len(handed.msgs)
    <3>1. /\ q \in Pool /\ handed.msgs # <<>> /\ n \in 0 .. Len(groups[q])
          /\ SubSeq(groups[q], 1, n) = handed.msgs
      BY DEF HandedIsPrefix
    <3>2. CASE q = p
      <4>1. groups'[q] = Append(groups[q], m)
        BY <2>1, <3>1, <3>2
      <4>2. groups[q] \in Seq(Msg)
        BY <3>1
      <4> HIDE DEF q, n
      <4>3. Len(groups'[q]) = Len(groups[q]) + 1 /\ SubSeq(groups'[q], 1, n) = SubSeq(groups[q], 1, n)
        BY <3>1, <4>1, <4>2, AppendKeepsPrefix
      <4> QED
        BY <3>1, <4>2, <4>3 DEF q, n
    <3>3. CASE q # p
      BY <2>1, <3>1, <3>3
    <3> QED
      BY <3>2, <3>3
  <2>4. AttemptsMatch'
    <3>1. Append(groups[p], m) # <<>>
      BY AppendProperties
    <3> QED
      BY <1>1, <3>1 DEF Enqueue, AttemptsMatch
  <2> QED
    BY <2>2, <2>3, <2>4
<1>2. CASE Poll
  BY <1>2 DEF Poll, HandedIsPrefix, AttemptsMatch
<1>3. ASSUME NEW p \in Pool, Hand(p) PROVE QueueInv'
  <2>1. CASE groups[p] = <<>>
    BY <1>3, <2>1 DEF Hand, Nothing, HandedIsPrefix, AttemptsMatch
  <2>2. CASE groups[p] # <<>>
    <3>1. handed' = [pool |-> p, msgs |-> groups[p]]
      BY <1>3, <2>2 DEF Hand
    <3>2. groups[p] \in Seq(Msg)
      OBVIOUS
    <3>3. Len(groups[p]) <= Len(groups[p]) /\ SubSeq(groups[p], 1, Len(groups[p])) = groups[p]
      BY <3>2, WholeIsPrefix
    <3> QED
      BY <1>3, <2>2, <3>1, <3>3 DEF Hand, HandedIsPrefix, AttemptsMatch
  <2> QED
    BY <2>1, <2>2
<1>4. CASE Succeed
  <2> DEFINE p == handed.pool
             n == Len(handed.msgs)
  <2>1. p \in Pool /\ n \in Nat
    BY <1>4 DEF Succeed
  <2>2. /\ groups' = [groups EXCEPT ![p] = SubSeq(groups[p], n + 1, Len(groups[p]))]
        /\ total' = total - n /\ attempts' = [attempts EXCEPT ![p] = 0]
        /\ handed' = Nothing /\ UNCHANGED todo
    BY <1>4 DEF Succeed
  <2>3. SubSeq(groups[p], n + 1, Len(groups[p])) \in Seq(Msg)
    BY <2>1, CutTyped
  <2> HIDE DEF p, n
  <2> QED
    BY <2>1, <2>2, <2>3 DEF Nothing, HandedIsPrefix, AttemptsMatch
<1>5. ASSUME NEW expired \in BOOLEAN, Fail(expired) PROVE QueueInv'
  <2> DEFINE p == handed.pool
  <2>1. p \in Pool /\ groups[p] \in Seq(Msg) /\ handed' = Nothing /\ UNCHANGED todo
    BY <1>5 DEF Fail
  <2>2. groups[p] # <<>>
    <3>1. Len(handed.msgs) \in Nat /\ Len(handed.msgs) > 0
      BY <1>5, WholeIsPrefix DEF Fail, HandedIsPrefix
    <3> QED
      BY <1>5, <2>1, <3>1 DEF Fail, HandedIsPrefix
  <2>3. CASE expired \/ attempts[p] + 1 >= MaxAttempts
    <3>1. /\ groups' = [groups EXCEPT ![p] = <<>>] /\ total' = total - Len(groups[p])
          /\ attempts' = [attempts EXCEPT ![p] = 0]
      BY <1>5, <2>3 DEF Fail
    <3>2. Len(groups[p]) \in Nat
      BY <2>1
    <3> HIDE DEF p
    <3> QED
      BY <2>1, <3>1, <3>2 DEF Nothing, HandedIsPrefix, AttemptsMatch
  <2>4. CASE ~(expired \/ attempts[p] + 1 >= MaxAttempts)
    <3>1. /\ attempts' = [attempts EXCEPT ![p] = attempts[p] + 1] /\ UNCHANGED <<groups, total>>
      BY <1>5, <2>4 DEF Fail
    <3>2. attempts[p] + 1 < MaxAttempts
      BY <2>1, <2>4
    <3> HIDE DEF p
    <3> QED
      BY <2>1, <2>2, <3>1, <3>2 DEF Nothing, HandedIsPrefix, AttemptsMatch
  <2> QED
    BY <2>3, <2>4
<1>6. CASE LoseQueue
  BY <1>6 DEF LoseQueue, Nothing, HandedIsPrefix, AttemptsMatch
<1>7. CASE UNCHANGED vars
  BY <1>7 DEF vars, queueVars, HandedIsPrefix, AttemptsMatch
<1> QED
  BY <1>1, <1>2, <1>3, <1>4, <1>5, <1>6, <1>7 DEF Next, Produce, Settle

LEMMA QueueInitial == Init => QueueInv
BY QueueAssumption DEF Init, QueueInit, QueueInv, TypeOK, QueueTypeOK, Nothing, HandedIsPrefix,
   AttemptsMatch, Handling

LEMMA QueueInvHolds == Spec => []QueueInv
BY QueueInitial, QueueInvInductive, PTL DEF Spec

\* The type invariant of the queue.
THEOREM QueueTypeCorrect == Spec => []TypeOK
<1>1. QueueInv => TypeOK
  BY DEF QueueInv
<1> QED
  BY <1>1, QueueInvHolds, PTL

\* Whatever the hot path enqueues while a handler runs, the handler's messages
\* stay the head of their group, so that removing as many removes exactly them.
THEOREM QueueSafe == Spec => []HandedIsPrefix
<1>1. QueueInv => HandedIsPrefix
  BY DEF QueueInv
<1> QED
  BY <1>1, QueueInvHolds, PTL

\* A pool's attempts never outlive its messages or reach the limit.
THEOREM AttemptsAreBounded == Spec => []AttemptsMatch
<1>1. QueueInv => AttemptsMatch
  BY DEF QueueInv
<1> QED
  BY <1>1, QueueInvHolds, PTL

-----------------------------------------------------------------------------
(* The counter.                                                            *)

CountInv == IsFiniteSet(Waiting) /\ CapacityKept

\* The places of a pool from a to b.
LEMMA SegmentCount ==
  ASSUME NEW p, NEW a \in Int, NEW b \in Int
  PROVE  /\ IsFiniteSet({p} \X (a .. b))
         /\ Cardinality({p} \X (a .. b)) = IF a > b THEN 0 ELSE b - a + 1
<1>1. IsFiniteSet({p}) /\ Cardinality({p}) = 1
  BY FS_Singleton
<1>2. IsFiniteSet(a .. b) /\ Cardinality(a .. b) = IF a > b THEN 0 ELSE b - a + 1
  BY FS_Interval
<1>3. /\ IsFiniteSet({p} \X (a .. b))
      /\ Cardinality({p} \X (a .. b)) = Cardinality({p}) * Cardinality(a .. b)
  BY <1>1, <1>2, FS_Product
<1> QED
  BY <1>1, <1>2, <1>3

\* A pool that loses n messages, from whichever end, leaves n places.
LEMMA CutCount ==
  ASSUME TypeOK, CountInv, NEW p \in Pool, NEW s \in Seq(Msg), NEW n \in Nat,
         groups' = [groups EXCEPT ![p] = s], Len(s) = Len(groups[p]) - n
  PROVE  IsFiniteSet(Waiting)' /\ Cardinality(Waiting)' = Cardinality(Waiting) - n
<1> DEFINE left == {p} \X ((Len(s) + 1) .. Len(groups[p]))
<1>1. groups \in [Pool -> Seq(Msg)]
  BY DEF TypeOK, QueueTypeOK
<1>2. Len(s) \in Nat /\ Len(groups[p]) \in Nat /\ Len(groups[p]) = Len(s) + n
  BY <1>1
<1>3. IsFiniteSet(left) /\ Cardinality(left) = n
  <2> DEFINE a == Len(s) + 1
             b == Len(groups[p])
  <2>1. a \in Int /\ b \in Int /\ (IF a > b THEN 0 ELSE b - a + 1) = n
    BY <1>2
  <2> HIDE DEF a, b
  <2>2. IsFiniteSet({p} \X (a .. b)) /\ Cardinality({p} \X (a .. b)) = n
    BY <2>1, SegmentCount
  <2> QED
    BY <2>2 DEF a, b
<1>4. Waiting' = Waiting \ left /\ left \subseteq Waiting
  <2>1. DOMAIN groups[p] = 1 .. Len(groups[p]) /\ DOMAIN s = 1 .. Len(s)
    BY <1>1
  <2>2. DOMAIN s = DOMAIN groups[p] \ ((Len(s) + 1) .. Len(groups[p]))
        /\ (Len(s) + 1) .. Len(groups[p]) \subseteq DOMAIN groups[p]
    BY <1>2, <2>1
  <2>3. groups'[p] = s /\ \A q \in Pool \ {p} : groups'[q] = groups[q]
    BY <1>1
  <2> HIDE DEF left
  <2>4. Waiting = UNION {{q} \X DOMAIN groups[q] : q \in Pool}
        /\ Waiting' = UNION {{q} \X DOMAIN groups'[q] : q \in Pool}
    BY DEF Waiting
  <2>5. \A q, i : <<q, i>> \in left <=> q = p /\ i \in (Len(s) + 1) .. Len(groups[p])
    BY DEF left
  <2>6. \A x \in left : \E i : x = <<p, i>> /\ i \in DOMAIN groups[p]
    BY <2>2 DEF left
  <2>7. left \subseteq Waiting
    BY <2>4, <2>6
  <2>8. ASSUME NEW q \in Pool, NEW i PROVE i \in DOMAIN groups'[q] <=> i \in DOMAIN groups[q] /\ <<q, i>> \notin left
    BY <2>2, <2>3, <2>5
  <2>9. Waiting' \subseteq Waiting \ left
    BY <2>4, <2>8
  <2>10. Waiting \ left \subseteq Waiting'
    BY <2>4, <2>8
  <2> QED
    BY <2>7, <2>9, <2>10
<1>5. IsFiniteSet(Waiting)
  BY DEF CountInv
<1>6. IsFiniteSet(Waiting \ left)
      /\ Cardinality(Waiting \ left) = Cardinality(Waiting) - Cardinality(Waiting \cap left)
  BY <1>5, FS_Difference
<1>7. Waiting \cap left = left
  BY <1>4
<1> QED
  BY <1>3, <1>4, <1>6, <1>7

LEMMA CountInvInductive == QueueInv /\ CountInv /\ [Next]_vars => CountInv'
<1> SUFFICES ASSUME QueueInv, CountInv, [Next]_vars PROVE CountInv'
  OBVIOUS
<1>0. TypeOK /\ HandedIsPrefix /\ groups \in [Pool -> Seq(Msg)] /\ total \in Int
      /\ total = Cardinality(Waiting) /\ total <= MaxTotal /\ MaxTotal \in Nat /\ IsFiniteSet(Waiting)
  BY QueueAssumption DEF QueueInv, TypeOK, QueueTypeOK, CountInv, CapacityKept
<1>1. ASSUME NEW p \in Pool, NEW m \in Msg, Enqueue(p, m) PROVE CountInv'
  <2> DEFINE place == <<p, Len(groups[p]) + 1>>
  <2>1. groups[p] \in Seq(Msg)
    BY <1>0
  <2>2. /\ DOMAIN groups[p] = 1 .. Len(groups[p]) /\ Len(groups[p]) \in Nat
        /\ DOMAIN Append(groups[p], m) = 1 .. (Len(groups[p]) + 1)
    BY <2>1, AppendProperties
  <2>3. /\ DOMAIN Append(groups[p], m) = DOMAIN groups[p] \cup {Len(groups[p]) + 1}
        /\ Len(groups[p]) + 1 \notin DOMAIN groups[p]
    BY <2>2
  <2>4. groups'[p] = Append(groups[p], m) /\ \A q \in Pool \ {p} : groups'[q] = groups[q]
    BY <1>0, <1>1 DEF Enqueue
  <2>5. Waiting' = Waiting \cup {place} /\ place \notin Waiting
    <3>1. Waiting = UNION {{q} \X DOMAIN groups[q] : q \in Pool}
          /\ Waiting' = UNION {{q} \X DOMAIN groups'[q] : q \in Pool}
      BY DEF Waiting
    <3>2. ASSUME NEW q \in Pool, NEW i
          PROVE  i \in DOMAIN groups'[q] <=> i \in DOMAIN groups[q] \/ <<q, i>> = place
      BY <2>3, <2>4
    <3>3. place \in Waiting' /\ place \notin Waiting
      BY <2>3, <3>1, <3>2
    <3>4. Waiting' \subseteq Waiting \cup {place}
      BY <3>1, <3>2
    <3>5. Waiting \subseteq Waiting'
      BY <3>1, <3>2
    <3> QED
      BY <3>3, <3>4, <3>5
  <2>6. IsFiniteSet(Waiting \cup {place}) /\ Cardinality(Waiting \cup {place}) = Cardinality(Waiting) + 1
    BY <1>0, <2>5, FS_AddElement
  <2>7. total' = total + 1 /\ total < MaxTotal
    BY <1>1 DEF Enqueue
  <2>8. MaxTotal' = MaxTotal
    OBVIOUS
  <2> QED
    BY <1>0, <2>5, <2>6, <2>7, <2>8 DEF CountInv, CapacityKept
<1>2. CASE UNCHANGED <<groups, total>>
  BY <1>0, <1>2 DEF CountInv, CapacityKept, Waiting
<1>3. ASSUME NEW p \in Pool, NEW s \in Seq(Msg), NEW n \in Nat,
             groups' = [groups EXCEPT ![p] = s], Len(s) = Len(groups[p]) - n, total' = total - n
      PROVE  CountInv'
  <2>1. IsFiniteSet(Waiting)' /\ Cardinality(Waiting)' = Cardinality(Waiting) - n
    BY <1>0, <1>3, CutCount
  <2>2. total' = Cardinality(Waiting)' /\ total' <= MaxTotal
    BY <1>0, <1>3, <2>1
  <2> QED
    BY <2>1, <2>2 DEF CountInv, CapacityKept
<1>4. CASE Succeed
  <2> DEFINE p == handed.pool
             n == Len(handed.msgs)
             s == SubSeq(groups[p], n + 1, Len(groups[p]))
  <2>1. p \in Pool /\ n \in Nat /\ n <= Len(groups[p]) /\ groups[p] \in Seq(Msg)
    BY <1>0, <1>4 DEF Succeed, TypeOK, QueueTypeOK, Handling, HandedIsPrefix
  <2>2. groups' = [groups EXCEPT ![p] = s] /\ total' = total - n
    BY <1>4 DEF Succeed
  <2> HIDE DEF p, n
  <2>3. s \in Seq(Msg) /\ Len(s) = Len(groups[p]) - n
    BY <2>1
  <2> QED
    BY <1>3, <2>1, <2>2, <2>3
<1>5. ASSUME NEW expired \in BOOLEAN, Fail(expired) PROVE CountInv'
  <2> DEFINE p == handed.pool
  <2>1. CASE expired \/ attempts[p] + 1 >= MaxAttempts
    <3>1. groups' = [groups EXCEPT ![p] = <<>>] /\ total' = total - Len(groups[p])
      BY <1>5, <2>1 DEF Fail
    <3>2. p \in Pool /\ groups[p] \in Seq(Msg)
      BY <1>0, <1>5 DEF Fail, TypeOK, QueueTypeOK, Handling
    <3>3. Len(groups[p]) \in Nat /\ <<>> \in Seq(Msg) /\ Len(<<>>) = Len(groups[p]) - Len(groups[p])
      BY <3>2
    <3> HIDE DEF p
    <3> QED
      BY <1>3, <3>1, <3>2, <3>3
  <2>2. CASE ~(expired \/ attempts[p] + 1 >= MaxAttempts)
    BY <1>2, <1>5, <2>2 DEF Fail
  <2> QED
    BY <2>1, <2>2
<1>6. CASE LoseQueue
  <2>1. groups' = [p \in Pool |-> <<>>] /\ total' = 0
    BY <1>6 DEF LoseQueue
  <2>2. Waiting' = {}
    BY <2>1 DEF Waiting
  <2> QED
    BY <1>0, <2>1, <2>2, FS_EmptySet DEF CountInv, CapacityKept
<1>7. CASE Poll \/ (\E p \in Pool : Hand(p)) \/ UNCHANGED vars
  BY <1>2, <1>7 DEF Poll, Hand, vars, queueVars
<1> QED
  BY <1>1, <1>4, <1>5, <1>6, <1>7 DEF Next, Produce, Settle

\* The counter that the capacity is checked against is the number of messages
\* waiting, however producers, handler and drops interleave, so that the queue
\* neither overfills nor closes itself for ever to the hot path.
THEOREM QueueKeepsCapacity == Spec => []CapacityKept
<1>1. Init => QueueInv /\ CountInv
  <2> SUFFICES ASSUME Init PROVE QueueInv /\ CountInv
    OBVIOUS
  <2>1. QueueInv
    BY QueueInitial
  <2>2. Waiting = {}
    BY DEF Waiting, Init, QueueInit
  <2> QED
    BY <2>1, <2>2, FS_EmptySet, QueueAssumption DEF CountInv, CapacityKept, Init, QueueInit
<1>2. QueueInv /\ CountInv /\ [Next]_vars => (QueueInv /\ CountInv)'
  BY QueueInvInductive, CountInvInductive
<1>3. CountInv => CapacityKept
  BY DEF CountInv
<1> QED
  BY <1>1, <1>2, <1>3, PTL DEF Spec
=============================================================================
