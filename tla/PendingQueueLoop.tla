--------------------------- MODULE PendingQueueLoop ---------------------------
(***************************************************************************)
(* The queue between a producer that may enqueue any message at any time   *)
(* and a handler that may succeed or fail at any attempt.                  *)
(***************************************************************************)
EXTENDS PendingQueue, FiniteSets

vars == queueVars

Produce == \E p \in Pool, m \in Msg : Enqueue(p, m)
Settle  == Succeed \/ \E expired \in BOOLEAN : Fail(expired)

Next ==
  \/ Produce
  \/ Poll
  \/ \E p \in Pool : Hand(p)
  \/ Settle
  \/ LoseQueue

Init == QueueInit

Spec == Init /\ [][Next]_vars

\* The timer keeps firing, and a handler, which bounds each of its calls by a
\* timeout, returns.
Fairness == WF_vars(Poll) /\ WF_vars(\E p \in Pool : Hand(p)) /\ WF_vars(Settle)

FairSpec == Spec /\ Fairness

-----------------------------------------------------------------------------
TypeOK == QueueTypeOK

\* The places in the queue that are taken.
Waiting == UNION {{p} \X DOMAIN groups[p] : p \in Pool}

\* memory.go, Enqueue: the counter that guards the capacity is the number of
\* messages waiting, so the capacity bounds them, whatever arrived while a
\* handler ran and whether its batch was flushed, kept or dropped.
CapacityKept ==
  /\ total = Cardinality(Waiting)
  /\ total <= MaxTotal

\* memory.go:131, "Only remove what we actually handed to handler": the
\* messages a handler works on are, until it returns, the oldest of their pool,
\* so cutting off as many as it was handed cuts off exactly those (and is within
\* the bounds of the slice).
HandedIsPrefix ==
  Handling =>
    /\ handed.msgs # <<>>
    /\ Len(handed.msgs) <= Len(groups[handed.pool])
    /\ SubSeq(groups[handed.pool], 1, Len(handed.msgs)) = handed.msgs

\* A pool that has messages to retry has attempts left, and a pool that is
\* forgotten has no attempts held against it when it shows up again.
AttemptsMatch ==
  \A p \in Pool : attempts[p] < MaxAttempts /\ (groups[p] = <<>> => attempts[p] = 0)

\* queue.go:69-71, a failing handler is retried, but only up to a limit: a pool
\* keeps being emptied or keeps losing messages from its head, so none waits
\* for ever, however many arrive behind it.
NeverStuck ==
  \A p \in Pool :
    \/ []<>(groups[p] = <<>>)
    \/ []<><<Len(groups'[p]) < Len(groups[p])>>_vars
=============================================================================
