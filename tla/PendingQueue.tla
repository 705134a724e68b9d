----------------------------- MODULE PendingQueue -----------------------------
(***************************************************************************)
(* pendingqueue.Memory: swaps whose pool's tokens are not known yet wait   *)
(* here, grouped by pool, while the hot path goes on.  One worker polls,   *)
(* hands every pool's messages to a handler without holding the lock, and  *)
(* settles the outcome.  The hot path enqueues in between.                 *)
(*                                                                         *)
(* The module has the queue's own operations; each action is one critical  *)
(* section of its mutex.  PendingQueueLoop lets any producer and any       *)
(* handler use it, SwapPipeline the extractor's.                           *)
(***************************************************************************)
EXTENDS Integers, Sequences

CONSTANTS
  Pool,        \* pool addresses
  NoPool,      \* no pool
  Msg,         \* messages; the same one may be enqueued again
  MaxTotal,    \* capacity over all pools
  MaxAttempts  \* failed attempts after which a pool's messages are dropped

ASSUME QueueAssumption ==
  NoPool \notin Pool /\ MaxTotal \in Nat \ {0} /\ MaxAttempts \in Nat \ {0}

VARIABLES
  groups,    \* [Pool -> Seq(Msg)] messages waiting, in order of arrival
  attempts,  \* [Pool -> Nat] failed attempts since the last success
  total,     \* number of messages waiting
  todo,      \* pools the worker's current pass has still to visit
  handed     \* what the handler is working on: its pool and its messages

queueVars == <<groups, attempts, total, todo, handed>>

Nothing == [pool |-> NoPool, msgs |-> <<>>]
Handling == handed.pool # NoPool

-----------------------------------------------------------------------------
\* Mutant: the newest message is put in front.
EnqueueInFront(p, m) ==
  /\ total < MaxTotal
  /\ groups' = [groups EXCEPT ![p] = <<m>> \o @]
  /\ total' = total + 1
  /\ UNCHANGED <<attempts, todo, handed>>

Enqueue(p, m) ==
  /\ total < MaxTotal
  /\ groups' = [groups EXCEPT ![p] = Append(@, m)]
  /\ total' = total + 1
  /\ UNCHANGED <<attempts, todo, handed>>

\* ErrQueueFull: the message is not accepted.
QueueFull == total >= MaxTotal

\* The poll timer fires: the pools that have messages now.
Poll ==
  /\ ~Handling /\ todo = {}
  /\ todo' = {p \in Pool : groups[p] # <<>>}
  /\ UNCHANGED <<groups, attempts, total, handed>>

\* Pools are visited in the order a Go map is iterated: any.
Hand(p) ==
  /\ ~Handling /\ p \in todo
  /\ todo' = todo \ {p}
  /\ handed' = IF groups[p] = <<>> THEN Nothing
               ELSE [pool |-> p, msgs |-> groups[p]]
  /\ UNCHANGED <<groups, attempts, total>>

\* Mutants: a success takes back one failure; a success empties the pool,
\* what arrived while the handler ran included.
SucceedTakesBack ==
  /\ Handling
  /\ groups' = [groups EXCEPT ![handed.pool] =
                  SubSeq(@, Len(handed.msgs) + 1, Len(@))]
  /\ total' = total - Len(handed.msgs)
  /\ attempts' = [attempts EXCEPT ![handed.pool] = @ - 1]
  /\ handed' = Nothing
  /\ UNCHANGED todo
SucceedEmptiesPool ==
  /\ Handling
  /\ groups' = [groups EXCEPT ![handed.pool] = <<>>]
  /\ total' = total - Len(groups[handed.pool])
  /\ attempts' = [attempts EXCEPT ![handed.pool] = 0]
  /\ handed' = Nothing
  /\ UNCHANGED todo

\* The handler succeeded: what it was handed leaves the queue, what arrived
\* meanwhile stays.
Succeed ==
  LET p == handed.pool
      n == Len(handed.msgs)
  IN  /\ Handling
      /\ groups' = [groups EXCEPT ![p] = SubSeq(@, n + 1, Len(@))]
      /\ total' = total - n
      /\ attempts' = [attempts EXCEPT ![p] = 0]
      /\ handed' = Nothing
      /\ UNCHANGED todo

\* Mutants: only what was handed over is subtracted when the whole pool is
\* dropped; the pool's attempts outlive it; nothing is ever given up.
FailMiscounts(expired) ==
  LET p == handed.pool
  IN  /\ Handling /\ (expired \/ attempts[p] + 1 >= MaxAttempts)
      /\ groups' = [groups EXCEPT ![p] = <<>>]
      /\ total' = total - Len(handed.msgs)
      /\ attempts' = [attempts EXCEPT ![p] = 0]
      /\ handed' = Nothing
      /\ UNCHANGED todo
FailKeepsAttempts(expired) ==
  LET p == handed.pool
  IN  /\ Handling /\ expired
      /\ groups' = [groups EXCEPT ![p] = <<>>]
      /\ total' = total - Len(groups[p])
      /\ attempts' = [attempts EXCEPT ![p] = @ + 1]
      /\ handed' = Nothing
      /\ UNCHANGED todo
FailForEver(expired) ==
  /\ Handling /\ handed' = Nothing
  /\ UNCHANGED <<groups, attempts, total, todo>>

\* The handler failed: everything stays for the next pass, unless the pool's
\* oldest message has expired or the pool has used up its attempts.
Fail(expired) ==
  LET p == handed.pool
  IN  /\ Handling
      /\ IF expired \/ attempts[p] + 1 >= MaxAttempts
         THEN /\ groups' = [groups EXCEPT ![p] = <<>>]
              /\ total' = total - Len(groups[p])
              /\ attempts' = [attempts EXCEPT ![p] = 0]
         ELSE /\ attempts' = [attempts EXCEPT ![p] = @ + 1]
              /\ UNCHANGED <<groups, total>>
      /\ handed' = Nothing
      /\ UNCHANGED todo

\* The process dies; the queue was in its memory.
LoseQueue ==
  /\ groups' = [p \in Pool |-> <<>>]
  /\ attempts' = [p \in Pool |-> 0]
  /\ total' = 0
  /\ todo' = {}
  /\ handed' = Nothing

QueueInit ==
  /\ groups = [p \in Pool |-> <<>>]
  /\ attempts = [p \in Pool |-> 0]
  /\ total = 0
  /\ todo = {}
  /\ handed = Nothing

-----------------------------------------------------------------------------
QueueTypeOK ==
  /\ groups \in [Pool -> Seq(Msg)]
  /\ attempts \in [Pool -> Nat]
  /\ total \in Int  \* CapacityKept says more
  /\ todo \in SUBSET Pool
  /\ handed \in [pool : Pool \cup {NoPool}, msgs : Seq(Msg)]
=============================================================================
