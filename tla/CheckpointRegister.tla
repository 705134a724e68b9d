-------------------------- MODULE CheckpointRegister --------------------------
(***************************************************************************)
(* What the engine needs from a progress tracker: one durable register per *)
(* chain.  A loop loads it, works, and saves the next value; it may also   *)
(* give up between the two, which leaves the register alone.               *)
(***************************************************************************)
EXTENDS Integers

CONSTANTS Chain, None

VARIABLES
  saved,   \* [Chain -> Nat] the register
  loaded   \* [Chain -> Nat \cup {None}] what the running loop holds

rvars == <<saved, loaded>>

Init ==
  /\ saved = [c \in Chain |-> 0]
  /\ loaded = [c \in Chain |-> None]

Load(c) ==
  /\ loaded[c] = None
  /\ loaded' = [loaded EXCEPT ![c] = saved[c]]
  /\ UNCHANGED saved

Save(c) ==
  /\ loaded[c] # None
  /\ saved' = [saved EXCEPT ![c] = loaded[c] + 1]
  /\ loaded' = [loaded EXCEPT ![c] = None]

\* A failed save, or a crash of the process, which drops every loop at once.
GiveUp ==
  /\ \E S \in SUBSET Chain :
       loaded' = [c \in Chain |-> IF c \in S THEN None ELSE loaded[c]]
  /\ UNCHANGED saved

Next == GiveUp \/ \E c \in Chain : Load(c) \/ Save(c)

Spec == Init /\ [][Next]_rvars
=============================================================================
