--------------------------------- MODULE Lists ---------------------------------
(***************************************************************************)
(* The two operators of SequencesExt that rows and blocks need.  The       *)
(* modules that use them are instantiated by name, ten of them in Ingest,  *)
(* and each instance would bring the whole of SequencesExt with it: too    *)
(* much for the proofs about Ingest.                                       *)
(***************************************************************************)
EXTENDS Integers, Sequences

ToSet(s) == {s[i] : i \in DOMAIN s}

FlattenSeq(seqs) ==
  IF Len(seqs) = 0 THEN seqs
  ELSE LET flatten[i \in 1..Len(seqs)] ==
             IF i = 1 THEN seqs[i] ELSE flatten[i - 1] \o seqs[i]
       IN flatten[Len(seqs)]
================================================================================
