------------------------------ MODULE MetaMC ------------------------------
(***************************************************************************)
(* Small instances of Meta for TLC.                                        *)
(***************************************************************************)
EXTENDS Meta, TLC

Symmetry == Permutations(Threads) \cup Permutations(Names)

\* delete_blocks lowers local_size without looking, and an INSERT whose file
\* is deleted and created again before the UPDATE raises it.  Beyond MaxSize
\* either way only delete_file is called.
CONSTANT MaxSize

InRange(t) == \/ \A f \in Names : local_size[f] \in -MaxSize .. MaxSize
              \/ call'[t].op = "delete_file"

NextBounded ==
  \/ \E t \in Threads : (APICall(t) /\ InRange(t)) \/ MetaStep(t)
                       \/ StatementFails(t)
  \/ init_cache_used_size

SpecBounded == MetaInit /\ [][NextBounded]_metaVars
===========================================================================
