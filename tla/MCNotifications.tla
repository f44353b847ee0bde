--------------------------- MODULE MCNotifications --------------------------
(* One sender at a time, two channels, and batches in the order the scan     *)
(* sorts them into: by falling severity.                                     *)
EXTENDS Notifications

Sig(k, severity) == [key |-> k, severity |-> severity, direction |-> "BUY"]

\* One batch of three pairs, and one that repeats a pair, as a watch list does
\* that names a stock twice, and ends below the threshold.
MCBatches ==
  {<<Sig("a", 3), Sig("b", 2), Sig("c", 2)>>,
   <<Sig("a", 5), Sig("a", 2), Sig("b", 1)>>}
=============================================================================
