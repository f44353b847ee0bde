---------------------------- MODULE MCScheduler -----------------------------
(* Two schedules: one for trading days, which the page can run as well, and    *)
(* one of maintenance, which ends without a step as its collaborator is        *)
(* missing.                                                                    *)
EXTENDS Scheduler

MCTable == [daily   |-> [workflow |-> "pre_market", minutes |-> {0, 1}, enabled |-> TRUE],
            rebuild |-> [workflow |-> "monthly_rebuild", minutes |-> {1}, enabled |-> TRUE]]
=============================================================================
