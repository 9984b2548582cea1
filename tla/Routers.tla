---- MODULE Routers ----
(***************************************************************************)
(* The routers a link shell may be given in the place of a plain queue: the *)
(* command line names one, which serves the link for the life of the shell. *)
(* The ABC router runs by itself (cellular), as a class of the weighted    *)
(* queue, or one of RCP, VCP and XCP runs instead.                         *)
(***************************************************************************)
EXTENDS RateQueues, WeightedQueue

RoutersInit == Init /\ RateInit /\ WeightedInit

RoutersNext ==
  \/ kind = "cellular" /\ Next /\ UNCHANGED <<rateVars, weightedVars>>
  \/ kind = "weighted" /\ WeightedNext /\ UNCHANGED rateVars
  \/ kind \in {"rcp", "vcp", "xcp"} /\ RateNext /\ UNCHANGED weightedVars

RoutersSpec == RoutersInit /\ [][RoutersNext]_<<vars, rateVars, weightedVars>>
====
