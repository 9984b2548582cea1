---- MODULE Shells ----
(***************************************************************************)
(* The shells without a trace: how the processes of one are set up and     *)
(* taken down (PacketShell), the ferry in two of them (FrontEnds), and the *)
(* thread that draws the live graph of mm-meter and mm-link (LiveGraph).   *)
(* Packets wait neither for processes nor for what is drawn, and the       *)
(* drawing sees only values recorded of them, so that the three are run    *)
(* beside each other and not in each other's steps.                        *)
(***************************************************************************)
EXTENDS FrontEnds, LiveGraph, PacketShell

shellsVars == <<frontVars, graphVars, setupVars>>

ShellsInit ==
  /\ FrontInit /\ GraphInit /\ SetupInit
  /\ graph = "none" <=> kind # "graph"
  /\ kind = "setup" \/ inUse = CHOOSE a \in Assigned : TRUE

ShellsNext ==
  \/ kind \notin {"graph", "setup"} /\ FrontNext /\ UNCHANGED <<graphVars, setupVars>>
  \/ kind = "graph" /\ GraphNext /\ UNCHANGED <<frontVars, setupVars>>
  \/ kind = "setup" /\ SetupNext /\ UNCHANGED <<frontVars, graphVars>>

\* Every process of a shell is scheduled; nothing need throw, finish, exit or be
\* killed.
SetupFairness ==
  /\ WF_setupVars(kind = "setup" /\ ShellSteps)
  /\ WF_setupVars(kind = "setup" /\ UplinkSteps)
  /\ WF_setupVars(kind = "setup" /\ DownlinkSteps)

ShellsSpec ==
  /\ ShellsInit /\ [][ShellsNext]_shellsVars
  /\ GraphFairness /\ SetupFairness
====
