--------------------------- MODULE MCProcessLayer ---------------------------
(***************************************************************************)
(* The layer below the IPC classes: NetLinkListener and the wrappers of    *)
(* src/Syscalls.cpp that have control of their own.  They do not interact: *)
(* a behaviour is about one of them, and the others rest.                  *)
(***************************************************************************)
EXTENDS NetLinkListener, ExactIO, MkdirP

VARIABLE subject

layerVars == <<vars, ioVars, dirVars, subject>>

LayerInit ==
  /\ Init /\ IOInit /\ DirInit
  /\ subject \in {"net", "io", "dir"}
  /\ subject # "dir" => \A l \in 1 .. Depth : kind[l] = "none"

\* A step A of the listener.
Net(A) == subject = "net" /\ A /\ UNCHANGED <<ioVars, dirVars, subject>>

LayerNext ==
  \/ Net(Next)
  \/ subject = "io"  /\ IONext  /\ UNCHANGED <<vars, dirVars, subject>>
  \/ subject = "dir" /\ DirNext /\ UNCHANGED <<vars, ioVars, subject>>

\* The fairness of the listener's FairSpec.
LayerSpec ==
  /\ LayerInit /\ [][LayerNext]_layerVars
  /\ WF_layerVars(Net(Processor)) /\ WF_layerVars(Net(Join))
=============================================================================
