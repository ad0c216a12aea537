-------------------------- MODULE MCFlowAllocation --------------------------
(* Small instances of FlowAllocation: which flows share an (N-1)-flow, which *)
(* the DIF cannot serve, and the state the (N-1)-flows are found in.         *)
EXTENDS FlowAllocation, TLC

CONSTANTS f1, f2, f3, f4, n1, n2, q1, q2

OneNeighbor == [f \in Flows |-> n1]
OwnNeighbor == [f \in Flows |-> IF f = f2 THEN n2 ELSE n1]
OneQoS == [f \in Flows |-> q1]
OwnQoS == [f \in Flows |-> IF f = f2 THEN q2 ELSE q1]

AllFit == [e \in Ends |-> {}]
UnfitAt(e, flows) == [end \in Ends |-> IF end = e THEN flows ELSE {}]
ThirdUnfitAtI == UnfitAt("I", {f3})
SecondUnfitAtR == UnfitAt("R", {f2})

\* The answering end has the (N-1)-flow by which it was reached.
Fresh == [node \in Nodes |-> IF node = "R" THEN "established" ELSE "none"]
AllEstablished == [node \in Nodes |-> "established"]
\* The answering end is itself allocating an (N-1)-flow to the other.
Crossing == [node \in Nodes |-> IF node = "R" THEN "pending" ELSE "established"]
=============================================================================
