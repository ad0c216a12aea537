--------------------------- MODULE FlowLifecycle ----------------------------
(***************************************************************************)
(* What flow allocation promises: the two ends of a flow agree.  A flow is *)
(* open at the end that asked for it only when the other end has accepted  *)
(* it, it is refused only when the other end has not, it is closed at an   *)
(* end only when the other end closes it or has closed it, and a flow that *)
(* is closed or refused stays so.                                          *)
(***************************************************************************)
CONSTANT Flows

VARIABLE phase  \* phase[f][e] of flow f at "I", the end that asked for it, and at "R"

Phase == {"idle", "waiting", "open", "closing", "closed", "refused"}
Other(e) == IF e = "I" THEN "R" ELSE "I"

Init == phase = [f \in Flows |-> [e \in {"I", "R"} |-> "idle"]]

\* The end e of flow f goes from one phase to the next.
Move(f, e, from, to) ==
    /\ phase[f][e] = from
    /\ phase'[f] = [phase[f] EXCEPT ![e] = to]

Request(f) == \E next \in {"waiting", "refused"} : Move(f, "I", "idle", next)

\* The other end takes its time, accepts or refuses.
Answer(f) ==
    /\ phase[f]["I"] # "idle"
    /\ \E next \in {"waiting", "open", "refused"} : Move(f, "R", "idle", next)

Open(f) == phase[f]["R"] \in {"open", "closing"} /\ Move(f, "I", "waiting", "open")

Refuse(f) == phase[f]["R"] \in {"idle", "refused"} /\ Move(f, "I", "waiting", "refused")

Close(f, e) == Move(f, e, "open", "closing")

Release(f, e) ==
    /\ phase[f][Other(e)] \in {"closing", "closed"}
    /\ \E from \in {"open", "closing"} : Move(f, e, from, "closed")

FlowStep(f) ==
    \/ Request(f)
    \/ Answer(f)
    \/ Open(f)
    \/ Refuse(f)
    \/ \E e \in {"I", "R"} : Close(f, e) \/ Release(f, e)

\* Several flows may move together: one event can serve all flows that wait for it.
Next ==
    /\ phase' \in [Flows -> [{"I", "R"} -> Phase]]
    /\ \A f \in Flows : FlowStep(f) \/ phase'[f] = phase[f]

Spec == Init /\ [][Next]_phase
=============================================================================
