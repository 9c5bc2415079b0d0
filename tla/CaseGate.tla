------------------------------ MODULE CaseGate ------------------------------
(***************************************************************************)
(* What a requirement case promises: a decision on a question stands until *)
(* it is replaced by another decision or the case is analysed again, and a *)
(* case is ready only from a moment at which every question is decided to  *)
(* the next change of the case.                                            *)
(***************************************************************************)
CONSTANTS Cases, Questions

VARIABLES
    decision, \* decision[c][q]: what has been decided on question q of case c
    ready     \* the cases declared ready for Jira

gateVars == <<decision, ready>>

Decisions == {"absent", "open", "answered", "waived"}

Init ==
    /\ decision = [c \in Cases |-> [q \in Questions |-> "absent"]]
    /\ ready = [c \in Cases |-> FALSE]

\* All questions are asked anew.
Analyse(c) ==
    /\ decision' = [decision EXCEPT ![c] = [q \in Questions |-> "open"]]
    /\ ready' = [ready EXCEPT ![c] = FALSE]

Decide(c, q, d) ==
    /\ decision[c][q] # "absent"
    /\ decision' = [decision EXCEPT ![c][q] = d]
    /\ ready' = [ready EXCEPT ![c] = FALSE]

Certify(c) ==
    /\ \A q \in Questions : decision[c][q] \in {"answered", "waived"}
    /\ ready' = [ready EXCEPT ![c] = TRUE]
    /\ UNCHANGED decision

Withdraw(c) ==
    /\ ready' = [ready EXCEPT ![c] = FALSE]
    /\ UNCHANGED decision

Next ==
    \E c \in Cases :
        \/ Analyse(c)
        \/ \E q \in Questions, d \in {"answered", "waived"} : Decide(c, q, d)
        \/ Certify(c)
        \/ Withdraw(c)

Spec == Init /\ [][Next]_gateVars
=============================================================================
