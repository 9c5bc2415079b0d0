-------------------------- MODULE PublicationGate --------------------------
(***************************************************************************)
(* What the review workflow of imported documents promises: a file enters  *)
(* the knowledge pack only while its draft is approved, under the title    *)
(* the draft has then, and a draft marked promoted is not edited.  It does *)
(* not promise that the title is the one the reviewers saw: an approved    *)
(* draft may be edited and stays approved.                                 *)
(***************************************************************************)
CONSTANTS Documents, Titles, Decisions

VARIABLES
    review,   \* review[d]: review status of the draft of document d
    title,    \* title[d]: the set of its title ({}: no draft yet)
    published \* published[d]: titles under which d is in the knowledge pack

gateVars == <<review, title, published>>

Init ==
    /\ review = [d \in Documents |-> "none"]
    /\ title = [d \in Documents |-> {}]
    /\ published = [d \in Documents |-> {}]

\* A new draft is proposed, whatever became of the one before.
Propose(d, t) ==
    /\ review' = [review EXCEPT ![d] = "pending_review"]
    /\ title' = [title EXCEPT ![d] = {t}]
    /\ UNCHANGED published

\* Any status a reviewer gives, "promoted" and "pending_review" too.
Decide(d, decision) ==
    /\ review[d] # "none"
    /\ review' = [review EXCEPT ![d] = decision]
    /\ UNCHANGED <<title, published>>

\* The title changes and the review stands: editing is not reviewed.
Edit(d, t) ==
    /\ review[d] \notin {"none", "promoted"}
    /\ title' = [title EXCEPT ![d] = {t}]
    /\ UNCHANGED <<review, published>>

\* The title of now, which may have been edited since the approval.
Publish(d) ==
    /\ review[d] = "approved"
    /\ published' = [published EXCEPT ![d] = @ \cup title[d]]
    /\ UNCHANGED <<review, title>>

\* The promotion is recorded once the draft's file is in the pack.
Conclude(d) ==
    /\ review[d] = "approved"
    /\ title[d] \subseteq published[d]
    /\ review' = [review EXCEPT ![d] = "promoted"]
    /\ UNCHANGED <<title, published>>

Next ==
    \E d \in Documents :
        \/ \E t \in Titles : Propose(d, t) \/ Edit(d, t)
        \/ \E decision \in Decisions : Decide(d, decision)
        \/ Publish(d)
        \/ Conclude(d)

Spec == Init /\ [][Next]_gateVars
=============================================================================
