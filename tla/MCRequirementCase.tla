------------------------- MODULE MCRequirementCase -------------------------
(* Model-checking instances of RequirementCase. *)
EXTENDS RequirementCase, TLC

\* Workers, answers and questions are interchangeable.
Symmetry == Permutations(Workers) \cup Permutations(Questions)

\* The snapshot of a handler that replaces it or saves nothing more.
SnapshotIsSpent(r) ==
    \/ r.pc \in {"check", "prompt"}
    \/ r.prompt # {}
    \/ r.op = "analyze" /\ r.pc # "analysing"

RelevantPart(r) ==
    IF r = Idle THEN r
    ELSE [r EXCEPT !.traced = {},
                   !.prompt = {TRUE : content \in @},
                   !.snap   = IF SnapshotIsSpent(r) THEN NoSnapshot ELSE @]

\* What case_concurrent's properties and the later steps can tell apart: no
\* step reads artifacts, files or the audit, the properties ask only which files
\* there are and for the rows of decisions and of ready cases.
View ==
    <<cases,
      [c \in Cases |-> {f \in FileNames : files[c][f] # {}}],
      {a \in audit : a.use_case \in {"answer", "waive"} \/ a.status = "jira_ready_draft"},
      [w \in Workers |-> RelevantPart(worker[w])],
      requests, aborts>>
=============================================================================
