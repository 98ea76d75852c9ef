--------------------------- MODULE MCWorkspaceSync ---------------------------
(***************************************************************************)
(* Finite instances of WorkspaceSync.                                       *)
(***************************************************************************)
EXTENDS WorkspaceSync, TLC

CONSTANTS docA, docB, title, body, v0, v1, v2, tab1, tab2, w1, w2

OneDoc == {docA}
TwoDocs == {docA, docB}
OneField == {title}
TwoFields == {title, body}
TwoVals == {v0, v1}
ThreeVals == {v0, v1, v2}
NewVal == {v2}
InitialOrNewVal == {v0, v2}
OneTab == {tab1}
TwoTabs == {tab1, tab2}
OneWorker == {w1}
TwoWorkers == {w1, w2}

\* Executions, tabs, and documents, are interchangeable.
Symmetry == Permutations(Workers) \cup Permutations(Tabs) \cup Permutations(Docs)
=============================================================================
