-------------------------- MODULE MCWorkspaceCommit --------------------------
(* WorkspaceCommit on small instances. *)
EXTENDS WorkspaceCommit

CONSTANTS d1, d2, x, y, v1, v2, v3, p1, p2, p3, c1, c2, c3, c4, h1, h2

Doc(v, p) == [content |-> [f \in Fields |-> v], meta |-> p, contentRev |-> 1, metaRev |-> 1]

\* A workspace with two routed documents.
TwoDocs == {[tree |-> v1, route |-> {d1, d2}, settings |-> v1,
             docs |-> (d1 :> Doc(v1, p1)) @@ (d2 :> Doc(v1, p2))]}
\* A document outside the manifest, whose removal is a single command, and another.  An
\* imported workspace keeps its revisions: here also one edit away from the limit.
UnroutedDoc ==
  {[tree |-> v1, route |-> {d2}, settings |-> v1,
    docs |-> (d1 :> [Doc(v1, p1) EXCEPT !.contentRev = n]) @@ (d2 :> Doc(v1, p2))] :
   n \in {1, MaxRev - 1}}

CommitIdSymmetry == Permutations(CommitIds)
HandlerSymmetry == Permutations(Handlers)
Symmetry == CommitIdSymmetry \cup HandlerSymmetry
\* The seeds give every field of d1 the value v1, so the fields, and the values a client may
\* set, are interchangeable too.
ValueSymmetry == CommitIdSymmetry \cup Permutations({v2, v3}) \cup Permutations({x, y})

RecreationShapes == {"edit", "remove", "undo"}

AllShapes == {"edit", "editTwice", "rename", "renameEdit", "add", "remove",
              "layout", "route", "settings", "undo"}
=============================================================================
