---------------------------- MODULE CommitPlanner ----------------------------
(***************************************************************************)
(* The client side of a commit request: the write set of an operation, the  *)
(* expected revision vector read off the snapshot it was planned on, and    *)
(* the checks an operation passes before a request exists at all.  The      *)
(* server derives the same vector on its own (CommitKernel!Requirements).   *)
(***************************************************************************)
EXTENDS CommitKernel

\* The workspace as a client reads it: everything but the operation log.
Snapshot(w) == [tree |-> w.tree, route |-> w.route, docs |-> w.docs,
                settings |-> w.settings, workspaceRev |-> w.workspaceRev,
                routeRev |-> w.routeRev, opSeq |-> w.opSeq]

\* Mutated form: a document add marks its content only.
MetadataWritesOfAdd(cs, d) == On(cs, {"meta", "remove"}, d)

\* The commands that write the metadata of d.
MetadataWrites(cs, d) == On(cs, {"meta", "add", "remove"}, d)

(* The partitions the commands mark, one at a time; a whole-document add or *)
(* remove marks both partitions of its document.                            *)
WriteSet(cs) ==
  [workspace |-> \E c \in Range(cs) : c.kind \in {"meta", "add", "remove", "tree", "route"},
   route     |-> \E c \in Range(cs) : c.kind = "route",
   docs      |-> [d \in TargetDocs(cs) |->
      [content  |-> On(cs, {"content", "add", "remove"}, d) # {},
       metadata |-> MetadataWrites(cs, d) # {}]]]

\* A document the snapshot does not have is expected to be absent.
Expectation(s, d, write) ==
  LET known == d \in DOMAIN s.docs
  IN [contentRev |-> IF ~write.content THEN Omitted
                     ELSE IF known THEN s.docs[d].contentRev ELSE Absent,
      metaRev |-> IF ~write.metadata THEN Omitted
                  ELSE IF known THEN s.docs[d].metaRev ELSE Absent]

Expected(s, cs) ==
  LET w == WriteSet(cs)
  IN [workspaceRev |-> IF w.workspace THEN s.workspaceRev ELSE Omitted,
      routeRev |-> IF w.route THEN s.routeRev ELSE Omitted,
      docs |-> [d \in DOMAIN w.docs |-> Expectation(s, d, w.docs[d])]]

\* Whole-document changes name documents that are absent, or present, in s.
StructureFits(s, cs) ==
  /\ OneStructuralChange(cs)
  /\ AddsAreNew(cs)
  /\ \A c \in Range(cs) : /\ c.kind = "add" => c.doc \notin DOMAIN s.docs
                          /\ c.kind = "remove" => c.doc \in DOMAIN s.docs

(* The operation applies to its base snapshot, changes it, and leaves every *)
(* counter room to advance.                                                 *)
Plannable(s, cs) ==
  LET after == Applied(s, cs)
  IN /\ StructureFits(s, cs)
     /\ EveryCommandReverses(s, cs)
     /\ ValidState(after)
     /\ HasDurableDelta(s, after)
     /\ WithinCapacity(s, s, after)

\* base is the client's own record of the snapshot; it is not sent.
OperationRequest(id, s, cs) ==
  [domain |-> "operation", id |-> id, commands |-> cs,
   expected |-> Expected(s, cs), base |-> s.opSeq]

SettingsRequest(id, s, v) ==
  [domain |-> "settings", id |-> id, expectedWorkspaceRev |-> s.workspaceRev,
   settings |-> v, base |-> s.opSeq]

-----------------------------------------------------------------------------
(* The operations the editors plan *)

Edit(s, d, f, v) == ContentCommand(d, f, s.docs[d].content[f], v)

NewDocument(p, v) == [content |-> [f \in Fields |-> v], meta |-> p,
                      contentRev |-> 1, metaRev |-> 1]

Edits(s) ==
  {<<Edit(s, d, f, v)>> : d \in DOMAIN s.docs, f \in Fields, v \in Vals}
\* A transaction that writes one field twice; the second write may undo the first.
RepeatedEdits(s) ==
  {<<Edit(s, d, f, v), ContentCommand(d, f, v, w)>> :
     d \in DOMAIN s.docs, f \in Fields, v \in Vals, w \in Vals}
Renames(s) ==
  {<<MetaCommand(d, s.docs[d].meta, p)>> : d \in DOMAIN s.docs, p \in Paths}
\* A refactoring that renames a document and rewrites another one's reference.
RenamesWithEdit(s) ==
  {<<MetaCommand(d, s.docs[d].meta, p), Edit(s, e, f, v)>> :
     d \in DOMAIN s.docs, e \in DOMAIN s.docs, p \in Paths, f \in Fields, v \in Vals}
Additions(s) ==
  {<<AddCommand(d, NewDocument(p, v))>> : d \in DocIds \ DOMAIN s.docs, p \in Paths, v \in Vals}
\* Deleting a routed document takes it out of the manifest in the same operation.
Removals(s) ==
  {<<RouteCommand(s.route, s.route \ {d}), RemoveCommand(d, s.docs[d])>> : d \in s.route}
    \cup {<<RemoveCommand(d, s.docs[d])>> : d \in DOMAIN s.docs \ s.route}
LayoutChanges(s) == {<<TreeCommand(s.tree, v)>> : v \in Vals}
RouteChanges(s) == {<<RouteCommand(s.route, r)>> : r \in SUBSET DOMAIN s.docs}

\* Undo swaps the patches; a document that comes back starts at revision 1.
UndoCommand(c) ==
  CASE c.kind \in {"content", "meta", "tree", "route"} -> [c EXCEPT !.from = c.to, !.to = c.from]
    [] c.kind = "add"    -> RemoveCommand(c.doc, c.value)
    [] c.kind = "remove" -> AddCommand(c.doc, [c.value EXCEPT !.contentRev = 1, !.metaRev = 1])

Undo(cs) == Reverse([n \in DOMAIN cs |-> UndoCommand(cs[n])])

Intents(s, shape) ==
  CASE shape = "edit"       -> Edits(s)
    [] shape = "editTwice"  -> RepeatedEdits(s)
    [] shape = "rename"     -> Renames(s)
    [] shape = "renameEdit" -> RenamesWithEdit(s)
    [] shape = "add"        -> Additions(s)
    [] shape = "remove"     -> Removals(s)
    [] shape = "layout"     -> LayoutChanges(s)
    [] shape = "route"      -> RouteChanges(s)
=============================================================================
