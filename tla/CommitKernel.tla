---------------------------- MODULE CommitKernel ----------------------------
(***************************************************************************)
(* The pure part of the Atomic WorkspaceOperation Commit: what an operation *)
(* writes, which revision partitions it must declare, what applying it      *)
(* does to a workspace, and how the revision counters move.                 *)
(*                                                                          *)
(* A workspace is its VFS tree layout, its route manifest (the documents    *)
(* the manifest refers to), its documents, and the counters of its          *)
(* partitions.  A document is a content (fields with values), metadata (its *)
(* path) and one counter for each.  A JSON patch is the one field it        *)
(* replaces: `to` is what the forward op writes, `from` what the reverse op *)
(* puts back.                                                               *)
(***************************************************************************)
EXTENDS Integers, FiniteSets, SequencesExt

CONSTANTS
  DocIds,      \* document identities
  Fields,      \* the fields of a document's content
  Vals,        \* values of a field, of the tree layout, of the settings
  Paths,       \* VFS paths: the metadata partition of a document
  MaxRev       \* maxJSONSafeInteger: the largest value of any counter

ASSUME MaxRevAssumption == MaxRev \in Nat /\ MaxRev >= 1

Rev == 1..MaxRev

Document == [content : [Fields -> Vals], meta : Paths,
             contentRev : Rev, metaRev : Rev]

\* The documents of a workspace; there is always one.
DocumentMaps == UNION {[D -> Document] : D \in (SUBSET DocIds) \ {{}}}

-----------------------------------------------------------------------------
(* Operations *)

\* A value of an expected vector: a revision, Omitted (the partition is not
\* in the vector) or Absent (an explicit null: the document must not exist).
Omitted == 0
Absent == -1

ContentCommand(d, f, from, to) ==
  [kind |-> "content", doc |-> d, field |-> f, from |-> from, to |-> to]
MetaCommand(d, from, to) == [kind |-> "meta", doc |-> d, from |-> from, to |-> to]
AddCommand(d, value) == [kind |-> "add", doc |-> d, value |-> value]
RemoveCommand(d, value) == [kind |-> "remove", doc |-> d, value |-> value]
TreeCommand(from, to) == [kind |-> "tree", from |-> from, to |-> to]
RouteCommand(from, to) == [kind |-> "route", from |-> from, to |-> to]

\* The commands of cs of one of the kinds that name document d.
On(cs, kinds, d) == {c \in Range(cs) : c.kind \in kinds /\ c.doc = d}

TargetDocs(cs) ==
  {c.doc : c \in {x \in Range(cs) : x.kind \in {"content", "meta", "add", "remove"}}}

(* The partitions an operation reads or writes.  Every command without a    *)
(* document target is guarded by the workspace revision.                    *)
Requirements(cs) ==
  [workspace |-> \E c \in Range(cs) : c.kind # "content",
   route     |-> \E c \in Range(cs) : c.kind = "route",
   docs      |-> [d \in TargetDocs(cs) |->
                    [content |-> On(cs, {"content", "remove"}, d) # {},
                     meta    |-> On(cs, {"meta", "remove"}, d) # {},
                     absent  |-> On(cs, {"add"}, d) # {}]]]

\* A document added or removed by an operation is touched by nothing else in it.
OneStructuralChange(cs) ==
  \A i, j \in DOMAIN cs :
    /\ i # j
    /\ cs[i].kind \in {"add", "remove"}
    /\ cs[j].kind \in {"content", "meta", "add", "remove"}
    => cs[i].doc # cs[j].doc

AddsAreNew(cs) ==
  \A c \in Range(cs) : c.kind = "add" => c.value.contentRev = 1 /\ c.value.metaRev = 1

(* The expected vector must name exactly the required partitions.           *)
ExpectedMatches(expected, req) ==
  /\ (expected.workspaceRev # Omitted) = req.workspace
  /\ (expected.routeRev # Omitted) = req.route
  /\ DOMAIN expected.docs = DOMAIN req.docs
  /\ \A d \in DOMAIN req.docs :
       LET e == expected.docs[d] IN
       IF req.docs[d].absent
       THEN e.contentRev = Absent /\ e.metaRev = Absent
       ELSE /\ (e.contentRev >= 1) = req.docs[d].content
            /\ (e.metaRev >= 1) = req.docs[d].meta
            /\ e.contentRev # Absent /\ e.metaRev # Absent

WellFormed(r) ==
  /\ OneStructuralChange(r.commands)
  /\ AddsAreNew(r.commands)
  /\ ExpectedMatches(r.expected, Requirements(r.commands))

-----------------------------------------------------------------------------
(* Applying an operation to a transaction-private state *)

\* Mutated form: the reverse ops of a content patch are not tried.
ReversePatchExists(s, c) == c.doc \in DOMAIN s.docs

\* The reverse patch of a content command puts back the content of state s.
ReversePatchRestores(s, c) ==
  /\ c.doc \in DOMAIN s.docs
  /\ s.docs[c.doc].content[c.field] = c.from

\* The reverse ops of command c, run after its forward ops, restore state s.
ReverseRestores(s, c) ==
  CASE c.kind = "content" -> ReversePatchRestores(s, c)
    [] c.kind = "meta"    -> /\ c.doc \in DOMAIN s.docs
                             /\ s.docs[c.doc].meta = c.from
    [] c.kind = "add"     -> c.doc \notin DOMAIN s.docs
    [] c.kind = "remove"  -> /\ c.doc \in DOMAIN s.docs
                             /\ s.docs[c.doc] = c.value
    [] c.kind = "tree"    -> s.tree = c.from
    [] c.kind = "route"   -> s.route = c.from

WithDocument(docs, d, value) ==
  [e \in DOMAIN docs \cup {d} |-> IF e = d THEN value ELSE docs[e]]

Patched(s, c) ==
  CASE c.kind = "content" -> [s EXCEPT !.docs[c.doc].content[c.field] = c.to]
    [] c.kind = "meta"    -> [s EXCEPT !.docs[c.doc].meta = c.to]
    [] c.kind = "add"     -> [s EXCEPT !.docs = WithDocument(s.docs, c.doc, c.value)]
    [] c.kind = "remove"  -> [s EXCEPT !.docs = Restrict(s.docs, DOMAIN s.docs \ {c.doc})]
    [] c.kind = "tree"    -> [s EXCEPT !.tree = c.to]
    [] c.kind = "route"   -> [s EXCEPT !.route = c.to]

\* The private state before the first command, and after each of them.
States(s, cs) ==
  LET after[n \in 0..Len(cs)] == IF n = 0 THEN s ELSE Patched(after[n - 1], cs[n])
  IN after

Applied(s, cs) == States(s, cs)[Len(cs)]

EveryCommandReverses(s, cs) ==
  LET states == States(s, cs)
  IN \A n \in DOMAIN cs : ReverseRestores(states[n - 1], cs[n])

(* The validation of a whole state: document identities, contents, paths    *)
(* and revisions, the tree, and the documents the route manifest names.     *)
ValidState(s) ==
  /\ s.docs \in DocumentMaps
  /\ \A d, e \in DOMAIN s.docs : s.docs[d].meta = s.docs[e].meta => d = e
  /\ s.tree \in Vals
  /\ s.route \subseteq DOMAIN s.docs

-----------------------------------------------------------------------------
(* What the change is, and the counters after it *)

\* The revision of a document after the commit: each partition whose value
\* differs advances once, however many commands wrote it.
NextDocument(before, after) ==
  [after EXCEPT
     !.contentRev = before.contentRev + (IF after.content # before.content THEN 1 ELSE 0),
     !.metaRev = before.metaRev + (IF after.meta # before.meta THEN 1 ELSE 0)]

Kept(before, after) == DOMAIN before.docs \cap DOMAIN after.docs

ContentChanged(before, after) ==
  {d \in Kept(before, after) : before.docs[d].content # after.docs[d].content}
MetaChanged(before, after) ==
  {d \in Kept(before, after) : before.docs[d].meta # after.docs[d].meta}
AddedDocs(before, after) == DOMAIN after.docs \ DOMAIN before.docs
RemovedDocs(before, after) == DOMAIN before.docs \ DOMAIN after.docs

\* Whether the workspace revision advances.
StructureChanged(before, after) ==
  \/ before.tree # after.tree
  \/ before.route # after.route
  \/ MetaChanged(before, after) # {}
  \/ DOMAIN before.docs # DOMAIN after.docs

(* What buildWorkspaceCommitChanges finds between two states.               *)
Changes(before, after) ==
  [tree      |-> before.tree # after.tree,
   route     |-> before.route # after.route,
   write     |-> ContentChanged(before, after) \cup MetaChanged(before, after)
                   \cup AddedDocs(before, after),
   delete    |-> RemovedDocs(before, after),
   workspace |-> StructureChanged(before, after)]

\* The documents after the commit, with the counters that are persisted.
NextDocs(before, after) ==
  [d \in DOMAIN after.docs |->
     IF d \in DOMAIN before.docs
     THEN NextDocument(before.docs[d], after.docs[d])
     ELSE after.docs[d]]

\* A document the workspace did not have starts at revision 1.
NewDocsAreFirst(before, after) ==
  \A d \in AddedDocs(before, after) :
    after.docs[d].contentRev = 1 /\ after.docs[d].metaRev = 1

(* Nothing changes outside the partitions the operation declared.           *)
WithinRequirements(before, after, req) ==
  LET declared(d, p) == d \in DOMAIN req.docs /\ req.docs[d][p]
  IN /\ Changes(before, after).workspace => req.workspace
     /\ Changes(before, after).route => req.route
     /\ \A d \in RemovedDocs(before, after) : declared(d, "content") /\ declared(d, "meta")
     /\ \A d \in AddedDocs(before, after) : declared(d, "absent")
     /\ \A d \in ContentChanged(before, after) : declared(d, "content")
     /\ \A d \in MetaChanged(before, after) : declared(d, "meta")

HasDurableDelta(before, after) ==
  LET ch == Changes(before, after)
  IN ch.tree \/ ch.route \/ ch.write # {} \/ ch.delete # {}

\* Mutated form: off by one, a counter at the limit may still advance.
WithinCapacityOffByOne(db, before, after) ==
  LET ch == Changes(before, after)
  IN /\ db.opSeq <= MaxRev
     /\ ch.workspace => db.workspaceRev <= MaxRev
     /\ ch.route => db.routeRev <= MaxRev

(* No counter passes the largest JSON-safe integer.                         *)
WithinCapacity(db, before, after) ==
  LET ch == Changes(before, after)
  IN /\ db.opSeq < MaxRev
     /\ ch.workspace => db.workspaceRev < MaxRev
     /\ ch.route => db.routeRev < MaxRev
     /\ \A d \in ch.write : LET doc == NextDocs(before, after)[d]
                            IN doc.contentRev \in Rev /\ doc.metaRev \in Rev

=============================================================================
