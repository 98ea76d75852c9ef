------------------------- MODULE CommitPlanner_proofs -------------------------
(***************************************************************************)
(* Lemmas about the operators of CommitKernel and CommitPlanner, for any    *)
(* documents, fields, values and paths: what applying a list of commands    *)
(* does, and that the vector a client plans is the one the server derives.  *)
(*                                                                         *)
(* The states of an operation are defined by recursion on the number of     *)
(* commands that have been applied.  What is said of them by induction is   *)
(* proved from the least number of commands after which it would fail.      *)
(***************************************************************************)
EXTENDS CommitPlanner, SequenceTheorems, WellFoundedInduction, TLAPS

\* A set of natural numbers has a least one.
LEMMA LeastNumber ==
  ASSUME NEW T, T \subseteq Nat, T # {}
  PROVE  \E x \in T : \A y \in T : x <= y
<1> DEFINE R == {ss \in Nat \X Nat : ss[1] < ss[2]}
<1>1. IsWellFoundedOn(R, Nat)
  BY NatLessThanWellFounded DEF OpToRel
<1>2. \A x, y \in T : x < y => <<x, y>> \in R
  OBVIOUS
<1> HIDE DEF R
<1>3. PICK x \in T : \A y \in T : ~ (<<y, x>> \in R)
  BY <1>1, WFMin
<1>4. \A y \in T : ~(y < x)
  BY <1>2, <1>3
<1> QED BY <1>4

-----------------------------------------------------------------------------
(* The states of an operation *)

\* g holds the states up to the one after k commands.
Runs(g, s, cs, k) ==
  g = [n \in 0..k |-> IF n = 0 THEN s ELSE Patched(g[n - 1], cs[n])]

\* The states after no command.
LEMMA RunsStart == ASSUME NEW s, NEW cs PROVE \E g : Runs(g, s, cs, 0)
<1> DEFINE g == [n \in 0..0 |-> s]
<1>1. \A n \in 0..0 : n = 0
  OBVIOUS
<1>2. [n \in 0..0 |-> s] = [n \in 0..0 |-> IF n = 0 THEN s ELSE Patched(g[n - 1], cs[n])]
  BY <1>1
<1> QED BY <1>2 DEF Runs

\* The states after one command more.
LEMMA RunsStep ==
  ASSUME NEW s, NEW cs, NEW k \in Nat \ {0}, NEW g, Runs(g, s, cs, k - 1)
  PROVE  \E f : Runs(f, s, cs, k)
<1> DEFINE f == [n \in 0..k |-> IF n = k THEN Patched(g[k - 1], cs[k]) ELSE g[n]]
<1>1. \A n \in 0..k : f[n] = IF n = 0 THEN s ELSE Patched(f[n - 1], cs[n])
  <2> TAKE n \in 0..k
  <2>1. CASE n = k
    BY <2>1
  <2>2. CASE n # k
    <3>1. n \in 0..(k - 1) /\ f[n] = g[n] /\ (n # 0 => f[n - 1] = g[n - 1])
      BY <2>2
    <3>2. g[n] = IF n = 0 THEN s ELSE Patched(g[n - 1], cs[n])
      BY <3>1 DEF Runs
    <3> QED BY <3>1, <3>2
  <2> QED BY <2>1, <2>2
<1>2. f = [n \in 0..k |-> f[n]]
  OBVIOUS
<1> HIDE DEF f
<1>3. Runs(f, s, cs, k)
  BY <1>1, <1>2 DEF Runs
<1> QED BY <1>3

\* The recursion that defines the states has a solution: after no command the
\* state is the first one, after one more it is that of the command applied.
LEMMA StatesUnfold ==
  ASSUME NEW s, NEW cs, Len(cs) \in Nat
  PROVE  /\ States(s, cs)[0] = s
         /\ \A n \in 1..Len(cs) : States(s, cs)[n] = Patched(States(s, cs)[n - 1], cs[n])
<1> DEFINE T == {k \in Nat : ~\E g : Runs(g, s, cs, k)}
<1>1. T \subseteq Nat /\ \A k \in Nat : k \in T <=> ~\E g : Runs(g, s, cs, k)
  OBVIOUS
<1> HIDE DEF T
<1>2. T = {}
  <2> SUFFICES ASSUME T # {} PROVE FALSE
    OBVIOUS
  <2>1. PICK k \in T : \A j \in T : k <= j
    BY <1>1, LeastNumber
  <2>2. k # 0 /\ k \in Nat
    BY <1>1, <2>1, RunsStart
  <2>3. k - 1 \notin T /\ k - 1 \in Nat
    BY <1>1, <2>1, <2>2
  <2> QED BY <1>1, <2>1, <2>2, <2>3, RunsStep
<1>3. \E g : Runs(g, s, cs, Len(cs))
  BY <1>1, <1>2
<1>4. States(s, cs) = CHOOSE g : Runs(g, s, cs, Len(cs))
  BY DEF States, Runs
<1>5. Runs(States(s, cs), s, cs, Len(cs))
  BY <1>3, <1>4
<1>6. \A n \in 0..Len(cs) :
        States(s, cs)[n] = IF n = 0 THEN s ELSE Patched(States(s, cs)[n - 1], cs[n])
  BY <1>5 DEF Runs
<1> QED BY <1>6

\* The kinds of commands there are.
Kinds == {"content", "meta", "add", "remove", "tree", "route"}

\* A list of commands of these kinds.
IsProgram(cs) ==
  /\ Len(cs) \in Nat /\ DOMAIN cs = 1..Len(cs)
  /\ \A n \in DOMAIN cs : cs[n].kind \in Kinds

\* One command adds at most its own document.
LEMMA PatchedDocs ==
  ASSUME NEW s, NEW c, c.kind \in Kinds, "docs" \in DOMAIN s
  PROVE  /\ "docs" \in DOMAIN Patched(s, c)
         /\ \A d \in DOMAIN Patched(s, c).docs :
              d \in DOMAIN s.docs \/ (c.kind = "add" /\ c.doc = d)
<1>1. CASE c.kind = "content"
  BY <1>1 DEF Patched
<1>2. CASE c.kind = "meta"
  BY <1>2 DEF Patched
<1>3. CASE c.kind = "add"
  BY <1>3 DEF Patched, WithDocument
<1>4. CASE c.kind = "remove"
  BY <1>4 DEF Patched, Restrict
<1>5. CASE c.kind = "tree"
  BY <1>5 DEF Patched
<1>6. CASE c.kind = "route"
  BY <1>6 DEF Patched
<1> QED BY <1>1, <1>2, <1>3, <1>4, <1>5, <1>6 DEF Kinds

\* A document that some state of an operation has is one of the first state,
\* or one the operation adds.
LEMMA StatesDocs ==
  ASSUME NEW s, NEW cs, IsProgram(cs), "docs" \in DOMAIN s,
         NEW n \in 0..Len(cs), NEW d \in DOMAIN States(s, cs)[n].docs
  PROVE  d \in DOMAIN s.docs \/ On(cs, {"add"}, d) # {}
<1> DEFINE Fails(k) == \/ "docs" \notin DOMAIN States(s, cs)[k]
                       \/ \E e \in DOMAIN States(s, cs)[k].docs :
                            e \notin DOMAIN s.docs /\ On(cs, {"add"}, e) = {}
           T == {k \in 0..Len(cs) : Fails(k)}
<1>1. Len(cs) \in Nat
  BY DEF IsProgram
<1>2. T \subseteq Nat /\ \A k \in 0..Len(cs) : k \in T <=> Fails(k)
  BY <1>1
<1>3. T \subseteq 0..Len(cs)
  OBVIOUS
<1> HIDE DEF T, Fails
<1>4. T = {}
  <2> SUFFICES ASSUME T # {} PROVE FALSE
    OBVIOUS
  <2>1. PICK k \in T : \A j \in T : k <= j
    BY <1>2, LeastNumber
  <2>2. k \in 0..Len(cs) /\ Fails(k)
    BY <1>2, <1>3
  <2>3. CASE k = 0
    <3>1. States(s, cs)[0] = s
      BY <1>1, StatesUnfold
    <3> QED BY <2>2, <2>3, <3>1 DEF Fails
  <2>4. CASE k # 0
    <3>1. k \in 1..Len(cs) /\ k - 1 \in 0..Len(cs) /\ ~(k <= k - 1)
      BY <1>1, <2>2, <2>4
    <3>2. ~Fails(k - 1)
      BY <1>2, <2>1, <3>1
    <3> DEFINE old == States(s, cs)[k - 1]
               c == cs[k]
    <3>3. States(s, cs)[k] = Patched(old, c)
      BY <1>1, <3>1, StatesUnfold
    <3>4. "docs" \in DOMAIN old
          /\ \A e \in DOMAIN old.docs : e \in DOMAIN s.docs \/ On(cs, {"add"}, e) # {}
      BY <3>2 DEF Fails
    <3>5. c.kind \in Kinds /\ c \in Range(cs)
      BY <3>1 DEF IsProgram, Range
    <3>6. c.kind = "add" => On(cs, {"add"}, c.doc) # {}
      BY <3>5 DEF On
    <3> HIDE DEF old, c
    <3>7. ~Fails(k)
      <4>1. "docs" \in DOMAIN Patched(old, c)
            /\ \A e \in DOMAIN Patched(old, c).docs :
                 e \in DOMAIN old.docs \/ (c.kind = "add" /\ c.doc = e)
        BY <3>4, <3>5, PatchedDocs
      <4> QED BY <3>3, <3>4, <3>6, <4>1 DEF Fails
    <3> QED BY <2>2, <3>7
  <2> QED BY <2>3, <2>4
<1> QED BY <1>2, <1>4 DEF Fails

\* A document that an operation reads or writes, and does not add, is one of
\* the state it applies to.
LEMMA TargetsExist ==
  ASSUME NEW s, NEW cs, IsProgram(cs), "docs" \in DOMAIN s, EveryCommandReverses(s, cs),
         NEW d, On(cs, {"content", "meta", "remove"}, d) # {}, On(cs, {"add"}, d) = {}
  PROVE  d \in DOMAIN s.docs
<1>1. PICK n \in DOMAIN cs : cs[n].kind \in {"content", "meta", "remove"} /\ cs[n].doc = d
  BY DEF On, Range
<1>2. n \in 1..Len(cs) /\ n - 1 \in 0..Len(cs)
  BY <1>1 DEF IsProgram
<1>3. ReverseRestores(States(s, cs)[n - 1], cs[n])
  BY <1>1 DEF EveryCommandReverses
<1>4. d \in DOMAIN States(s, cs)[n - 1].docs
  BY <1>1, <1>3 DEF ReverseRestores, ReversePatchRestores
<1> QED BY <1>2, <1>4, StatesDocs

-----------------------------------------------------------------------------
(* The expected vector *)

\* The vector a client reads off its snapshot is the one the server derives
\* from the commands (collectCommandWriteSet, analyzeWorkspaceOperationRequirements).
LEMMA PlannedIsWellFormed ==
  ASSUME NEW s, NEW cs, NEW id, IsProgram(cs), "docs" \in DOMAIN s,
         \A d \in DOMAIN s.docs : s.docs[d].contentRev \in Nat \ {0} /\ s.docs[d].metaRev \in Nat \ {0},
         s.workspaceRev \in Nat \ {0}, s.routeRev \in Nat \ {0}, Plannable(s, cs)
  PROVE  WellFormed(OperationRequest(id, s, cs))
<1> DEFINE req == Requirements(cs)
           e == Expected(s, cs)
<1>1. \A c \in Range(cs) : c.kind \in Kinds
  BY DEF IsProgram, Range
<1>2. StructureFits(s, cs) /\ EveryCommandReverses(s, cs)
  BY DEF Plannable
<1>3. (e.workspaceRev # Omitted) = req.workspace
  BY <1>1 DEF Expected, WriteSet, Requirements, Omitted, Kinds
<1>4. (e.routeRev # Omitted) = req.route
  BY DEF Expected, WriteSet, Requirements, Omitted
<1>5. DOMAIN e.docs = TargetDocs(cs) /\ DOMAIN req.docs = TargetDocs(cs)
  BY DEF Expected, WriteSet, Requirements
<1>6. ASSUME NEW d \in TargetDocs(cs)
      PROVE  LET x == e.docs[d] IN
             IF req.docs[d].absent
             THEN x.contentRev = Absent /\ x.metaRev = Absent
             ELSE /\ (x.contentRev >= 1) = req.docs[d].content
                  /\ (x.metaRev >= 1) = req.docs[d].meta
                  /\ x.contentRev # Absent /\ x.metaRev # Absent
  <2> DEFINE write == [content  |-> On(cs, {"content", "add", "remove"}, d) # {},
                       metadata |-> On(cs, {"meta", "add", "remove"}, d) # {}]
             x == e.docs[d]
  <2>1. x = Expectation(s, d, write)
    BY DEF Expected, WriteSet, MetadataWrites
  <2>2. /\ x.contentRev = IF ~write.content THEN Omitted
                          ELSE IF d \in DOMAIN s.docs THEN s.docs[d].contentRev ELSE Absent
        /\ x.metaRev = IF ~write.metadata THEN Omitted
                       ELSE IF d \in DOMAIN s.docs THEN s.docs[d].metaRev ELSE Absent
    BY <2>1 DEF Expectation
  <2>3. /\ req.docs[d].absent = (On(cs, {"add"}, d) # {})
        /\ req.docs[d].content = (On(cs, {"content", "remove"}, d) # {})
        /\ req.docs[d].meta = (On(cs, {"meta", "remove"}, d) # {})
    BY DEF Requirements
  <2>4. CASE On(cs, {"add"}, d) # {}
    <3>1. d \notin DOMAIN s.docs
      BY <1>2, <2>4 DEF On, StructureFits
    <3>2. write.content /\ write.metadata
      BY <2>4 DEF On
    <3> QED BY <2>2, <2>3, <2>4, <3>1, <3>2
  <2>5. CASE On(cs, {"add"}, d) = {}
    <3>1. /\ write.content <=> On(cs, {"content", "remove"}, d) # {}
          /\ write.metadata <=> On(cs, {"meta", "remove"}, d) # {}
      BY <2>5 DEF On
    <3>2. write.content \/ write.metadata => On(cs, {"content", "meta", "remove"}, d) # {}
      BY <3>1 DEF On
    <3>3. write.content \/ write.metadata => d \in DOMAIN s.docs
      BY <1>2, <2>5, <3>2, TargetsExist
    <3> HIDE DEF write, x, req
    <3>4. d \in DOMAIN s.docs =>
            s.docs[d].contentRev \in Nat \ {0} /\ s.docs[d].metaRev \in Nat \ {0}
      OBVIOUS
    <3>5. x.contentRev # Absent /\ x.metaRev # Absent
      BY <2>2, <3>3, <3>4 DEF Omitted, Absent
    <3>6. x.contentRev >= 1 <=> write.content
      BY <2>2, <3>3, <3>4 DEF Omitted
    <3>7. x.metaRev >= 1 <=> write.metadata
      BY <2>2, <3>3, <3>4 DEF Omitted
    <3>8. (x.contentRev >= 1) = (On(cs, {"content", "remove"}, d) # {})
      BY <3>1, <3>6
    <3>9. (x.metaRev >= 1) = (On(cs, {"meta", "remove"}, d) # {})
      BY <3>1, <3>7
    <3>10. /\ ~req.docs[d].absent
           /\ (x.contentRev >= 1) = req.docs[d].content
           /\ (x.metaRev >= 1) = req.docs[d].meta
      BY <2>3, <2>5, <3>8, <3>9
    <3> QED BY <3>5, <3>10 DEF x
  <2> QED BY <2>4, <2>5
<1>7. ExpectedMatches(e, req)
  BY <1>3, <1>4, <1>5, <1>6 DEF ExpectedMatches
<1> QED BY <1>2, <1>7 DEF WellFormed, OperationRequest, StructureFits

-----------------------------------------------------------------------------
(* What clients plan *)

\* One command is a list of commands.
LEMMA OneCommand == ASSUME NEW c, c.kind \in Kinds PROVE IsProgram(<<c>>)
<1>1. Len(<<c>>) = 1 /\ DOMAIN <<c>> = 1..1 /\ <<c>>[1] = c
  OBVIOUS
<1> QED BY <1>1 DEF IsProgram

\* Two commands are a list of commands.
LEMMA TwoCommands ==
  ASSUME NEW c, NEW e, c.kind \in Kinds, e.kind \in Kinds PROVE IsProgram(<<c, e>>)
<1>1. Len(<<c, e>>) = 2 /\ DOMAIN <<c, e>> = 1..2 /\ <<c, e>>[1] = c /\ <<c, e>>[2] = e
  OBVIOUS
<1>2. \A n \in 1..2 : n = 1 \/ n = 2
  OBVIOUS
<1> QED BY <1>1, <1>2 DEF IsProgram

\* The operations the editors plan, except undo.
PlannedShapes == {"edit", "editTwice", "rename", "renameEdit", "add", "remove", "layout", "route"}

\* What the editors plan are commands of the kinds there are.
LEMMA IntentIsProgram ==
  ASSUME NEW s, NEW shape \in PlannedShapes, NEW cs \in Intents(s, shape)
  PROVE  IsProgram(cs)
<1>1. /\ \A d, f, a, b : ContentCommand(d, f, a, b).kind \in Kinds
      /\ \A d, a, b : MetaCommand(d, a, b).kind \in Kinds
      /\ \A d, a : AddCommand(d, a).kind \in Kinds
      /\ \A d, a : RemoveCommand(d, a).kind \in Kinds
      /\ \A a, b : TreeCommand(a, b).kind \in Kinds
      /\ \A a, b : RouteCommand(a, b).kind \in Kinds
  BY DEF Kinds, ContentCommand, MetaCommand, AddCommand, RemoveCommand, TreeCommand, RouteCommand
<1>2. CASE shape = "edit"
  <2>1. PICK d, f, v : cs = <<Edit(s, d, f, v)>>
    BY <1>2 DEF Intents, Edits
  <2> QED BY <1>1, <2>1, OneCommand DEF Edit
<1>3. CASE shape = "editTwice"
  <2>1. PICK d, f, v, w : cs = <<Edit(s, d, f, v), ContentCommand(d, f, v, w)>>
    BY <1>3 DEF Intents, RepeatedEdits
  <2> QED BY <1>1, <2>1, TwoCommands DEF Edit
<1>4. CASE shape = "rename"
  <2>1. PICK d, p : cs = <<MetaCommand(d, s.docs[d].meta, p)>>
    BY <1>4 DEF Intents, Renames
  <2> QED BY <1>1, <2>1, OneCommand
<1>5. CASE shape = "renameEdit"
  <2>1. PICK d, e, p, f, v : cs = <<MetaCommand(d, s.docs[d].meta, p), Edit(s, e, f, v)>>
    BY <1>5 DEF Intents, RenamesWithEdit
  <2> QED BY <1>1, <2>1, TwoCommands DEF Edit
<1>6. CASE shape = "add"
  <2>1. PICK d, p, v : cs = <<AddCommand(d, NewDocument(p, v))>>
    BY <1>6 DEF Intents, Additions
  <2> QED BY <1>1, <2>1, OneCommand
<1>7. CASE shape = "remove"
  <2>1. PICK d : \/ cs = <<RouteCommand(s.route, s.route \ {d}), RemoveCommand(d, s.docs[d])>>
                 \/ cs = <<RemoveCommand(d, s.docs[d])>>
    BY <1>7 DEF Intents, Removals
  <2> QED BY <1>1, <2>1, OneCommand, TwoCommands
<1>8. CASE shape = "layout"
  <2>1. PICK v : cs = <<TreeCommand(s.tree, v)>>
    BY <1>8 DEF Intents, LayoutChanges
  <2> QED BY <1>1, <2>1, OneCommand
<1>9. CASE shape = "route"
  <2>1. PICK r : cs = <<RouteCommand(s.route, r)>>
    BY <1>9 DEF Intents, RouteChanges
  <2> QED BY <1>1, <2>1, OneCommand
<1> QED BY <1>2, <1>3, <1>4, <1>5, <1>6, <1>7, <1>8, <1>9 DEF PlannedShapes

\* The length of a sequence given by its elements.
LEMMA LengthIs ==
  ASSUME NEW f, NEW n \in Nat, f = [i \in 1..n |-> f[i]]
  PROVE  Len(f) = n
<1> DEFINE S == {f[i] : i \in 1..n}
<1>1. f \in [1..n -> S]
  OBVIOUS
<1> HIDE DEF S
<1>2. f \in Seq(S)
  BY <1>1
<1>3. Len(f) \in Nat /\ DOMAIN f = 1..Len(f)
  BY <1>2, LenProperties
<1> QED BY <1>1, <1>3

\* What undoes commands are commands.
LEMMA UndoIsProgram ==
  ASSUME NEW cs, IsProgram(cs)
  PROVE  IsProgram(Undo(cs))
<1> DEFINE back == [n \in DOMAIN cs |-> UndoCommand(cs[n])]
           L == Len(cs)
<1>1. L \in Nat /\ DOMAIN cs = 1..L
  BY DEF IsProgram
<1>2. ASSUME NEW c, c.kind \in Kinds PROVE UndoCommand(c).kind \in Kinds
  <2>1. CASE c.kind \in {"content", "meta", "tree", "route"}
    BY <1>2, <2>1 DEF UndoCommand
  <2>2. CASE c.kind = "add"
    BY <2>2 DEF UndoCommand, RemoveCommand, Kinds
  <2>3. CASE c.kind = "remove"
    BY <2>3 DEF UndoCommand, AddCommand, Kinds
  <2> QED BY <1>2, <2>1, <2>2, <2>3 DEF Kinds
<1>3. \A n \in 1..L : back[n].kind \in Kinds
  BY <1>1, <1>2 DEF IsProgram
<1>4. back = [i \in 1..L |-> back[i]]
  BY <1>1
<1> HIDE DEF back
<1>5. Len(back) = L
  BY <1>1, <1>4, LengthIs
<1> DEFINE u == Undo(cs)
<1>6. u = [i \in 1..L |-> back[(L - i) + 1]]
  BY <1>5 DEF Undo, Reverse, back
<1>7. \A i \in 1..L : (L - i) + 1 \in 1..L
  BY <1>1
<1> HIDE DEF u, L
<1>8. u = [i \in 1..L |-> u[i]] /\ DOMAIN u = 1..L /\ \A i \in 1..L : u[i].kind \in Kinds
  BY <1>3, <1>6, <1>7
<1>9. Len(u) = L
  BY <1>1, <1>8, LengthIs
<1> QED BY <1>1, <1>8, <1>9 DEF IsProgram, u
=============================================================================
