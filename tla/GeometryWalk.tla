---------------------------- MODULE GeometryWalk ----------------------------
(***************************************************************************)
(* The GeometryWalker plugin (GeometryWalk::run).  For each argument      *)
(* argv[1..] it drops the first character; "all", "All" or "ALL" walks    *)
(* every child of the world and returns at once, any other name builds a  *)
(* GeometryWalk on description.detector(name), whose constructor throws   *)
(* when the handle is invalid and otherwise walks the element tree:       *)
(* print the element, then walk its children, which DetElement::Children *)
(* (a std::map) yields in name order.  The volume IDs collected on the    *)
(* way are never printed (print ignores child_ids) and are left out.      *)
(*                                                                         *)
(* The detector tree is a parent function over Elements, every tree of    *)
(* them is checked.  description.detector(name) is valid for the          *)
(* subdetectors, the children of the world.  An empty argument makes      *)
(* argv[in]+1 point past its terminator: the name read is whatever the    *)
(* following bytes hold, any name or Garbage.                             *)
(***************************************************************************)
EXTENDS Integers, Sequences, SequencesExt, Relation

CONSTANTS
  World,       \* description.world()
  Elements,    \* the other detector elements, by name
  NameOrder,   \* Elements as a sequence in the order of their names
  ArgVectors,  \* the argv vectors run() is called with (argv[0] included)
  EmptyArg,    \* the argument ""
  Garbage      \* a name no element has

VARIABLES
  tree,     \* element -> parent
  argv,
  in,       \* the loop index
  names,    \* the names read so far
  out,      \* the elements printed, in order
  result    \* "running", "returned" (return 1) or "threw"

vars == <<tree, argv, in, names, out, result>>

AllNames == {"all", "All", "ALL"}

\* The trees: every element reaches the world through its parents.
Trees ==
  LET Nodes == Elements \cup {World}
      Up(t) == [x, y \in Nodes |-> x \in Elements /\ t[x] = y]
  IN {t \in [Elements -> Nodes] :
        \A e \in Elements : TransitiveClosure(Up(t), Nodes)[e, World]}

\* DetElement::children(): the children of e in name order.
Children(t, e) == SelectSeq(NameOrder, LAMBDA x : t[x] = e)

\* Mutant: each element is printed after its children.
RECURSIVE WalkPostorder(_, _)
WalkPostorder(t, e) ==
  LET ch == Children(t, e)
  IN FlattenSeq([k \in 1 .. Len(ch) |-> WalkPostorder(t, ch[k])]) \o <<e>>

\* GeometryWalk::walk(e, ids): print(e), then walk every child.
RECURSIVE walk(_, _)
walk(t, e) ==
  LET ch == Children(t, e)
  IN <<e>> \o FlattenSeq([k \in 1 .. Len(ch) |-> walk(t, ch[k])])

\* Mutant: the world itself is walked, and printed.
WalkWorldFromRoot(t) == walk(t, World)

\* The "all" branch: a GeometryWalk on every child of the world.
WalkWorld(t) ==
  LET ch == Children(t, World)
  IN FlattenSeq([k \in 1 .. Len(ch) |-> walk(t, ch[k])])

Subdetectors(t) == {e \in Elements : t[e] = World}

\* The names std::string name = argv[in]+1 can hold.
NameOf(a) ==
  IF a = EmptyArg THEN Elements \cup AllNames \cup {Garbage} ELSE {a}

TypeOK ==
  /\ tree \in Trees
  /\ argv \in ArgVectors
  /\ in \in 2 .. Len(argv) + 1
  /\ names \in Seq(Elements \cup AllNames \cup {Garbage})
  /\ out \in Seq(Elements)
  /\ result \in {"running", "returned", "threw"}

Init ==
  /\ tree \in Trees
  /\ argv \in ArgVectors
  /\ in = 2           \* for (int in = 1; ...): argv[0] is skipped
  /\ names = <<>>
  /\ out = <<>>
  /\ result = "running"

\* An "all" argument: walk every subdetector and return 1.
ProcessAll(name) ==
  /\ name \in AllNames
  /\ out' = out \o WalkWorld(tree)
  /\ result' = "returned"
  /\ UNCHANGED in

\* A subdetector: construct GeometryWalk, which walks it.
ProcessSubdetector(name) ==
  /\ name \in Subdetectors(tree)
  /\ out' = out \o walk(tree, name)
  /\ in' = in + 1
  /\ UNCHANGED result

\* Any other name: detector(name) is invalid and the constructor throws
\* out of run().
ProcessUnknown(name) ==
  /\ name \notin AllNames \cup Subdetectors(tree)
  /\ result' = "threw"
  /\ UNCHANGED <<in, out>>

\* One iteration of the loop over argv[1..argc-1].
Process ==
  /\ result = "running" /\ 2 <= in /\ in <= Len(argv)
  /\ \E name \in NameOf(argv[in]) :
       /\ names' = Append(names, name)
       /\ \/ ProcessAll(name)
          \/ ProcessSubdetector(name)
          \/ ProcessUnknown(name)
  /\ UNCHANGED <<tree, argv>>

\* The loop ends: return 1.
Return ==
  /\ result = "running" /\ in = Len(argv) + 1
  /\ result' = "returned"
  /\ UNCHANGED <<tree, argv, in, names, out>>

Next == Process \/ Return

Spec == Init /\ [][Next]_vars

-----------------------------------------------------------------------------
(***************************************************************************)
(* Reference: the elements under r (r included), from the transitive     *)
(* closure of the parent relation.                                         *)
(***************************************************************************)
Subtrees(t) ==
  LET Nodes == Elements \cup {World}
      Up == [x, y \in Nodes |-> x \in Elements /\ t[x] = y]
      tc == TransitiveClosure(Up, Nodes)
  IN [r \in Elements |-> {x \in Elements : x = r \/ tc[x, r]}]

NamePos(e) == SelectInSeq(NameOrder, LAMBDA x : x = e)

Plus(a, b) == a + b

\* s lists the subtree of r in depth-first preorder with siblings in name
\* order: every element once, every element followed at once by the rest
\* of its own subtree, and of two siblings the one named first first.
IsPreorder(t, sub, s, r) ==
  /\ Len(s) = Cardinality(sub[r]) /\ ToSet(s) = sub[r]
  /\ s[1] = r
  /\ \A k \in DOMAIN s :
       LET n == Cardinality(sub[s[k]])
       IN k + n - 1 <= Len(s) /\ {s[j] : j \in k .. k + n - 1} = sub[s[k]]
  /\ \A j, k \in DOMAIN s :
       (t[s[j]] = t[s[k]] /\ NamePos(s[j]) < NamePos(s[k]))
         => j < k

\* What run() printed is, argument by argument, the preorder walk of each
\* subdetector named (of every subdetector in name order for "all"): the
\* constructor's walk() and the map order of DetElement::children().
OutputIsPreorderWalks ==
  LET Walked == [k \in DOMAIN names |->
                   IF names[k] \in AllNames THEN Children(tree, World)
                   ELSE IF names[k] \in Subdetectors(tree) THEN <<names[k]>>
                   ELSE <<>>]
      Roots == FlattenSeq(Walked)
      sub == Subtrees(tree)
      Lens == [k \in DOMAIN Roots |-> Cardinality(sub[Roots[k]])]
      Begin(k) == 1 + FoldLeft(Plus, 0, SubSeq(Lens, 1, k - 1))
  IN /\ Len(out) = FoldLeft(Plus, 0, Lens)
     /\ \A k \in DOMAIN Roots :
          IsPreorder(tree, sub, SubSeq(out, Begin(k), Begin(k) + Lens[k] - 1), Roots[k])
=============================================================================
