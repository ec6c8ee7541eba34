--------------------------- MODULE MaterialManager ---------------------------
(***************************************************************************)
(* DDRec MaterialManager: material and placement queries on a geometry    *)
(* navigator, each caching its last answer.                                *)
(*                                                                         *)
(* The geometry is seen along one line: layer j lies between Bounds[j]   *)
(* and Bounds[j+1] and is filled by the node Layer[j]; outside            *)
(* [Bounds[1], Bounds[Len(Bounds)]] (the world volume) no node is placed. *)
(* Query points are integers inside layers.  The walk of materialsBetween *)
(* is the navigator loop of the code, step by step: steps go to the next  *)
(* boundary where the node changes, or StepMax at most; a step shorter    *)
(* than MinStep is followed by the code's nudge and a second step.        *)
(***************************************************************************)
EXTENDS Integers, Sequences, FiniteSets, SequencesExt, TLC

CONSTANTS
  Bounds,        \* layer boundaries along the line, increasing
  Layer,         \* Layer[j]: the node between Bounds[j] and Bounds[j+1]
  Medium,        \* Medium[n]: the medium (material) of node n
  None,          \* no node: the navigator returns a null TGeoNode*
  NullMaterial,  \* Material(): the default-constructed material handle
  NullPlacement, \* PlacedVolume(): the default-constructed placement handle
  Origin,        \* the point Vector3D() denotes (default _p0, _p1, _pos)
  Points,        \* points callers pass
  Epsilons,      \* epsilon arguments callers pass
  MinStep,       \* MINSTEP
  StepMax,       \* the stepmax argument of FindNextBoundaryAndStep (500)
  MaxTracks,     \* bound on tracks left in the navigator
  MatData        \* MatData[medium]: [rho, A, Z, X (radLength), lambda (intLength)]

Dist(x, y) == IF x >= y THEN x - y ELSE y - x

(***************************************************************************)
(* The navigator (TGeoManager), as far as the walk uses it.                *)
(***************************************************************************)
\* The node of the unit interval entered when leaving y in direction d.
NodeAhead(y, d) ==
  LET lo == IF d = 1 THEN y ELSE y - 1
      js == {j \in 1 .. Len(Layer) : Bounds[j] <= lo /\ lo + 1 <= Bounds[j + 1]}
  IN IF js = {} THEN None ELSE Layer[CHOOSE j \in js : TRUE]

\* FindNode(pos) for a point inside a cell.
NodeAt(y) == NodeAhead(y, 1)

IsOutside(y, d) == NodeAhead(y, d) = None

\* A boundary: a point where the node changes.
IsBoundary(y) == NodeAhead(y, 1) # NodeAhead(y, -1)

\* FindNextBoundaryAndStep(StepMax): the point reached and the node there.
Step(x, d) ==
  LET ks == {k \in 1 .. StepMax : IsBoundary(x + d * k)}
      k  == IF ks = {} THEN StepMax
            ELSE CHOOSE k \in ks : \A j \in ks : k <= j
  IN [pos |-> x + d * k, node |-> NodeAhead(x + d * k, d)]

(***************************************************************************)
(* The while loop of materialsBetween from the current point x in node1,  *)
(* for the call c = [p0, p1, eps, d, tot].  Returns the recorded entries   *)
(* and node1 when the loop ends.                                           *)
(***************************************************************************)
Keep(acc, node, len, eps) ==
  IF len > eps THEN Append(acc, [node |-> node, len |-> len]) ELSE acc

RECURSIVE WalkFrom(_, _, _, _)
WalkFrom(c, x, node1, acc) ==
  IF IsOutside(x, c.d) THEN [acc |-> acc, node1 |-> node1]
  ELSE
    LET s1 == Step(x, c.d)
    IN IF s1.node = None THEN [acc |-> acc, node1 |-> node1]
       ELSE
         LET tiny   == Dist(s1.pos, x) < MinStep
             nudged == s1.pos + c.d * MinStep
             s      == IF tiny THEN Step(nudged, c.d) ELSE s1
             prev   == IF tiny THEN nudged ELSE x
             length == Dist(s1.pos, x)  \* GetStep(), read before the 2nd step
         IN IF Dist(s.pos, c.p0) > c.tot
              THEN [acc |-> Keep(acc, node1, Dist(c.p1, prev), c.eps),
                    node1 |-> node1]
              ELSE WalkFrom(c, s.pos, s.node, Keep(acc, node1, length, c.eps))

\* The computation of materialsBetween for p0 # p1: "throw" when no node is
\* at p0, "crash" when the fallback dereferences a null node1.
Walk(p0, p1, eps) ==
  LET c  == [p0 |-> p0, p1 |-> p1, eps |-> eps,
             d |-> IF p1 > p0 THEN 1 ELSE -1, tot |-> Dist(p0, p1)]
      n1 == NodeAhead(p0, c.d)
      r  == WalkFrom(c, p0, n1, <<>>)
  IN IF n1 = None THEN [outcome |-> "throw"]
     ELSE IF r.acc # <<>> THEN [outcome |-> "ok", list |-> r.acc]
     ELSE IF r.node1 = None THEN [outcome |-> "crash"]
     ELSE [outcome |-> "ok", list |-> <<[node |-> r.node1, len |-> c.tot]>>]

\* Walk over every argument triple callers pass, tabulated once (an
\* explicit function built with :> and @@ rather than a lazy constructor).
RECURSIVE Tabulate(_)
Tabulate(S) ==
  IF S = {} THEN <<>>
  ELSE LET t == CHOOSE t \in S : TRUE
       IN (t :> Walk(t[1], t[2], t[3])) @@ Tabulate(S \ {t})

WalkTable == Tabulate({t \in Points \X Points \X Epsilons : t[1] # t[2]})

(***************************************************************************)
(* createAveragedMaterial(materials).  The sums and quotients of doubles  *)
(* are exact rationals [num, den] in lowest terms (rounding is left out); *)
(* a quotient by zero is the NaN that 0./0. gives.                         *)
(***************************************************************************)
RECURSIVE GCD(_, _)
GCD(a, b) == IF b = 0 THEN a ELSE GCD(b, a % b)

Rat(n, d) == LET g == GCD(n, d) IN [num |-> n \div g, den |-> d \div g]
Zero == Rat(0, 1)
RatAdd(p, q) == Rat(p.num * q.den + q.num * p.den, p.den * q.den)
NaN == [nan |-> TRUE]
RatDiv(p, q) == IF q.num = 0 THEN NaN ELSE Rat(p.num * q.den, p.den * q.num)

\* The loop over the (material, length) pairs: the six running sums.
AveragedSums(materials) ==
  LET add(s, e) ==
        LET mat == MatData[e.medium]
            l   == e.len
        IN [l    |-> RatAdd(s.l, Rat(l, 1)),
            rl   |-> RatAdd(s.rl, Rat(mat.rho * l, 1)),
            rlA  |-> RatAdd(s.rlA, Rat(mat.rho * l, mat.A)),
            rlZA |-> RatAdd(s.rlZA, Rat(mat.rho * l * mat.Z, mat.A)),
            lX   |-> RatAdd(s.lX, Rat(l, mat.X)),
            lLam |-> RatAdd(s.lLam, Rat(l, mat.lambda))]
  IN FoldLeft(add, [k \in {"l", "rl", "rlA", "rlZA", "lX", "lLam"} |-> Zero],
              materials)

\* Mutant: the radiation length is averaged by mass, as the commented-out
\* line of the code would do.
createAveragedMaterialByMass(materials) ==
  LET s   == AveragedSums(materials)
      rlX == FoldLeft(LAMBDA acc, e :
                        RatAdd(acc, Rat(MatData[e.medium].rho * e.len,
                                        MatData[e.medium].X)),
                      Zero, materials)
  IN [rho |-> RatDiv(s.rl, s.l), A |-> RatDiv(s.rl, s.rlA),
      Z |-> RatDiv(s.rlZA, s.rlA), X |-> RatDiv(s.rl, rlX),
      lambda |-> RatDiv(s.l, s.lLam)]

\* The averaged MaterialData (its name, built from the material names and
\* lengths, is left out).
createAveragedMaterial(materials) ==
  LET s == AveragedSums(materials)
  IN [rho |-> RatDiv(s.rl, s.l), A |-> RatDiv(s.rl, s.rlA),
      Z |-> RatDiv(s.rlZA, s.rlA), X |-> RatDiv(s.l, s.lX),
      lambda |-> RatDiv(s.l, s.lLam)]

-----------------------------------------------------------------------------
VARIABLES
  placeV,    \* _placeV (and _mV, its media): entries [node, len]
  p0c, p1c,  \* _p0, _p1: the arguments of the cached walk
  pos,       \* _pos: the argument of the cached point lookup
  m, pv,     \* _m, _pv: the cached material and placement at _pos
  navPoint,  \* the navigator's current point, shared with other users
  tracks,    \* tracks added to the navigator and not cleared
  alive,     \* FALSE once the process has crashed
  result     \* what the last call returned: [op, args, val]

vars == <<placeV, p0c, p1c, pos, m, pv, navPoint, tracks, alive, result>>

\* _mV: the media of the cached placements.
mV == [i \in DOMAIN placeV |-> [medium |-> Medium[placeV[i].node],
                                len |-> placeV[i].len]]

Nodes == {Layer[j] : j \in DOMAIN Layer}

TypeOK ==
  /\ placeV \in Seq([node : Nodes \cup {None}, len : Nat])
  /\ {p0c, p1c, pos} \subseteq Points \cup {Origin}
  /\ m \in {Medium[n] : n \in Nodes} \cup {NullMaterial}
  /\ pv \in Nodes \cup {NullPlacement}
  /\ tracks \in 0 .. MaxTracks
  /\ alive \in BOOLEAN

\* MaterialManager(world): _mV(0), _m(Material()), _p0(), _p1(), _pos().
Init ==
  /\ placeV = <<>>
  /\ p0c = Origin /\ p1c = Origin /\ pos = Origin
  /\ m = NullMaterial
  /\ pv = NullPlacement
  /\ navPoint \in Points
  /\ tracks = 0
  /\ alive = TRUE
  /\ result = [op |-> "none"]

\* Mutant: only _p0 is remembered as the key of the cached walk.
RememberStart(q0, q1) == p0c' = q0 /\ UNCHANGED p1c

\* _p0 = p0; _p1 = p1: the key of the cached walk.
Remember(q0, q1) == p0c' = q0 /\ p1c' = q1

\* materialsBetween(q0, q1, eps), and placementsBetween, which calls it and
\* returns _placeV instead of _mV.
Between(op, q0, q1, eps) ==
  LET w   == WalkTable[<<q0, q1, eps>>]
      ret(l) == IF op = "materials"
                  THEN [i \in DOMAIN l |-> [medium |-> Medium[l[i].node],
                                            len |-> l[i].len]]
                  ELSE l
      args == <<q0, q1, eps>>
  IN /\ alive
     /\ IF q0 = p0c /\ q1 = p1c
          THEN /\ result' = [op |-> op, args |-> args, thrown |-> FALSE, hit |-> TRUE,
                              val |-> ret(placeV)]
               /\ UNCHANGED <<placeV, p0c, p1c, navPoint, tracks, alive>>
        ELSE CASE w.outcome = "throw" ->
                    \* DoBackupState, clear, AddTrack, InitTrack(p0): throw
                    /\ tracks < MaxTracks
                    /\ placeV' = <<>>
                    /\ tracks' = tracks + 1
                    /\ navPoint' = q0
                    /\ result' = [op |-> op, args |-> args, thrown |-> TRUE]
                    /\ UNCHANGED <<p0c, p1c, alive>>
               [] w.outcome = "crash" ->
                    /\ alive' = FALSE
                    /\ result' = [op |-> "crash", args |-> args]
                    /\ UNCHANGED <<placeV, p0c, p1c, navPoint, tracks>>
               [] OTHER ->
                    \* ClearTracks, CleanGarbage, DoRestoreState; cache key
                    /\ placeV' = w.list
                    /\ tracks' = 0
                    /\ Remember(q0, q1)
                    /\ result' = [op |-> op, args |-> args, thrown |-> FALSE,
                                  hit |-> FALSE, val |-> ret(w.list)]
                    /\ UNCHANGED <<navPoint, alive>>
     /\ UNCHANGED <<pos, m, pv>>

\* Mutant: _m is not refreshed with the node found.
RefreshNoMaterial(node, q) == pv' = node /\ pos' = q /\ UNCHANGED m

\* _m = Material(node->GetMedium()); _pv = node; _pos = pos.
Refresh(node, q) == m' = Medium[node] /\ pv' = node /\ pos' = q

\* Mutant: _pv takes the node FindNode returned before the null check.
LookupStoreBeforeCheck(op, q) ==
  LET node == NodeAt(q)
      ret(mat, plc) == IF op = "material" THEN mat ELSE plc
  IN /\ alive
     /\ IF q = pos
          THEN /\ result' = [op |-> op, args |-> <<q>>, thrown |-> FALSE,
                             val |-> ret(m, pv)]
               /\ UNCHANGED <<pos, m, pv, navPoint>>
        ELSE /\ navPoint' = q
             /\ IF node = None
                  THEN /\ result' = [op |-> op, args |-> <<q>>, thrown |-> TRUE]
                       /\ pv' = node
                       /\ UNCHANGED <<pos, m>>
                  ELSE /\ Refresh(node, q)
                       /\ result' = [op |-> op, args |-> <<q>>, thrown |-> FALSE,
                                     val |-> ret(Medium[node], node)]
     /\ UNCHANGED <<placeV, p0c, p1c, tracks, alive>>

\* materialAt(q) and placementAt(q): FindNode(q) unless q = _pos; both
\* refresh _m, _pv and _pos together.
Lookup(op, q) ==
  LET node == NodeAt(q)
      ret(mat, plc) == IF op = "material" THEN mat ELSE plc
  IN /\ alive
     /\ IF q = pos
          THEN /\ result' = [op |-> op, args |-> <<q>>, thrown |-> FALSE,
                             val |-> ret(m, pv)]
               /\ UNCHANGED <<pos, m, pv, navPoint>>
        ELSE /\ navPoint' = q
             /\ IF node = None
                  THEN /\ result' = [op |-> op, args |-> <<q>>, thrown |-> TRUE]
                       /\ UNCHANGED <<pos, m, pv>>
                  ELSE /\ Refresh(node, q)
                       /\ result' = [op |-> op, args |-> <<q>>, thrown |-> FALSE,
                                     val |-> ret(Medium[node], node)]
     /\ UNCHANGED <<placeV, p0c, p1c, tracks, alive>>

Next ==
  \/ \E op \in {"materials", "placements"}, q0, q1 \in Points, e \in Epsilons :
       q0 # q1 /\ Between(op, q0, q1, e)
  \/ \E op \in {"material", "placement"}, q \in Points : Lookup(op, q)

Spec == Init /\ [][Next]_vars

-----------------------------------------------------------------------------
\* The nodes of the layers the open segment between q0 and q1 passes through.
NodesOn(q0, q1) ==
  LET lo == IF q0 < q1 THEN q0 ELSE q1
      hi == IF q0 < q1 THEN q1 ELSE q0
  IN {NodeAhead(y, 1) : y \in lo .. hi - 1} \ {None}

Media(l) == [i \in DOMAIN l |-> [medium |-> Medium[l[i].node], len |-> l[i].len]]

RECURSIVE SumLen(_)
SumLen(l) == IF l = <<>> THEN 0 ELSE Head(l).len + SumLen(Tail(l))

BetweenCall == result.op \in {"materials", "placements"}
LookupCall  == result.op \in {"material", "placement"}

\* The placements cached by materialsBetween (and returned by
\* placementsBetween) lie on the segment between the cached _p0 and _p1,
\* whatever sequence of walks, cache hits and failed walks led there.
CachedPlacementsOnPath ==
  \A i \in DOMAIN placeV : placeV[i].node \in NodesOn(p0c, p1c)

\* materialAt(q) returns the medium of the node at q and placementAt(q) the
\* node at q, and both throw when no node is at q: the _pos cache shared by
\* the two calls never answers for another point.
LookupMatchesGeometry ==
  LookupCall =>
    LET q == result.args[1]
        n == NodeAt(q)
    IN IF n = None THEN result.thrown
       ELSE ~result.thrown /\ result.val = IF result.op = "material" THEN Medium[n] ELSE n

\* A list returned by materialsBetween(q0, q1, eps) or placementsBetween is
\* the walk of q0 to q1 with threshold eps, whether it comes from the cache
\* or from a new walk.
BetweenMatchesWalk ==
  (BetweenCall /\ ~result.thrown) =>
    LET w == WalkTable[result.args]
    IN /\ w.outcome = "ok"
       /\ result.val = IF result.op = "materials" THEN Media(w.list) ELSE w.list

\* With epsilon 0 nothing is too thin to keep, so the lengths returned for a
\* path that ends inside the world add up to the distance travelled (the
\* loop cuts the last step at the end point, "if we travelled too far").
PathLengthCovered ==
  (BetweenCall /\ ~result.thrown /\ result.args[3] = 0
     /\ NodeAt(result.args[2]) # None)
    => SumLen(result.val) = Dist(result.args[1], result.args[2])

\* materialsBetween never dereferences a null node: when no step was kept,
\* the fallback for an empty list ("protect against empty list") records
\* node1, the node the loop ended in, and that node must exist.  The nudge
\* after a step shorter than MINSTEP takes a second step whose node is not
\* tested before it becomes node1.
NoNullDereference == alive

(***************************************************************************)
(* Reference: the mixture of the layers a segment crosses, each weighted  *)
(* by the length of the segment inside it: density by length, A and Z/A  *)
(* by mass, radiation and interaction lengths harmonically by length.     *)
(***************************************************************************)
Overlap(q0, q1, j) ==
  LET lo == IF q0 < q1 THEN q0 ELSE q1
      hi == IF q0 < q1 THEN q1 ELSE q0
      a  == IF lo > Bounds[j] THEN lo ELSE Bounds[j]
      b  == IF hi < Bounds[j + 1] THEN hi ELSE Bounds[j + 1]
  IN IF b > a THEN b - a ELSE 0

LayerSum(F(_)) == FoldLeft(RatAdd, Zero, [j \in DOMAIN Layer |-> F(j)])

LayerMixture(q0, q1) ==
  LET l(j) == Overlap(q0, q1, j)
      mat(j) == MatData[Medium[Layer[j]]]
      len   == LayerSum(LAMBDA j : Rat(l(j), 1))
      mass  == LayerSum(LAMBDA j : Rat(mat(j).rho * l(j), 1))
      moles == LayerSum(LAMBDA j : Rat(mat(j).rho * l(j), mat(j).A))
      charge == LayerSum(LAMBDA j : Rat(mat(j).rho * l(j) * mat(j).Z, mat(j).A))
      x0s   == LayerSum(LAMBDA j : Rat(l(j), mat(j).X))
      lams  == LayerSum(LAMBDA j : Rat(l(j), mat(j).lambda))
  IN [rho |-> RatDiv(mass, len), A |-> RatDiv(mass, moles),
      Z |-> RatDiv(charge, moles), X |-> RatDiv(len, x0s),
      lambda |-> RatDiv(len, lams)]

\* createAveragedMaterial of the list a materialsBetween(p0, p1, 0) call
\* walks (not a cache hit), for an end point inside the world, is the
\* mixture of the layers between p0 and p1: however the walk cuts the path
\* into steps (at boundaries, at StepMax, at the end point), it records the
\* right length in each medium, never an empty list (0/0 in the averages),
\* and the averaging weighs the steps as the mixture rules do.
AveragedMaterialMatchesLayers ==
  (result.op = "materials" /\ ~result.thrown /\ ~result.hit
     /\ result.args[3] = 0 /\ NodeAt(result.args[2]) # None)
    => createAveragedMaterial(result.val)
         = LayerMixture(result.args[1], result.args[2])

=============================================================================
