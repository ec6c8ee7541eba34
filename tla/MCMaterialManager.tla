-------------------------- MODULE MCMaterialManager --------------------------
(***************************************************************************)
(* Geometries and call arguments for MaterialManager.  Lengths are in      *)
(* units where MinStep is 2 and StepMax (500 cm in the code) is 8, shorter *)
(* than the thickest layers so that steps limited by it happen.            *)
(* Boundaries lie on multiples of 4 and query points at 2 modulo 4, so     *)
(* that, as with MINSTEP = 1e-5 cm in the code, no step is shorter than    *)
(* MinStep unless a layer is thinner than MinStep.                         *)
(***************************************************************************)
EXTENDS MaterialManager

CONSTANTS W, D1, D2, T, Air, Si, Pb, Cu, NoMaterial, NoPlacement

\* World air, two detector layers between air gaps.
MCBounds == <<0, 12, 24, 36, 48>>
MCLayer  == <<W, D1, W, D2>>

\* The same layers with world edges closer than StepMax to the outermost
\* inner boundaries.
EdgeBounds == <<0, 4, 12, 24, 28>>
EdgePoints == {2, 10, 18, 26}

MCMedium == (W :> Air) @@ (D1 :> Si) @@ (D2 :> Pb) @@ (T :> Cu)

\* Points in every layer, and one outside the world.
MCPoints      == {6, 18, 30, 42}
MCPointsOut   == {-6, 6, 18, 30, 42}
\* Points that keep every walk away from the world edge.
InnerPoints   == {18, 30}
\* The origin lies on the line, inside the world.
OriginInside  == 18
\* The origin is not one of the points callers pass.
OriginElsewhere == 100

\* A layer T thinner than MinStep, then D2 up to the world edge; the start
\* point 24 lies in T and the end point 30 beyond the edge.
NudgeEdgeBounds == <<0, 12, 24, 25, 28>>
NudgeEdgeLayer  == <<W, D1, T, D2>>
NudgeEdgePoints == {18, 24, 30}

\* Density, A, Z, radiation and interaction length of each medium, chosen
\* so that averaging by length and by mass give different results.
MCMatData ==
  (Air :> [rho |-> 1, A |-> 1, Z |-> 1, X |-> 4, lambda |-> 5])
  @@ (Si :> [rho |-> 2, A |-> 2, Z |-> 1, X |-> 1, lambda |-> 3])
  @@ (Pb :> [rho |-> 3, A |-> 1, Z |-> 2, X |-> 2, lambda |-> 1])
  @@ (Cu :> [rho |-> 2, A |-> 3, Z |-> 2, X |-> 3, lambda |-> 2])

MCEpsilons == {0, 7}
\* An epsilon at least MinStep, as the 1e-4 cm callers pass is above
\* MINSTEP = 1e-5 cm.
NudgeEpsilon == {2}
ZeroEpsilon == {0}
=============================================================================
