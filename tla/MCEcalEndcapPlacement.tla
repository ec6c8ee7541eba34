----------------------- MODULE MCEcalEndcapPlacement -----------------------
(***************************************************************************)
(* A 3 x 3 quadrant table, 2 x 2 crystals per SC (ncol = 2), two SC       *)
(* types, three endcap columns, 8-bit unsigned arithmetic.  Every profile *)
(* of entries -2..2, two shapes, two limit boxes and two cutaway lists;   *)
(* centre lists that name every cell, and ones whose first entry fails    *)
(* the assert.                                                             *)
(***************************************************************************)
EXTENDS EcalEndcapPlacement

MCProfValues == -CRDim .. CRDim

\* Rows (lo, hi) per column: a full square, and a shape that is not
\* symmetric in column and row.
MCShapes == {<<1, 3, 1, 3, 1, 3>>, <<1, 1, 1, 3, 2, 3>>}
MCLims == {<<1, 3, 1, 3>>, <<1, 2, 2, 3>>}
\* No cutaway, and one that gives (2,2) type 2 and then type 1 again.
MCCutaways == {<<>>, <<<<2, 2, 2>>, <<3, 3, 2>>, <<2, 2, 1>>>>}

\* EESCCtrs lists the SCs of the shape, column by column; EECRCtrs every
\* crystal cell.  The second of each fails the assert at its first entry.
ShapeCtrs(sh) ==
  FlattenSeq([c \in 1 .. NColumns |->
                [j \in 1 .. sh[2 * c] - sh[2 * c - 1] + 1 |-> <<c, sh[2 * c - 1] + j - 1>>]])
AllCR == <<<<1, 1>>, <<1, 2>>, <<2, 1>>, <<2, 2>>>>
SCCtrsOf(sh) == {ShapeCtrs(sh), <<<<0, 1>>>> \o Tail(ShapeCtrs(sh))}
MCCRCtrs == {AllCR, <<<<1, 3>>>> \o Tail(AllCR)}

MkInputs(profs) ==
  UNION {[scCtrs : SCCtrsOf(sh), crCtrs : MCCRCtrs, prof : profs,
          shape : {sh}, lims : MCLims, cutaway : MCCutaways] : sh \in MCShapes}

MCInputs == MkInputs([1 .. NSCTypes * CRDim -> MCProfValues])
=============================================================================
