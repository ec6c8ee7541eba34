---------------------- MODULE MCCartesianSegmentation ----------------------
(***************************************************************************)
(* A 10-bit CellID: a volume field v, signed 2-bit fields for x, y, z and *)
(* strip, and a free top bit.  The X cell is 4 wide with offset 1, Y and Z *)
(* cells 2 wide with offset 0.                                               *)
(***************************************************************************)
EXTENDS CartesianSegmentation

MCNames == {"v", "x", "y", "z", "strip"}

\* The full layout, and one without z and strip.
FullLayout == <<<<"v", 1>>, <<"x", -2>>, <<"y", -2>>, <<"z", -2>>, <<"strip", -2>>>>
PartLayout == <<<<"v", 1>>, <<"x", -2>>, <<"y", -2>>>>
\* A 2-bit volume field between the axis fields, z below y, and every bit
\* of the word used.
MidLayout  == <<<<"x", -2>>, <<"v", 2>>, <<"z", -2>>, <<"y", -2>>, <<"strip", -2>>>>
MCDescriptions == {FullLayout, PartLayout, MidLayout}

MCGridSize  == [X |-> 4, Y |-> 2, Z |-> 2]
MCOffset    == [X |-> 1, Y |-> 0, Z |-> 0]
\* Per axis: a negative bin, a tie (half a cell, rounded up) and a bin of 2,
\* which a signed 2-bit field cannot hold.
MCPositions == [X |-> {-5, 3, 10}, Y |-> {-1, 1, 4}, Z |-> {-1, 1, 4}]
\* No volume bits, and every bit (the volume field and the free top bit).
MCVolumeIDs == {0, 1023}
MCValues    == {0}
=============================================================================
