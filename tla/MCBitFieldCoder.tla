--------------------------- MODULE MCBitFieldCoder ---------------------------
(***************************************************************************)
(* Model of BitFieldCoder for TLC: a 5-bit CellID (int members 2 bits),    *)
(* two field names, every description of one or two descriptors drawn     *)
(* from DescriptorChoices, and set() values that fall inside, below and    *)
(* above the ranges of fields of width 1 to 3.                             *)
(***************************************************************************)
EXTENDS BitFieldCoder

CONSTANTS a, b

MCNames == {a, b}

\* Two-subfield descriptors with every width from -2 to 3 (0 is the value
\* atol gives a non-numeric width), three-subfield descriptors with explicit
\* starts, and a one-subfield descriptor (malformed).
DescriptorChoices ==
  {<<n, w>> : n \in MCNames, w \in -2 .. 3}
  \cup {<<n, s, w>> : n \in MCNames, s \in {0, 2, 4}, w \in {-2, 1, 2}}
  \cup {<<n>> : n \in MCNames}

MCDescriptions == BoundedSeq(DescriptorChoices, 2) \ {<<>>}

\* Values in range for some shapes and wrapping for others: -3 and 5 wrap in
\* any 2-bit field, 2 in a signed one, -1 in an unsigned one.
MCValues == {-3, -1, 2, 5}
=============================================================================
