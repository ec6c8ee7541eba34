------------------------------ MODULE BitField ------------------------------
(***************************************************************************)
(* One field of a cell identifier (BitFieldElement) and the word-level     *)
(* helpers of BitFieldCoder.h.                                             *)
(*                                                                         *)
(* A CellID is an unsigned word of CellBits bits (64 in the code); the     *)
(* cached minimum and maximum of a field are C++ `int` members of IntBits  *)
(* bits (32 in the code).  TLC integers are 32 bits wide, so model runs    *)
(* scale both widths down together and keep their ratio.                   *)
(*                                                                         *)
(* BitFieldElement's constructor, value() and set() are defined in         *)
(* BitFieldCoder.cpp, which is not part of the sources at hand: they are   *)
(* modelled from the repository's specification (section 3 and 4.1).      *)
(***************************************************************************)
EXTENDS Integers, Bitwise

CONSTANTS CellBits, IntBits

ASSUME CellBits \in 2..30 /\ IntBits \in 1..CellBits

CellIDs == 0 .. (2^CellBits - 1)

\* Conversion of an integer to an unsigned CellBits-bit word (uint64_t wrap).
ToCellID(x) == x % (2^CellBits)

\* Conversion of an integer to a signed IntBits-bit `int` (two's complement
\* narrowing, the behaviour of the supported compilers).
ToInt(x) == ((x + 2^(IntBits - 1)) % (2^IntBits)) - 2^(IntBits - 1)

\* Clearing the bits of m in c: c & ~m.
ClearBits(c, m) == c - (c & m)

(***************************************************************************)
(* BitFieldElement(name, offset, signedWidth): a negative width declares a *)
(* signed field.  mask = ((1<<width)-1) << offset; min/max are stored in   *)
(* the `int` members _minVal/_maxVal.                                      *)
(***************************************************************************)
\* Mutant: the signed maximum is 2^(w-1), one above the largest value.
BitFieldElementSignedMaxOff(name, offset, signedWidth) ==
  LET w == IF signedWidth < 0 THEN -signedWidth ELSE signedWidth
      s == signedWidth < 0
  IN [name     |-> name,
      offset   |-> offset,
      width    |-> w,
      isSigned |-> s,
      mask     |-> ToCellID((2^w - 1) * 2^offset),
      minVal   |-> ToInt(IF s THEN -(2^(w - 1)) ELSE 0),
      maxVal   |-> ToInt(IF s THEN 2^(w - 1) ELSE 2^w - 1)]

BitFieldElement(name, offset, signedWidth) ==
  LET w == IF signedWidth < 0 THEN -signedWidth ELSE signedWidth
      s == signedWidth < 0
  IN [name     |-> name,
      offset   |-> offset,
      width    |-> w,
      isSigned |-> s,
      mask     |-> ToCellID((2^w - 1) * 2^offset),
      minVal   |-> ToInt(IF s THEN -(2^(w - 1)) ELSE 0),
      maxVal   |-> ToInt(IF s THEN 2^(w - 1) - 1 ELSE 2^w - 1)]

\* BitFieldElement::value: (id & mask) >> offset, sign-extended at bit
\* width-1 for a signed field.
Value(f, id) ==
  LET v == shiftR(id & f.mask, f.offset)
  IN IF f.isSigned /\ v >= 2^(f.width - 1) THEN v - 2^f.width ELSE v

\* BitFieldElement::set: id &= ~mask; id |= (value << offset) & mask.  The
\* shift is a 64-bit two's complement shift, so a negative value wraps.
SetValue(f, id, value) ==
  ClearBits(id, f.mask) | (ToCellID(value * 2^f.offset) & f.mask)

\* BitFieldCoder::toLong, lowWord, highWord: a word split into and joined
\* from two halves of CellBits \div 2 bits (32 in the code).
HalfBits == CellBits \div 2
toLong(low, high) ==
  (low & (2^HalfBits - 1)) | ToCellID((high & (2^HalfBits - 1)) * 2^HalfBits)
lowWord(id) == id & (2^HalfBits - 1)
highWord(id) == shiftR(id, HalfBits) % (2^HalfBits)

=============================================================================
