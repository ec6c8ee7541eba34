---------------------------- MODULE BitFieldCoder ----------------------------
(***************************************************************************)
(* BitFieldCoder: a layout of named fields built once from a description  *)
(* and then used to read and write the fields of a CellID held by its      *)
(* caller (a segmentation's cellID() starts from a volume ID and sets its  *)
(* fields one by one).                                                     *)
(*                                                                         *)
(* A description is a sequence of field descriptors, each the sequence of  *)
(* ':'-separated subfields of one ','-separated token of the init string:  *)
(* <<name, width>> or <<name, start, width>>; a negative width is signed.  *)
(* The splitting of the string into these tokens is StringTokenizer,       *)
(* modelled in its own module.                                             *)
(***************************************************************************)
EXTENDS BitField, Sequences, SequencesExt

CONSTANTS
  Names,          \* field names that descriptions and callers use
  Descriptions,   \* init strings the coder may be built from
  Values,         \* FieldIDs callers pass to set()
  MaxFields       \* bound on the number of fields of a description

VARIABLES
  status,   \* "unbuilt", "built" or "failed" (the constructor threw)
  fields,   \* _fields: the BitFieldElements in declaration order
  joined,   \* _joined: the OR of the masks of all fields
  cell,     \* the CellID the caller reads and writes through the coder
  lastCall  \* the caller's last call: "load", or set()'s "ok" or "not_found"

vars == <<status, fields, joined, cell, lastCall>>

FieldNames == {fields[i].name : i \in DOMAIN fields}

\* BitFieldCoder::index(name): position of the field named name (0-based);
\* defined only for a name of the layout (the code throws otherwise).
index(name) == CHOOSE i \in 0 .. Len(fields) - 1 : fields[i + 1].name = name

(***************************************************************************)
(* BitFieldCoder::addField(name, offset, width): builds the element and    *)
(* appends it, failing if the field leaves the word, repeats a name, or    *)
(* overlaps the running _joined mask.  Applied to the building state       *)
(* st = [fields, joined, offset, ok].                                      *)
(***************************************************************************)
\* Mutant: a zero width is not refused.
FitsWordAnyWidth(offset, width) ==
  offset + (IF width < 0 THEN -width ELSE width) <= CellBits

FitsWord(offset, width) ==
  /\ width # 0
  /\ offset + (IF width < 0 THEN -width ELSE width) <= CellBits

\* Mutant: the overlap test against _joined is missing.
addFieldNoOverlap(st, name, offset, width) ==
  LET f == BitFieldElement(name, offset, width)
  IN IF ~FitsWord(offset, width)
        \/ \E i \in DOMAIN st.fields : st.fields[i].name = name
     THEN [st EXCEPT !.ok = FALSE]
     ELSE [st EXCEPT !.fields = Append(@, f), !.joined = @ | f.mask]

addField(st, name, offset, width) ==
  LET f == BitFieldElement(name, offset, width)
  IN IF ~FitsWord(offset, width)
        \/ \E i \in DOMAIN st.fields : st.fields[i].name = name
        \/ (st.joined & f.mask) # 0
     THEN [st EXCEPT !.ok = FALSE]
     ELSE [st EXCEPT !.fields = Append(@, f), !.joined = @ | f.mask]

(***************************************************************************)
(* BitFieldCoder::init: for each descriptor, two subfields take the        *)
(* running offset and advance it by |width|; three subfields take the      *)
(* explicit start and move the running offset to start + |width|; any     *)
(* other count throws.                                                     *)
(***************************************************************************)
AbsW(w) == IF w < 0 THEN -w ELSE w

initStep(st, d) ==
  IF ~st.ok THEN st
  ELSE CASE Len(d) = 2 ->
              [addField(st, d[1], st.offset, d[2])
                 EXCEPT !.offset = st.offset + AbsW(d[2])]
         [] Len(d) = 3 ->
              [addField(st, d[1], d[2], d[3])
                 EXCEPT !.offset = d[2] + AbsW(d[3])]
         [] OTHER -> [st EXCEPT !.ok = FALSE]

init(desc) ==
  FoldLeft(initStep, [fields |-> <<>>, joined |-> 0, offset |-> 0, ok |-> TRUE],
           desc)

(***************************************************************************)
(* Queries of a built coder (BitFieldCoder.cpp, not among the sources;    *)
(* spec section 4.2).                                                      *)
(***************************************************************************)
\* The signed width of a field as the layout grammar writes it.
SignedWidth(f) == IF f.isSigned THEN -f.width ELSE f.width

\* Mutant: the start bit is left out, so each field follows the previous.
fieldDescriptionNoStart(fs) == [i \in DOMAIN fs |-> <<fs[i].name, SignedWidth(fs[i])>>]

\* fieldDescription(): "name:offset:[-]width" for each field, in order.
fieldDescription(fs) ==
  [i \in DOMAIN fs |-> <<fs[i].name, fs[i].offset, SignedWidth(fs[i])>>]

TypeOK ==
  /\ status \in {"unbuilt", "built", "failed"}
  /\ fields \in Seq([name : Names, offset : 0 .. CellBits, width : 1 .. CellBits,
                     isSigned : BOOLEAN, mask : CellIDs,
                     minVal : Int, maxVal : Int])
  /\ joined \in CellIDs
  /\ cell \in CellIDs
  /\ lastCall \in {"none", "load", "ok", "not_found"}

Init ==
  /\ status = "unbuilt"
  /\ fields = <<>>
  /\ joined = 0
  /\ cell = 0
  /\ lastCall = "none"

\* BitFieldCoder(initString): the coder exists only if init does not throw.
Construct(desc) ==
  LET st == init(desc)
  IN /\ status = "unbuilt"
     /\ status' = IF st.ok THEN "built" ELSE "failed"
     /\ fields' = IF st.ok THEN st.fields ELSE <<>>
     /\ joined' = IF st.ok THEN st.joined ELSE 0
     /\ UNCHANGED <<cell, lastCall>>

\* The caller starts from a volume ID (CellID cID = vID in cellID()).
LoadCell(c) ==
  /\ status = "built"
  /\ cell' = c
  /\ lastCall' = "load"
  /\ UNCHANGED <<status, fields, joined>>

\* set(bitfield, name, value): _fields.at(index(name)).set(bitfield, value);
\* index() throws for an unknown name and the CellID is left as it was.
SetByName(name, v) ==
  /\ status = "built"
  /\ IF name \in FieldNames
       THEN /\ cell' = SetValue(fields[index(name) + 1], cell, v)
            /\ lastCall' = "ok"
       ELSE /\ lastCall' = "not_found"
            /\ UNCHANGED cell
  /\ UNCHANGED <<status, fields, joined>>

\* set(bitfield, idx, value): _fields.at(idx) throws out_of_range.
SetByIndex(idx, v) ==
  /\ status = "built"
  /\ IF idx < Len(fields)
       THEN /\ cell' = SetValue(fields[idx + 1], cell, v)
            /\ lastCall' = "ok"
       ELSE /\ lastCall' = "not_found"
            /\ UNCHANGED cell
  /\ UNCHANGED <<status, fields, joined>>

Next ==
  \/ \E d \in Descriptions : Construct(d)
  \/ \E c \in CellIDs : LoadCell(c)
  \/ \E n \in Names, v \in Values : SetByName(n, v)
  \/ \E i \in 0 .. MaxFields, v \in Values : SetByIndex(i, v)

Spec == Init /\ [][Next]_vars

-----------------------------------------------------------------------------
(***************************************************************************)
(* The coder implements CellIDFields: once built, a CellID behaves as a    *)
(* record of independent named fields, each keeping the value last set,    *)
(* wrapped to its width and signedness.  The mapping reads every field     *)
(* with get() (BitFieldElement::value).                                    *)
(***************************************************************************)
Fields == INSTANCE CellIDFields WITH
  layout <- [n \in FieldNames |->
               [width |-> fields[index(n) + 1].width,
                isSigned |-> fields[index(n) + 1].isSigned]],
  vals   <- [n \in FieldNames |-> Value(fields[index(n) + 1], cell)],
  last   <- lastCall

\* Setting one field through the coder never changes what get() returns for
\* another, and get() returns the set value modulo the field's width with
\* two's complement sign extension (spec sections 3, 4.1 and 8).
ImplementsCellIDFields == Fields!Spec

\* The values a field of width w holds, as get() returns them.
FieldValues(f) == {Value(f, c) : c \in CellIDs}

\* A field whose range fits the `int` members (unsigned below IntBits bits,
\* signed up to IntBits bits).
FitsInt(f) == f.width < IntBits \/ (f.isSigned /\ f.width = IntBits)

\* minValue() .. maxValue() is exactly the set of values get() can return,
\* for every field whose range fits an `int` (spec section 3).  The bounds
\* are computed in the field's width and narrowed into the `int` members
\* _minVal/_maxVal (BitFieldCoder.h 85-86); wider fields are left out,
\* where the narrowing makes maxValue() negative.
BoundsBracketValues ==
  \A k \in DOMAIN fields :
    FitsInt(fields[k]) => FieldValues(fields[k]) = fields[k].minVal .. fields[k].maxVal

\* A coder rebuilt from its own fieldDescription() has the same fields, in
\* the same order, with the same offsets, widths and signedness, and the
\* same mask (spec section 8, property 5: the description round-trip).
DescriptionRoundTrip ==
  status = "built" =>
    LET st == init(fieldDescription(fields))
    IN st.ok /\ st.fields = fields /\ st.joined = joined

=============================================================================
