---------------------------- MODULE CellIDFields ----------------------------
(***************************************************************************)
(* What a BitFieldCoder promises its callers, without bits: a layout of    *)
(* named fields, each with a width and a signedness, and a value per       *)
(* field.  Assigning a field stores the value wrapped into the field's     *)
(* range (two's complement for a signed field) and leaves every other      *)
(* field as it was.  Loading a whole identifier may give any in-range      *)
(* values.  Construction either yields some layout or fails.  last is the *)
(* outcome of the caller's last call: "load", "ok" or "not_found" (for a  *)
(* field the layout does not have).                                        *)
(***************************************************************************)
EXTENDS Integers

CONSTANTS Names, CellBits, Values

VARIABLES status, layout, vals, last

Shapes == [width : 1 .. CellBits, isSigned : BOOLEAN]

Lo(s) == IF s.isSigned THEN -(2^(s.width - 1)) ELSE 0
Hi(s) == IF s.isSigned THEN 2^(s.width - 1) - 1 ELSE 2^s.width - 1

\* The value a field of shape s holds after being assigned v.
Wrap(v, s) == Lo(s) + ((v - Lo(s)) % (2^s.width))

Init ==
  /\ status = "unbuilt"
  /\ layout = <<>>
  /\ vals = <<>>
  /\ last = "none"

Build ==
  /\ status = "unbuilt"
  /\ status' = "built"
  /\ \E D \in SUBSET Names : layout' \in [D -> Shapes]
  /\ vals' = [n \in DOMAIN layout' |-> 0]
  /\ UNCHANGED last

Fail ==
  /\ status = "unbuilt"
  /\ status' = "failed"
  /\ UNCHANGED <<layout, vals, last>>

Load ==
  /\ status = "built"
  /\ vals' \in [DOMAIN layout -> Int]
  /\ \A n \in DOMAIN layout : vals'[n] \in Lo(layout[n]) .. Hi(layout[n])
  /\ last' = "load"
  /\ UNCHANGED <<status, layout>>

Assign(n, v) ==
  /\ status = "built"
  /\ n \in DOMAIN layout
  /\ vals' = [vals EXCEPT ![n] = Wrap(v, layout[n])]
  /\ last' = "ok"
  /\ UNCHANGED <<status, layout>>

\* A call naming no field of the layout changes nothing.
Reject ==
  /\ status = "built"
  /\ last' = "not_found"
  /\ UNCHANGED <<status, layout, vals>>

Next ==
  \/ Build \/ Fail \/ Load \/ Reject
  \/ \E n \in Names, v \in Values : Assign(n, v)

Spec == Init /\ [][Next]_<<status, layout, vals, last>>

=============================================================================
