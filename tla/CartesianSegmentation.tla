------------------------ MODULE CartesianSegmentation ------------------------
(***************************************************************************)
(* The Cartesian segmentations CartesianGridXZ, CartesianGridYZ,          *)
(* CartesianGridXYZ, CartesianStripX and CartesianStripY over a          *)
(* BitFieldCoder.  A                                                       *)
(* segmentation is built either from an encoding string (it builds its own *)
(* coder) or on an existing coder; its constructor binds each axis to a   *)
(* coder field by name (registerIdentifier) without checking that the     *)
(* field exists.  cellID() starts from the volume ID and sets each axis   *)
(* field to the bin of the local coordinate; position() reads each axis   *)
(* field back and converts the bin to the bin centre.  volumeID() clears  *)
(* the bound fields again.                                                 *)
(*                                                                         *)
(* Local positions, cell sizes and offsets are integers.  positionToBin   *)
(* and binToPosition are defined in Segmentation.cpp, which is not among  *)
(* the sources: they follow section 4.3 of the specification (round to   *)
(* the nearest bin, halves up).                                            *)
(***************************************************************************)
EXTENDS BitFieldCoder

CONSTANTS
  GridSize,      \* axis -> cell size (_gridSizeX.. or _stripSizeX)
  Offset,        \* axis -> offset (_offsetX..)
  Positions,     \* axis -> local coordinates callers pass
  VolumeIDs,     \* volume IDs callers pass to cellID()
  MaxCalls       \* bound on the calls a caller makes on one segmentation

VARIABLES
  variant,   \* the segmentation object, "none" before it is built
  origin,    \* the last cellID() call: [p, vid] and the CellID it returned
  decoded,   \* the last position() call: [cid] and the position returned
  volume,    \* the last volumeID() call: [cid] and the volume ID returned
  calls      \* calls made on the segmentation so far (bounded by MaxCalls)

segVars == <<vars, variant, origin, decoded, volume, calls>>

Axes == {"X", "Y", "Z"}
Variants == {"XZ", "YZ", "XYZ", "StripX", "StripY"}

\* Vector3D: a local position; the axes a segmentation does not use are 0.
Vector3D(x, y, z) == [X |-> x, Y |-> y, Z |-> z]

(***************************************************************************)
(* The identifiers each constructor registers (both constructors of a     *)
(* class register the same ones).                                          *)
(***************************************************************************)
IdentifiersXZ     == [X |-> "x", Z |-> "z"]
IdentifiersYZ     == [Y |-> "y", Z |-> "z"]
IdentifiersXYZ    == [X |-> "x", Y |-> "y", Z |-> "z"]
IdentifiersStripX == [X |-> "strip"]
\* CartesianStripY (its implementation is not among the sources; section
\* 4.3: a strip variant binds its axis to "strip").
IdentifiersStripY == [Y |-> "strip"]

Identifiers(v) ==
  CASE v = "XZ" -> IdentifiersXZ
    [] v = "YZ" -> IdentifiersYZ
    [] v = "XYZ" -> IdentifiersXYZ
    [] v = "StripX" -> IdentifiersStripX
    [] v = "StripY" -> IdentifiersStripY

UsedAxes(v) == DOMAIN Identifiers(v)

\* Segmentation::positionToBin / binToPosition (section 4.3).
positionToBin(p, size, off) == (2 * (p - off) + size) \div (2 * size)
binToPosition(bin, size, off) == bin * size + off

\* BitFieldCoder::get / set by name, for a name of the layout.
get(c, name) == Value(fields[index(name) + 1], c)
\* Mutant: the shifted value is ORed in without the mask.
setNoMask(c, name, v) == c + v * 2^fields[index(name) + 1].offset

set(c, name, v) == SetValue(fields[index(name) + 1], c, v)

\* The axis a bin of a field is written to or read from.
Bin(p, a) == positionToBin(p[a], GridSize[a], Offset[a])
Pos(c, id, a) == binToPosition(get(c, id), GridSize[a], Offset[a])

(***************************************************************************)
(* cellID(localPosition, globalPosition, vID) and position(cID) of each   *)
(* class, for a coder that has the bound fields.                           *)
(***************************************************************************)
\* Mutant: the Z bin is written to the x field too.
cellIDXZSameField(p, vid) ==
  LET c1 == set(vid, IdentifiersXZ.X, Bin(p, "X"))
  IN set(c1, IdentifiersXZ.X, Bin(p, "Z"))

\* Mutant: the cell ID starts from 0 instead of the volume ID.
cellIDXZFromZero(p, vid) ==
  LET c1 == set(0, IdentifiersXZ.X, Bin(p, "X"))
  IN set(c1, IdentifiersXZ.Z, Bin(p, "Z"))

cellIDXZ(p, vid) ==
  LET c1 == set(vid, IdentifiersXZ.X, Bin(p, "X"))
  IN set(c1, IdentifiersXZ.Z, Bin(p, "Z"))

\* Mutant: the Z bin is converted with the X cell size and offset.
positionXZCopyX(c) ==
  Vector3D(Pos(c, IdentifiersXZ.X, "X"), 0, Pos(c, IdentifiersXZ.Z, "X"))

positionXZ(c) ==
  Vector3D(Pos(c, IdentifiersXZ.X, "X"), 0, Pos(c, IdentifiersXZ.Z, "Z"))

cellIDYZ(p, vid) ==
  LET c1 == set(vid, IdentifiersYZ.Y, Bin(p, "Y"))
  IN set(c1, IdentifiersYZ.Z, Bin(p, "Z"))

positionYZ(c) ==
  Vector3D(0, Pos(c, IdentifiersYZ.Y, "Y"), Pos(c, IdentifiersYZ.Z, "Z"))

cellIDXYZ(p, vid) ==
  LET c1 == set(vid, IdentifiersXYZ.X, Bin(p, "X"))
      c2 == set(c1, IdentifiersXYZ.Y, Bin(p, "Y"))
  IN set(c2, IdentifiersXYZ.Z, Bin(p, "Z"))

positionXYZ(c) ==
  Vector3D(Pos(c, IdentifiersXYZ.X, "X"), Pos(c, IdentifiersXYZ.Y, "Y"),
           Pos(c, IdentifiersXYZ.Z, "Z"))

cellIDStripX(p, vid) == set(vid, IdentifiersStripX.X, Bin(p, "X"))

positionStripX(c) == Vector3D(Pos(c, IdentifiersStripX.X, "X"), 0, 0)

\* CartesianStripY, as CartesianStripX on the Y axis.
cellIDStripY(p, vid) == set(vid, IdentifiersStripY.Y, Bin(p, "Y"))

positionStripY(c) == Vector3D(0, Pos(c, IdentifiersStripY.Y, "Y"), 0)

CellIDOf(v, p, vid) ==
  CASE v = "XZ" -> cellIDXZ(p, vid)
    [] v = "YZ" -> cellIDYZ(p, vid)
    [] v = "XYZ" -> cellIDXYZ(p, vid)
    [] v = "StripX" -> cellIDStripX(p, vid)
    [] v = "StripY" -> cellIDStripY(p, vid)

PositionOf(v, c) ==
  CASE v = "XZ" -> positionXZ(c)
    [] v = "YZ" -> positionYZ(c)
    [] v = "XYZ" -> positionXYZ(c)
    [] v = "StripX" -> positionStripX(c)
    [] v = "StripY" -> positionStripY(c)

\* The bound fields all exist; otherwise index() throws at the first
\* get or set of a missing one and the call fails.
Bound(v) == \A a \in UsedAxes(v) : Identifiers(v)[a] \in FieldNames

\* Local positions callers pass to a segmentation of variant v.
LocalPositions(v) ==
  LET P(a) == IF a \in UsedAxes(v) THEN Positions[a] ELSE {0}
  IN {Vector3D(x, y, z) : x \in P("X"), y \in P("Y"), z \in P("Z")}

SegTypeOK ==
  /\ TypeOK
  /\ variant \in Variants \cup {"none"}
  /\ origin \in {[none |-> TRUE]}
                \cup [p : [Axes -> Int], vid : CellIDs, cid : CellIDs]
  /\ decoded \in {[none |-> TRUE]} \cup [cid : CellIDs, pos : [Axes -> Int]]
  /\ volume \in {[none |-> TRUE]} \cup [cid : CellIDs, vid : CellIDs]
  /\ calls \in 0 .. MaxCalls

SegInit ==
  /\ Init
  /\ variant = "none"
  /\ origin = [none |-> TRUE]
  /\ decoded = [none |-> TRUE]
  /\ volume = [none |-> TRUE]
  /\ calls = 0

\* CartesianGrid..(cellEncoding): Segmentation(cellEncoding) builds the
\* coder, then the class registers its parameters and identifiers.
ConstructFromEncoding(v, desc) ==
  /\ variant = "none"
  /\ Construct(desc)
  /\ variant' = IF init(desc).ok THEN v ELSE "none"
  /\ UNCHANGED <<origin, decoded, volume, calls>>

\* CartesianGrid..(decoder): the segmentation is built on a coder built
\* earlier by its owner.
ConstructFromDecoder(v) ==
  /\ variant = "none"
  /\ status = "built"
  /\ variant' = v
  /\ UNCHANGED <<vars, origin, decoded, volume, calls>>

\* The coder's owner builds it before handing it to a segmentation.
BuildDecoder(desc) ==
  /\ variant = "none"
  /\ Construct(desc)
  /\ UNCHANGED <<variant, origin, decoded, volume, calls>>

\* cellID(localPosition, globalPosition, vID); the caller keeps the result.
CellIDCall(p, vid) ==
  /\ variant # "none"
  /\ calls < MaxCalls /\ calls' = calls + 1
  /\ IF Bound(variant)
       THEN /\ cell' = CellIDOf(variant, p, vid)
            /\ origin' = [p |-> p, vid |-> vid, cid |-> cell']
            /\ lastCall' = "ok"
       ELSE /\ lastCall' = "not_found"
            /\ UNCHANGED <<cell, origin>>
  /\ UNCHANGED <<status, fields, joined, variant, decoded, volume>>

\* position(cID) of the CellID the caller holds.
PositionCall ==
  /\ variant # "none"
  /\ calls < MaxCalls /\ calls' = calls + 1
  /\ IF Bound(variant)
       THEN /\ decoded' = [cid |-> cell, pos |-> PositionOf(variant, cell)]
            /\ lastCall' = "ok"
       ELSE /\ lastCall' = "not_found"
            /\ UNCHANGED decoded
  /\ UNCHANGED <<status, fields, joined, cell, variant, origin, volume>>

\* volumeID(cID) of the CellID the caller holds: Segmentation::volumeID sets
\* each registered identifier's field to 0 (a missing field throws).
\* Mutant: every field of the layout is cleared, the volume fields too.
volumeIDClearAll(v, c) == ClearBits(c, joined)

volumeID(v, c) ==
  FoldSet(LAMBDA a, acc : set(acc, Identifiers(v)[a], 0), c, UsedAxes(v))

VolumeIDCall ==
  /\ variant # "none"
  /\ calls < MaxCalls /\ calls' = calls + 1
  /\ IF Bound(variant)
       THEN /\ volume' = [cid |-> cell, vid |-> volumeID(variant, cell)]
            /\ lastCall' = "ok"
       ELSE /\ lastCall' = "not_found"
            /\ UNCHANGED volume
  /\ UNCHANGED <<status, fields, joined, cell, variant, origin, decoded>>

SegNext ==
  \/ \E v \in Variants, d \in Descriptions : ConstructFromEncoding(v, d)
  \/ \E d \in Descriptions : BuildDecoder(d)
  \/ \E v \in Variants : ConstructFromDecoder(v)
  \/ variant # "none" /\ \E vid \in VolumeIDs, p \in LocalPositions(variant) :
                            CellIDCall(p, vid)
  \/ PositionCall
  \/ VolumeIDCall

SegSpec == SegInit /\ [][SegNext]_segVars

-----------------------------------------------------------------------------
Has(r) == "cid" \in DOMAIN r

Dist(x, y) == IF x >= y THEN x - y ELSE y - x

\* The values a field of the layout holds.
FieldRange(name) ==
  LET f == fields[index(name) + 1]
  IN IF f.isSigned THEN -(2^(f.width - 1)) .. 2^(f.width - 1) - 1
     ELSE 0 .. 2^f.width - 1

\* Every bin of p fits the field its axis is bound to.
InRange(v, p) ==
  \A a \in UsedAxes(v) : Bin(p, a) \in FieldRange(Identifiers(v)[a])

\* The last position() call decoded the CellID of the last cellID() call.
DecodedOrigin ==
  Has(origin) /\ Has(decoded) /\ decoded.cid = origin.cid

\* position(cellID(p)) is within half a cell of p on every axis of the
\* segmentation, when every bin of p fits its field (section 8, property 6,
\* with the range of section 4.1).
RoundTrip ==
  (DecodedOrigin /\ InRange(variant, origin.p)) =>
    \A a \in UsedAxes(variant) :
      2 * Dist(decoded.pos[a], origin.p[a]) <= GridSize[a]

\* cellID() of the decoded position gives the same CellID back
\* (section 8, property 6: cellID is idempotent under encode of the decoded
\* position), bins that wrapped included.
CellIDIdempotent ==
  DecodedOrigin => CellIDOf(variant, decoded.pos, origin.vid) = origin.cid

\* cellID() leaves the volume part of the volume ID as it was: every field
\* not bound to an axis, and every bit outside the layout.
VolumeFieldsKept ==
  Has(origin) =>
    /\ ClearBits(origin.cid, joined) = ClearBits(origin.vid, joined)
    /\ \A k \in DOMAIN fields :
         fields[k].name \notin {Identifiers(variant)[a] : a \in UsedAxes(variant)}
           => Value(fields[k], origin.cid) = Value(fields[k], origin.vid)

\* A consumer that holds a CellID rebuilds it from its volume ID and its
\* decoded position: cellID(position(c), volumeID(c)) = c.  volumeID() must
\* clear exactly the fields cellID() writes, and keep every placement bit.
CellIDRebuilt ==
  (Has(volume) /\ Has(decoded) /\ volume.cid = decoded.cid)
    => CellIDOf(variant, decoded.pos, volume.vid) = volume.cid

=============================================================================
