------------------------- MODULE EcalEndcapPlacement -------------------------
(***************************************************************************)
(* The placement part of DDEcalEndcapAlgo (algorithm()): fill the         *)
(* supercrystal (SC) and crystal centre tables from the XML vectors, place *)
(* the crystals of every SC type in its alveola from the column profile   *)
(* EESCProf, and place the SCs of the quadrant over the rows EEShape gives *)
(* each column, within EESCLims, with the type the EESCCutaway list gives. *)
(*                                                                         *)
(* Solids, rotations and positions are left out: a centre is the number   *)
(* of the input entry that filled it (0: never filled, the default         *)
(* DDTranslation(0,0,0)), which is what tells a placement from input from *)
(* one at the origin.  The tables are SCDim x SCDim (10 x 10 in the code) *)
(* and CRDim x CRDim (ncol = 5); unsigned arithmetic wraps at 2^UBits.   *)
(* A read outside a table or vector is undefined behaviour: it sets oob    *)
(* and yields any value.                                                   *)
(***************************************************************************)
EXTENDS Integers, Sequences, SequencesExt, FiniteSets

CONSTANTS
  SCDim,       \* scrFCtr is SCDim x SCDim
  CRDim,       \* ncol; cryFCtr is CRDim x CRDim
  NSCTypes,    \* ee.nSCTypes
  NColumns,    \* ee.nColumns
  UBits,       \* width of unsigned int
  Inputs,      \* the XML vectors: [scCtrs, crCtrs, prof, shape, lims, cutaway]
  ProfValues   \* what a read past EESCProf may yield

VARIABLES
  in,         \* the XML input
  pc,         \* "fillSC", "fillCR", "types", "endcap", "done", "aborted"
  k,          \* iC, isc or icol of the loop pc names
  scr,        \* scrFCtr: <<ix, iy>> -> input entry (0 = default)
  cry,        \* cryFCtr
  crystals,   \* crystal placements in the alveolae
  scs,        \* SC placements in the quadrant
  oob         \* some read left its table or vector

vars == <<in, pc, k, scr, cry, crystals, scs, oob>>

Garbage == -1
Unsigned(x) == x % 2^UBits

SCCells == (1 .. SCDim) \X (1 .. SCDim)
CRCells == (1 .. CRDim) \X (1 .. CRDim)

TypeOK ==
  /\ in \in Inputs
  /\ pc \in {"fillSC", "fillCR", "types", "endcap", "done", "aborted"}
  /\ k \in Nat
  /\ scr \in [SCCells -> 0 .. Len(in.scCtrs)]
  /\ cry \in [CRCells -> 0 .. Len(in.crCtrs)]
  /\ crystals \subseteq [type : 1 .. NSCTypes, col : 1 .. CRDim, row : 1 .. CRDim,
                         copy : Nat, ctr : 0 .. Len(in.crCtrs) \cup {Garbage}]
  /\ scs \subseteq [type : Nat, col : Int, row : Int, copy : Int,
                    ctr : 0 .. Len(in.scCtrs) \cup {Garbage}]
  /\ oob \in BOOLEAN

Init ==
  /\ in \in Inputs
  /\ pc = "fillSC"
  /\ k = 0
  /\ scr = [c \in SCCells |-> 0]
  /\ cry = [c \in CRCells |-> 0]
  /\ crystals = {}
  /\ scs = {}
  /\ oob = FALSE

(***************************************************************************)
(* The fill loops (lines 476-503): entry iC fills cell <<ix, iy>>; the    *)
(* assert aborts on an index outside the table.                           *)
(***************************************************************************)
FillSC ==
  /\ pc = "fillSC"
  /\ IF k = Len(in.scCtrs)
       THEN pc' = "fillCR" /\ k' = 0 /\ UNCHANGED scr
       ELSE LET e == in.scCtrs[k + 1]
            IN IF e \in SCCells
                 THEN scr' = [scr EXCEPT ![e] = k + 1] /\ k' = k + 1 /\ UNCHANGED pc
                 ELSE pc' = "aborted" /\ UNCHANGED <<k, scr>>
  /\ UNCHANGED <<in, cry, crystals, scs, oob>>

FillCR ==
  /\ pc = "fillCR"
  /\ IF k = CRDim * CRDim
       THEN pc' = "types" /\ k' = 0 /\ UNCHANGED cry
       ELSE LET e == in.crCtrs[k + 1]
            IN IF e \in CRCells
                 THEN cry' = [cry EXCEPT ![e] = k + 1] /\ k' = k + 1 /\ UNCHANGED pc
                 ELSE pc' = "aborted" /\ UNCHANGED <<k, cry>>
  /\ UNCHANGED <<in, scr, crystals, scs, oob>>

(***************************************************************************)
(* The crystals of one SC type (lines 637-666).                            *)
(***************************************************************************)
\* Mutant: icoffset without the - 1.
icoffsetNoMinusOne(t) == Unsigned((t - 1) * CRDim)

\* const unsigned int icoffset((iSCType - 1) * ncol - 1): wraps for type 1.
icoffset(t) == Unsigned((t - 1) * CRDim - 1)

\* The index of vecEESCProf read for column icol, icoffset + icol.
ProfIndex(t, icol) == Unsigned(icoffset(t) + icol)

\* Mutant: imin is one row low for a negative profile.
iminNoPlusOne(n) == IF 0 < n THEN 1 ELSE IF 0 > n THEN CRDim + n ELSE 0

imin(n) == IF 0 < n THEN 1 ELSE IF 0 > n THEN CRDim + n + 1 ELSE 0

\* Mutant: imax stops one row short for a negative profile.
imaxShort(n) == IF 0 < n THEN n ELSE IF 0 > n THEN CRDim - 1 ELSE 0

imax(n) == IF 0 < n THEN n ELSE IF 0 > n THEN CRDim ELSE 0

\* The centre crystal.moveto reads, cryFCtr[icol - 1][irow - 1].
CryCenter(c, r) == IF <<c, r>> \in CRCells THEN cry[<<c, r>>] ELSE Garbage

PlaceType ==
  /\ pc = "types"
  /\ IF k = NSCTypes
       THEN pc' = "endcap" /\ k' = 1 /\ UNCHANGED <<crystals, oob>>
       ELSE LET t == k + 1
                idx(c) == ProfIndex(t, c)
                bad == {c \in 1 .. CRDim : idx(c) >= Len(in.prof)}
            IN \E g \in [1 .. CRDim -> ProfValues] :
                 LET ncrcol(c) == IF c \in bad THEN g[c] ELSE in.prof[idx(c) + 1]
                     rows(c) == IF imax(ncrcol(c)) > 0
                                  THEN imin(ncrcol(c)) .. imax(ncrcol(c)) ELSE {}
                     new == UNION {{[type |-> t, col |-> c, row |-> r,
                                     copy |-> 100 * t + 10 * (c - 1) + (r - 1),
                                     ctr |-> CryCenter(c, r)] : r \in rows(c)} :
                                    c \in 1 .. CRDim}
                 IN /\ crystals' = crystals \cup new
                    /\ oob' = (oob \/ bad # {}
                               \/ \E x \in new : <<x.col, x.row>> \notin CRCells)
                    /\ k' = k + 1
                    /\ UNCHANGED pc
  /\ UNCHANGED <<in, scr, cry, scs>>

(***************************************************************************)
(* One column of the endcap loop (lines 671-700).                          *)
(***************************************************************************)
InLims(lims, c, r) ==
  lims[1] <= c /\ lims[2] >= c /\ lims[3] <= r /\ lims[4] >= r

\* isctype: 1 unless a cutaway entry names <<icol, irow>>; the last wins.
SCType(cut, c, r) ==
  LET m == {i \in DOMAIN cut : cut[i][1] = c /\ cut[i][2] = r}
  IN IF m = {} THEN 1 ELSE cut[Max(m)][3]

\* Mutant: the table is read at [irow - 1][icol - 1].
SCCenterSwapped(c, r) == IF <<r, c>> \in SCCells THEN scr[<<r, c>>] ELSE Garbage

\* The centre scrys.moveto reads, scrFCtr[icol - 1][irow - 1].
SCCenter(c, r) == IF <<c, r>> \in SCCells THEN scr[<<c, r>>] ELSE Garbage

PlaceColumn ==
  /\ pc = "endcap"
  /\ IF k > NColumns
       THEN pc' = "done" /\ UNCHANGED <<k, scs, oob>>
       ELSE LET c == k
                rows == {r \in in.shape[2 * c - 1] .. in.shape[2 * c] :
                           InLims(in.lims, c, r)}
                new == {[type |-> SCType(in.cutaway, c, r), col |-> c, row |-> r,
                         copy |-> 100 * SCType(in.cutaway, c, r) + 10 * (c - 1) + (r - 1),
                         ctr |-> SCCenter(c, r)] : r \in rows}
            IN /\ scs' = scs \cup new
               /\ oob' = (oob \/ \E r \in rows : <<c, r>> \notin SCCells)
               /\ k' = k + 1
               /\ UNCHANGED pc
  /\ UNCHANGED <<in, scr, cry, crystals>>

Next == FillSC \/ FillCR \/ PlaceType \/ PlaceColumn

Spec == Init /\ [][Next]_vars

-----------------------------------------------------------------------------
\* The SC types whose crystals have been placed.
TypesPlaced ==
  CASE pc = "types" -> 1 .. k
    [] pc \in {"endcap", "done"} -> 1 .. NSCTypes
    [] OTHER -> {}

\* Reference: the rows a column profile entry n fills, the first n rows
\* for n > 0 and the last -n rows for n < 0.
ProfileRows(n) == {r \in 1 .. CRDim : (n > 0 /\ r <= n) \/ (n < 0 /\ r > CRDim + n)}

\* The crystals of every SC type placed so far sit exactly at the cells
\* its profile entries (entries (t-1)*ncol+1 .. t*ncol of EESCProf) name,
\* one crystal per cell: the unsigned icoffset arithmetic that wraps for
\* type 1 and the imin/imax bounds together read the right entry and fill
\* the right rows.
CrystalsFollowProfile ==
  \A t \in TypesPlaced :
    LET mine == {x \in crystals : x.type = t}
    IN /\ {<<x.col, x.row>> : x \in mine} =
            {cr \in CRCells : cr[2] \in ProfileRows(in.prof[(t - 1) * CRDim + cr[1]])}
       /\ \A x, y \in mine : x.copy = y.copy => x = y

\* Every crystal and every SC is placed at a centre read from the XML
\* input, never at the default DDTranslation(0,0,0) of a cell no input
\* entry filled, when the input lists every cell.
CentersFromInput ==
  /\ \A x \in crystals : x.ctr > 0
  /\ \A x \in scs : x.ctr > 0

\* No read leaves EESCProf, cryFCtr or scrFCtr: the profile and the limits
\* keep the placement loops inside the tables the fill loops assert on.
NoOutOfBounds == ~oob
=============================================================================
