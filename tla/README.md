# TLA+ models of DD4hep components

This directory holds TLA+ specifications of parts of the DD4hep sources under
`src/`, the TLC configurations that check them, and `PROJECT.json`, which
lists the components, runs, mutants, the source lines each definition models,
the findings and the hazards.

## The system and its parts

| Part | Source | What it does | Modelled in |
|---|---|---|---|
| BitFieldElement, BitFieldCoder | `DDCore/include/DDSegmentation/BitFieldCoder.h` (and `BitFieldCoder.cpp`, not among the sources) | Packs named signed or unsigned fields into a 64-bit cell identifier. | `BitField`, `BitFieldCoder`, abstract `CellIDFields` |
| StringTokenizer | same header | Splits the coder's init string at a delimiter character. | `StringTokenizer` |
| Segmentation, CartesianGridXZ/YZ/XYZ, CartesianStripX/Y | `DDCore/include/DDSegmentation/Segmentation.h`, `DDCore/src/segmentations/*.cpp` | Map a local position to a cell ID and back. `cellID()` starts from the volume ID and sets the coordinate fields through a BitFieldCoder. | `CartesianSegmentation` (extends `BitFieldCoder`) |
| CartesianStripY handle | `DDCore/include/DD4hep/CartesianStripY.h` | Forwarding handle to the StripY segmentation. | `position`/`cellID` as the `StripY` variant of `CartesianSegmentation`; parameter setters not modelled |
| MaterialManager | `DDRec/src/MaterialManager.cpp` | Walks the ROOT navigator between two points to list the volumes and materials crossed. It also looks up the volume at a point. Both cache their last answer. | `MaterialManager` |
| GeometryWalk plugin | `DDCore/src/plugins/GeometryWalk.cpp` | Walks the detector-element tree for each subdetector named on the command line. | `GeometryWalk` |
| Geant4TCUserParticleHandler | `DDG4/plugins/Geant4TCUserParticleHandler.cpp` | Decides which particles to keep from a tracking cylinder. | not modelled (see below) |
| DDEcalEndcapAlgo | `examples/DDCMS/src/plugins/DDEcalEndcapAlgo.cpp` | Builds the CMS endcap calorimeter and places crystals in supercrystals. | `EcalEndcapPlacement` (the placement loops) |
| test_EventReaders | `DDTest/src/test_EventReaders.cc` | Test driver for reader plugins. | not modelled (the logic is in plugins outside `src/`) |

How they interact:
- A segmentation's `cellID()` copies the volume ID into a CellID. It then calls `BitFieldCoder::set` once per coordinate field.
- MaterialManager shares the detector's `TGeoManager` navigator with every other user of the geometry. It brackets its walk with `DoBackupState`/`DoRestoreState` so that the others do not see the walk.
- Everything in these sources runs sequentially on one thread. The hazards are orderings of calls, failures part-way through a call, stale caches and numeric edges; there are no races.

## Modules

### `BitField`: one field and the word helpers
Pure operators. A CellID has `CellBits` bits (64 in the code) and the cached
`_minVal`/`_maxVal` are `int`s of `IntBits` bits (32). TLC's integers are
32-bit, so the MC scales both down.

Operators:
- `BitFieldElement(name, offset, signedWidth)` builds the element record (mask, width, sign, min, max).
- `Value` is `value()`: mask, shift and sign extension.
- `SetValue` is `set()`: clear the mask, then OR in the shifted value. The 64-bit wrap is modelled by `ToCellID`.
- `toLong`, `lowWord` and `highWord` are the inline helpers of the header.

The element's constructor, `value` and `set` are in `BitFieldCoder.cpp`, which is not among the sources. They are modelled from the specification and marked `spec_modelled` in the map.

### `BitFieldCoder`: building the layout and using it
- State:
  - `status`: unbuilt, built, or failed because the constructor threw.
  - `fields` (`_fields`) and `joined` (`_joined`).
  - `cell`: the CellID the caller holds.
  - `lastCall`: the outcome of the caller's last call.
- A description is the tokenised init string: a sequence of descriptors `<<name, width>>` or `<<name, start, width>>`.
- `init` folds `initStep` over the description (`FoldLeft`):
  - a two-subfield descriptor uses the running offset;
  - a three-subfield descriptor uses its explicit start;
  - any other count fails.
- `addField` refuses a field that:
  - is zero-width,
  - leaves the word,
  - repeats a name, or
  - overlaps `_joined`.
- Actions:
  - `Construct(desc)`: the constructor.
  - `LoadCell(c)`: a segmentation's `CellID cID = vID`.
  - `SetByName(name, v)`: `set(bitfield, name, value)`. An unknown name throws and leaves the CellID unchanged.
  - `SetByIndex(idx, v)`: `set(bitfield, idx, value)`. `at()` throws out of range.
- Queries, which change no state, are operators:
  - `fieldDescription(fields)` writes every field as `<<name, offset, signed width>>`, the descriptor form of `name:offset:[-]width`. It is in `BitFieldCoder.cpp`, not among the sources, so it follows spec sections 4.2 and 8.

### `CellIDFields`: what the coder promises (abstract)
A layout of named fields (width, signedness), their values, and the outcome of
the caller's last call. Actions:
- `Build` (some layout, all values 0) or `Fail`.
- `Load`: any in-range values.
- `Assign(n, v)`: stores `Wrap(v, shape)` in `n` and nothing else.
- `Reject`: an unknown field, nothing changes.

`BitFieldCoder` maps onto it through
`Fields == INSTANCE CellIDFields WITH layout <- ..., vals <- ...`. The values are read with `Value`, i.e. `get()`. `ImplementsCellIDFields == Fields!Spec` is checked as a PROPERTY.

### `StringTokenizer`
- State:
  - `input` and `i`: the string `std::for_each` walks, and how much of it has been fed.
  - `tokens`: the caller's vector.
  - `last`: `_last`.
- Actions:
  - `Init`: the constructor, with `_last = _del`.
  - `Feed`: one `operator()` call.
- `TokenizerStep` is `operator()` on a `[tokens, last]` record. `Tokenize` folds it over a string, as `init` does with `','` and `':'`.
- `Pieces` is the reference: a split at every delimiter, empty pieces included.

### `CartesianSegmentation`: the grids composed with the coder
The module extends `BitFieldCoder`. A segmentation is built in one of two ways:
- `ConstructFromEncoding`: it builds its own coder from a layout.
- `ConstructFromDecoder`: it is built on a coder that `BuildDecoder` built first.

Each variant binds its axes to field names: `x`/`z`, `y`/`z`, `x`/`y`/`z`, or `strip` (StripX on X, StripY on Y). It does not check that the fields exist. The StripY implementation is not among the sources; as section 4.3 of the specification says, it is StripX on the Y axis.
- `CellIDCall(p, vid)` is `cellID()`. It loads the volume ID and sets each axis field to `positionToBin` of the coordinate. When a field is missing, `index()` throws and nothing changes.
- `PositionCall` is `position()` on the CellID the caller holds.
- `VolumeIDCall` is `volumeID()` on that CellID. `Segmentation::volumeID` is in `Segmentation.cpp`, not among the sources; following the specification, it sets each bound field to 0 (`volumeID`, a `FoldSet` over the axes), and a missing field throws.
- `calls` counts the calls a caller makes, bounded by `MaxCalls`. After it the segmentation is idle, so the cfg does not check deadlock.
- `origin`, `decoded` and `volume` record the last call of each kind, so that properties can relate them.
- `positionToBin` and `binToPosition` (`Segmentation.cpp`, not among the sources) follow spec section 4.3. Positions are integers and `positionToBin` rounds halves up.

### `GeometryWalk`
The detector tree is a parent function chosen in `Init`, so every tree of the given elements is checked. `Children` lists an element's children in name order, which is the order of the `std::map`.
- `walk` is `GeometryWalk::walk`, a RECURSIVE preorder.
- `WalkWorld` is the `all` branch.
- `Process` is one iteration of the argument loop. Its name is `argv[in]+1`; for an empty argument, whose read is undefined, any name is possible.
  - `ProcessAll`: walk the world and return 1.
  - `ProcessSubdetector`: the constructor's walk.
  - `ProcessUnknown`: the constructor throws for an invalid handle.
- `Return` ends the loop.
- `print()` only writes text; it is reduced to appending the element to `out`.

### `EcalEndcapPlacement`
The XML vectors are one input record chosen in `Init`. The loops of `algorithm()` are actions, with `pc` naming the loop and `k` its counter:
- `FillSC` and `FillCR` are one iteration of each fill loop. A failed assert aborts.
- `PlaceType` places the crystals of one SC type from its five (`ncol`) profile entries. `icoffset` wraps at `2^UBits`.
- `PlaceColumn` places the SCs of one endcap column: the rows of `EEShape` in the `EESCLims` box, with the type from the cutaway list.

A centre is the number of the input entry that filled it, and 0 means the default `(0,0,0)`. A read outside a table or vector sets `oob` and yields an arbitrary value. Solids, rotations and rear centres are left out.

### `MaterialManager`
The geometry is one line of layers (`Bounds`, `Layer`, `Medium`); outside the
outer bounds nothing is placed (the world volume ends).

The navigator is modelled as far as the walk uses it:
- `NodeAhead`, `NodeAt` (FindNode) and `IsOutside`.
- `Step`: `FindNextBoundaryAndStep(StepMax)` goes to the next boundary where the node changes, or StepMax at most.

The `while` loop of `materialsBetween` is the recursive `WalkFrom`. Every branch of the code is kept:
- the exit when the step leaves the world (line 82);
- the MINSTEP nudge with its second step, and `length` read from `GetStep()` before it;
- the "travelled too far" cut measured from the last point;
- the epsilon filter.

`Walk` adds the null-start throw and the empty-list fallback. The fallback dereferences a null `node1`, which is modelled as a crash (`alive` becomes FALSE).

`createAveragedMaterial` is a pure operator over exact rationals (`Rat`, `RatAdd`, `RatDiv`; a division by zero gives `NaN`). `AveragedSums` is its loop, a `FoldLeft` over the six sums. The per-material data (`MatData`: density, A, Z, radiation and interaction length) are small integers. `LayerMixture` is the reference it is checked against: the same mixture rules applied to the overlap of the segment with each layer of the table.

Walks are pure, so `WalkTable` tabulates them once for all argument triples.

Variables:
- `placeV`: `_placeV`; `mV` derives `_mV` from it.
- `p0c`, `p1c`: `_p0`, `_p1`.
- `pos`, `m`, `pv`: `_pos`, `_m`, `_pv`.
- `navPoint`: where the shared navigator is.
- `tracks`: tracks added and not cleared.
- `alive`: FALSE after a crash.
- `result`: what the last call returned, or that it threw.

Actions:
- `Between(op, q0, q1, eps)` covers `materialsBetween` and `placementsBetween`: cache hit, throw, crash, or a new walk, followed by `ClearTracks`/`DoRestoreState` and `Remember` (`_p0 = p0; _p1 = p1`).
- `Lookup(op, q)` covers `materialAt` and `placementAt`: cache hit on `q = _pos`, throw on no node, or `Refresh` (`_m`, `_pv`, `_pos`).

## Runs

| Run | cfg | Expect | Shows |
|---|---|---|---|
| bitfieldcoder | `MCBitFieldCoder.cfg` | pass | Every description of at most two fields in a 5-bit word (widths -2..3, starts 0/2/4, malformed descriptors included) either fails to build or gives independent fields. Each field wraps set values to its width and sign (`ImplementsCellIDFields`). For every field whose range fits an `int`, `minValue()..maxValue()` is exactly the set of values `get()` returns (`BoundsBracketValues`); wider fields get a negative `maxValue()` from the narrowing into the `int` members. A coder rebuilt from its own `fieldDescription()` has the same fields and mask (`DescriptionRoundTrip`, spec property 5). |
| materialmanager | `MCMaterialManager.cfg` | pass | Any sequence of walks (including walks that throw at a point outside the world) and lookups keeps the cached placements on the cached segment (`CachedPlacementsOnPath`). Lookups answer for their own point when the origin is not a queried point (`LookupMatchesGeometry`). `createAveragedMaterial` of a freshly walked list (epsilon 0, end point in the world) equals the length-weighted mixture of the layers between the points, computed in exact rationals from the layer table (`AveragedMaterialMatchesLayers`). |
| stringtokenizer | `MCStringTokenizer.cfg` | pass | For every string of up to 5 characters over `a 1 , :`, the vector after each character is exactly the non-empty pieces read so far (`TokensAreNonEmptyPieces`). |
| st_grammar | `STGrammar.cfg` | violation | `","` passes the descriptor-count check of `init`, although the layout grammar requires non-empty descriptors (finding). |
| segmentation | `MCCartesianSegmentation.cfg` | pass | For all five variants, built either way on a full or a partial layout:<br>- `position(cellID(p))` is within half a cell of `p` when every bin fits its field (`RoundTrip`);<br>- re-encoding the decoded position gives the same CellID (`CellIDIdempotent`);<br>- `cellID()` keeps every volume bit (`VolumeFieldsKept`);<br>- a held CellID equals `cellID(position(c), volumeID(c))` (`CellIDRebuilt`). |
| geometrywalk | `MCGeometryWalk.cfg` | pass | For every tree of three elements and every argv of up to three arguments: the output is, argument by argument, the name-ordered preorder walk of each subdetector read, or of every subdetector for `all` (`OutputIsPreorderWalks`, checked against a reference built from the transitive closure). |
| ecal_placement | `MCEcalEndcapPlacement.cfg` | pass | For every column profile with entries in `-ncol..ncol`, two shapes, two limit boxes and two cutaway lists:<br>- each SC type's crystals fill exactly the rows its profile names (`CrystalsFollowProfile`);<br>- every placement has an input centre (`CentersFromInput`);<br>- no read leaves a table (`NoOutOfBounds`). |
| mm_epsilon_cache | `MMEpsilonCache.cfg` | violation | The cache ignores epsilon (finding). |
| mm_origin_lookup | `MMOriginLookup.cfg` | violation | The default `_pos` is the origin (finding). |
| mm_navigator_restore | `MMNavigatorRestore.cfg` | violation | A throw skips `DoRestoreState` and `ClearTracks` (finding). |
| mm_trailing_segment | `MMTrailingSegment.cfg` | violation | The exit at line 82 drops the last segment when the world edge is near (finding). |
| mm_null_node | `MMNullNode.cfg` | violation | After the MINSTEP nudge steps out of the world, the empty-list fallback dereferences a null `node1` (finding). |

Four more disagreements were found while modelling. They are recorded as hazards in `PROJECT.json`, not as runs:
- A throw in `materialsBetween` also leaves `_p0`/`_p1` at the previous points over an emptied list.
- After the MINSTEP nudge the length is read before the second step, so the volume crossed by it gets the nudge length (`PathLengthCovered` fails on that path as well as at line 82).
- Spec property 8.6 fails for bin centres whose bin does not fit its field. The value wraps, and section 7 makes that intentional.
- An `EESCProf` entry beyond `ncol` reads `cryFCtr` out of bounds.

Each property of a passing run has a mutant in `PROJECT.json`: a plausible
bug in a mapped definition that TLC must catch under the run's cfg.

- `FitsWordAnyWidth` accepts zero widths.
- `BitFieldElementSignedMaxOff` sets a signed field's maximum one too high.
- `fieldDescriptionNoStart` leaves out the start bits, so gaps between fields are lost.
- `addFieldNoOverlap` omits the `_joined` test.
- `RememberStart` forgets `_p1`.
- `RefreshNoMaterial` forgets `_m`.
- `LookupStoreBeforeCheck` stores the null node before the check.
- `TokenizerStepKeepDel` and `TokenizerStepNoLast` drop the delimiter test or the `_last` update.
- `setNoMask` omits the mask and wrap in `set`.
- `positionXZCopyX` converts the Z bin with the X size.
- `cellIDXZSameField` writes the Z bin into `x`.
- `cellIDXZFromZero` starts from 0 instead of the volume ID.
- `WalkPostorder` prints after the children.
- `WalkWorldFromRoot` walks the world itself.
- `volumeIDClearAll` clears every field of the layout, the volume field too.
- `createAveragedMaterialByMass` averages the radiation length by mass instead of by length.
- `iminNoPlusOne` and `imaxShort` are off by one.
- `SCCenterSwapped` reads `[irow][icol]`.
- `icoffsetNoMinusOne` drops the `- 1`.

## Bounds and why they are enough

- **Coder.** `CellBits = 5` and `IntBits = 2`. Descriptions of up to two fields with widths -2..3 and explicit starts 0, 2 and 4 include every case:
  - adjacent fields, overlapping fields and a repeated name;
  - a field leaving the word, and a zero width;
  - malformed descriptors;
  - signed and unsigned fields.

  The values -3, -1, 2 and 5 are in range for some shapes and wrap for others. `LoadCell` loads every 5-bit word.
- **MaterialManager.** Lengths are in units where `MinStep = 2` and `StepMax = 8`. `StepMax` is shorter than the thick layers, so steps limited by it occur.
  - Boundaries are multiples of 4 and query points are 2 modulo 4. As in the code, where MINSTEP is 1e-5 cm, no step is then shorter than MINSTEP unless a layer is thinner than it.
  - The geometries are:
    - four layers, with one point in each and one point outside the world;
    - the same layers with world edges within StepMax of the outer boundaries;
    - a layer of width 1 followed by a layer that ends within MinStep of the nudge (`MMNullNode.cfg`), the shape that sends the second step out of the world.

    The MINSTEP nudge (lines 99-104) is reached only by that violation run. No passing run has a layer thinner than MinStep. On such a layer the length is read from `GetStep()` before the second step, so `createAveragedMaterial` of the list no longer matches the layers and `AveragedMaterialMatchesLayers` fails. That is the line-103 hazard in `PROJECT.json`, not a fault of the model.
  - `MatData` gives four materials distinct densities, A, Z, X0 and lambda, so a mixing rule that weighs by the wrong quantity changes the result.
  - Epsilon is 0 (keep everything) or 7 (drops the 6-unit steps).
  - `MaxTracks = 2` bounds the tracks leaked by throwing walks.

- **Tokenizer.** All strings of up to 5 characters over `a`, `1`, `,` and `:` include:
  - leading, trailing and doubled delimiters;
  - the nested `:` split.
- **Segmentation.** The coder has 10 bits: a 1-bit volume field, signed 2-bit `x`, `y`, `z` and `strip` fields, and a free top bit. There is also a layout without `z` and `strip`, and one that uses every bit with a 2-bit volume field between `x` and `z` and `z` below `y`, so the volume bits sit between the axis fields.
  - Cell sizes are 4 (X, offset 1) and 2 (Y and Z). X and Z differ, so a mix-up of the two shows.
  - The coordinates per axis give a negative bin, a tie, and bin 2, which does not fit a signed 2-bit field.
  - Volume IDs are 0 and all ones, so every volume bit is tested.
  - `MaxCalls = 4` allows every order of `cellID`, `position` and `volumeID` on one cell, and a second `cellID` before them.
- **GeometryWalk.** Three elements give every tree shape up to depth 3, including siblings whose name order matters. Arguments are drawn from:
  - a subdetector or an inner element;
  - `all`;
  - an unknown name;
  - the empty argument.
- **Ecal.** The tables are scaled down:
  - `ncol = 2` (5 in the code), a 3 x 3 SC table (10 x 10 in the code) and two SC types;
  - 8-bit unsigned arithmetic, so `icoffset` wraps as it does in 32 bits.

  Profile entries take every value of `-2..2`:
  - `±ncol` fills a whole column;
  - 0 fills nothing.

  One shape is not symmetric in column and row, one limit box cuts the shape, and one cutaway list names a cell twice.

## Fairness

None is assumed, and every property is a safety property: an invariant, an
action property or a refinement. The components are library code driven by
their callers, which need not call again. `GeometryWalk::run()` is a `for`
loop bounded by `argc` that returns 1 unconditionally after it (line 131),
so its ending is not a question worth a liveness property.

## Not modelled, and why

- Formatting and printing: `fieldDescription`, `valueString`, the Geant4 and ROOT log output, and the name `createAveragedMaterial` builds. The averages themselves are modelled in exact rationals; the rounding of doubles is not.
- The navigator in three dimensions. One line of layers keeps every branch of the walk; the directions and distances are along that line.
- The `CartesianStripY` handle's parameter setters, and `test_EventReaders` (its logic is in plugins outside the sources).
- `Geant4TCUserParticleHandler`: `end()` computes two cylinder predicates and passes them to `setReason`/`setSimulatorStatus`. Those are in `Geant4UserParticleHandlerHelper.cpp`, which is neither among the sources nor in the specification, so the handler cannot be modelled as a whole.
- Segmentation parameters (`registerParameter`, `setParameters`), `neighbours`, `cellDimensions` and subsegmentations: a string-keyed store, constant answers, or code in `Segmentation.cpp`.
- Ecal solids and `DDEcalEndcapTrap` geometry (floating-point shapes), and the XML counts `nSCquad`/`nSCCutaway`, which are taken equal to their vectors' lengths.

## Further work

1. The XML counts `nSCquad`/`nSCCutaway` of `DDEcalEndcapAlgo` read independently of their vectors (line 477). A mismatch reads out of bounds or leaves default centres, which the passing Ecal run rules out by taking the counts from the vectors.
2. `Geant4TCUserParticleHandler`, once the helpers it calls (`setReason`, `setSimulatorStatus`) are available to model.
