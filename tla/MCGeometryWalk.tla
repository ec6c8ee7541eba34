--------------------------- MODULE MCGeometryWalk ---------------------------
(***************************************************************************)
(* Every tree of three elements under the world, and every argv of up to   *)
(* three arguments after argv[0] drawn from a subdetector or inner        *)
(* element name, "all", an unknown name and the empty argument.          *)
(***************************************************************************)
EXTENDS GeometryWalk

MCElements == {"a", "b", "c"}
MCNameOrder == <<"a", "b", "c">>
MCArgs == {"a", "b", "all", Garbage, EmptyArg}
MCArgVectors == {<<"prog">> \o s : s \in BoundedSeq(MCArgs, 3)}
=============================================================================
