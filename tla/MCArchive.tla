----------------------------- MODULE MCArchive -----------------------------
(***************************************************************************)
(* Small sources, streams and patterns: two names, two levels, and a third *)
(* level that is beyond the limit.                                         *)
(***************************************************************************)
EXTENDS Archive

MCPaths == {<<1>>, <<2>>, <<1, 1>>, <<1, 2>>}
MCForeignPaths == {<<1>>, <<2>>, <<1, 1>>, <<1, 1, 1>>}

Request(is, es) == [includes |-> is, excludes |-> es]
MCRequests ==
    {Request({}, {}), Request({<<1>>}, {}), Request({<<Star, 1>>}, {}),
     Request({<<DoubleStar, 1>>}, {}), Request({<<1, DoubleStar>>}, {<<1, 1>>}),
     Request({<<1, DoubleStar, 2>>, <<2>>}, {}), Request({}, {<<1>>}),
     Request({}, {<<DoubleStar, 1>>}), Request({<<1, 1>>}, {<<1>>})}

Want(ps, is, es) == [paths |-> ps, includes |-> is, excludes |-> es]
MCWants ==
    {Everything, Want({<<1>>}, {}, {}), Want({<<1, 1>>}, {<<2>>}, {}),
     Want({}, {<<DoubleStar, 1>>}, {}), Want({<<1>>}, {}, {<<1, Star>>}),
     Want({}, {}, {<<1>>})}
=============================================================================
