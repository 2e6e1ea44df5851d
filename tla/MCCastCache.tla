---------------------------- MODULE MCCastCache ----------------------------
(* CastCache on small tables, with keys computed as computeCacheKey does.  *)
EXTENDS CastCache, Bitwise

(* computeCacheKey: (uptr)vec ^ (hash << 32), with the hash shifted by the *)
(* width of Mask, so that a table address selects the probe and the hash   *)
(* the probe step, as in the source.                                       *)
MCKey(t, h) == t ^^ (4 * h)

\* Two threads: keys 1 and 5 meet at one first probe, 3 and 7 at the other;
\* every pair but (3, 1) is matched by the full check.
MCTables == {1, 3}
MCHashes == {0, 1}
MCPlaces == {"start"}
MCKeyOf == [x \in MCTables \X MCHashes |-> MCKey(x[1], x[2])]
MCPasses == (MCTables \X MCHashes \X MCPlaces) \ {<<3, 1, "start">>}

\* An object of table 1 that contains, at "member" only, a subobject of the
\* class with hash 0.
MemberPlaces == {"start", "member"}
MemberPasses == {<<1, 0, "member">>}
=============================================================================
