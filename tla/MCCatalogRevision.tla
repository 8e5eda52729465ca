------------------------- MODULE MCCatalogRevision -------------------------
(* Records for the runs of CatalogRevision: a package recorded twice, with *)
(* other locators the second time, an observation of it that agrees with   *)
(* the first, and a heavier package of another epoch with its tombstone.   *)
EXTENDS CatalogRevision

CONSTANTS s1, s2, s3, t3, o1, Older

MCSnapshots == {s1, s2, s3}
MCRecords   == MCSnapshots \cup Tombstones \cup Observations
MCIdentity(r) == <<"record", IF r = s2 THEN s1 ELSE r>>
MCTarget(r)   == <<"record", IF r = o1 THEN s1 ELSE s3>>
MCAgrees(o, s) == s = s1
MCRootEpoch(s) == IF s = s1 THEN Older ELSE Past
MCWireBytes(s) == 2
(* In units an observation is too small to count in.                       *)
MCPayloadBytes(p, R) == 1 + Len(p) + 2 * Cardinality(R \ {o1}) + 2 * Cardinality(R \cap {s3})
=============================================================================
