--------------------------- MODULE MCChunkedEntity ---------------------------
\* Three levels of tiles and four views of them, for TLC.
EXTENDS ChunkedEntity

CONSTANTS r, a, b, c, d, e

MCChildren == [n \in Nodes |-> CASE n = r -> <<a, b>> [] n = a -> <<c, d>>
                                  [] n = b -> <<e>> [] OTHER -> <<>>]

View(culled, fine) == [culled |-> culled, fine |-> fine]

MCViews == {View({}, {r}), View({b}, {b, c}), View({}, {b, c}), View({a}, {})}

\* Either tiles are unloaded, or the map changes.
MCLimits == {[loaded |-> 4, changes |-> 0], [loaded |-> 5, changes |-> 2]}

\* The hypothesis under which VisibleOnce and ReadyIsComplete are proved.
ASSUME ViewsFit
=============================================================================
