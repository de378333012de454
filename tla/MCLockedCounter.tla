--------------------------- MODULE MCLockedCounter --------------------------
EXTENDS LockedCounter

\* a value below every id, and the one from which one increment still fits
Around == {-1, MaxInt - 1}
NearTheEnd == {MaxInt}
=============================================================================
