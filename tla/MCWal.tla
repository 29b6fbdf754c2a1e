-------------------------------- MODULE MCWal --------------------------------
EXTENDS Wal, TLC

CONSTANTS p1, p2

\* The pages are interchangeable.
PageSymmetry == Permutations({p1, p2})

\* The run goes on behind a need that was not met, for LogOrder, but not
\* behind a second one.
OneNeedBroken == Cardinality(Needs \ kept) <= 1
=============================================================================
