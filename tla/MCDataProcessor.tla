--------------------------- MODULE MCDataProcessor ---------------------------
EXTENDS DataProcessor

\* No current at all, one phase only, an even and an uneven load.
FewWeights == {<<0, 0, 0>>, <<1, 0, 0>>, <<1, 1, 1>>, <<2, 1, 0>>}
==============================================================================
