---------------------------- MODULE MCLiveSync ----------------------------
EXTENDS LiveSync

CONSTANTS row1, row2, fresh, first

TwoRows == [r \in {row1, row2} |-> first]

\* One row changes while the other goes away, or a row appears twice.
SomeSidebars == {TwoRows, [r \in {row1} |-> fresh], [r \in {row1} |-> Twice]}

Start == {TwoRows}
=============================================================================
