-------------------------- MODULE MCParallelGroup --------------------------
EXTENDS ComposedGroup

CONSTANTS s1, none

\* The composed operation runs on a strand, the other without an executor.
FewExecutors == [i \in Ops |-> IF i = 1 THEN none ELSE s1]

\* The second r may begin the delimiter, the third byte does; the last three have none.
Lines == <<"r", "r", "n", "x", "x">>
LineEnd == <<"r", "n">>
SomeLeft == {[consumed |-> 0, size |-> 0], [consumed |-> 0, size |-> 3],
             [consumed |-> 1, size |-> 1], [consumed |-> 2, size |-> 0], [consumed |-> 3, size |-> 0]}

\* An empty buffer among four, two of which are taken at a time; a read does not fill them.
FourBuffers == <<1, 1, 2, 6>>
AllOrPart == {[until |-> "all", size |-> 0], [until |-> "at_least", size |-> 3],
              [until |-> "exactly", size |-> 2]}
=============================================================================
