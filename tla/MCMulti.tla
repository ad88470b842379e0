------------------------------- MODULE MCMulti -------------------------------
EXTENDS Multi

\* Shares whose last place goes to the smallest, and an executor left out.
MCWeightings == {<<3, 3, 1>>, <<1, 0, 1>>}

=============================================================================
