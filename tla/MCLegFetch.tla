----------------------------- MODULE MCLegFetch -----------------------------
(* LegFetch on small trees.  Names are ranks in sorted order.              *)
EXTENDS LegFetch

\* What scp brings is one directory (4).  done_when is its first name in sorted
\* order, beside a file and a subdirectory, or the last one, and a file in a
\* subdirectory has the marker's name.
MCLayouts ==
  { [files |-> {<<4, 1>>, <<4, 2>>, <<4, 3, 2>>}, marker |-> <<4, 1>>],
    [files |-> {<<4, 1, 3>>, <<4, 2>>, <<4, 3>>}, marker |-> <<4, 3>>] }

=============================================================================
