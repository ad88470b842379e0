------------------------------ MODULE MCRental ------------------------------
(* Rental on small instances: two concurrent callers, two instance ids.    *)
EXTENDS Rental

\* The cloud may accept a DELETE without carrying it out, and lose the reply of
\* a create; or a fresh instance surfaces in the listing some time later.
MCFaults == {{"lie", "lost_reply"}, {"lag"}}

=============================================================================
