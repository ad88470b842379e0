----------------------------- MODULE MCCampaign -----------------------------
(* Campaign: two workers, a run of three steps.                            *)
EXTENDS Campaign
=============================================================================
