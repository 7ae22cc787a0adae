--------------------------- MODULE MCCampaignRun ---------------------------
(* Two processes on one directory; the constants are in the cfg files.     *)
EXTENDS CampaignRun
=============================================================================
