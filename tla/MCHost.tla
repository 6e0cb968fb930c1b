------------------------------- MODULE MCHost -------------------------------
(***************************************************************************)
(* Two tags, two versions, an internal and a Cloudflare installation, one   *)
(* volume besides the default one, and at most two writings of the          *)
(* configuration.                                                            *)
(***************************************************************************)
EXTENDS Host

MCProviders == {"cloudflare"}
MCVersions == {1, 2}
MCVolumes == {"outo-models-data", "other"}
=============================================================================
