---------------------------- MODULE MCHubTunnels ----------------------------
(* Two replicas and one device, two letters. *)
EXTENDS HubTunnels
CONSTANTS r1, r2, d1

MCReplicas == {r1, r2}
MCDevices == {d1}
MCLetters == {"A", "B"}
=============================================================================
