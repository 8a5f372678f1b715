---------------------------- MODULE MCOciLayout ----------------------------
(***************************************************************************)
(* OciLayout with publishers that may be given the same record, another    *)
(* one or one that is refused, and acquirers of two images whose config is *)
(* that of the handoffs: one has the manifest of a handoff for its subject *)
(* and misdescribes it, the subject of the other is no descriptor.         *)
(***************************************************************************)
EXTENDS OciLayout

MCPayloadOf == [r |-> "r-payload", s |-> "s-payload", bad |-> "bad-payload"]
MCManifestOf == [r |-> "r-manifest", s |-> "s-manifest", bad |-> "bad-manifest"]
MCImageOf == [a |-> "image", b |-> "other"]
MCSubjectOf == [image |-> "r-manifest", other |-> "none"]
MCPartsOf == [image |-> {"config", "layer"}, other |-> {"config"}]
=============================================================================
