----------------------------- MODULE MCSdkSession -----------------------------
EXTENDS SdkSession

\* The defaults name a sandbox, so that a later mode meets an earlier policy.
MCDefaults == Only("sandbox_policy", "read_only")

MCLayers == {None, [Only("sandbox_mode", "workspace_write") EXCEPT !["model"] = "other"]}
=============================================================================
