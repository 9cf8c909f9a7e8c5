----------------------------- MODULE MCProxyLink -----------------------------
(* Instances of ProxyLink for TLC. *)
EXTENDS ProxyLink

\* A proxy that a server made for a connection; one that makes its own and may
\* give up; and one that blocks its clients while it is not connected.
AllConfigs ==
    { {},
      {"endpoint", "no_retry"},
      {"endpoint", "block_until_connect", "block_until_reconnect"} }
=============================================================================
