-------------------------- MODULE MCAssetMigration --------------------------
(* Small instances of AssetMigration for TLC. *)
EXTENDS AssetMigration, TLC

CONSTANTS main, other  \* buckets

Deployment(targetOSS, k8sOSS, oss) ==
    [x \in Settings |-> CASE x = "TARGET_OSS_BUCKET" -> targetOSS
                          [] x = "K8S_SECRET_OSS_BUCKET" -> k8sOSS
                          [] x = "OSS_BUCKET" -> oss]

\* One bucket for everything; a target of its own; the two other settings at odds;
\* a target and nothing else; nothing at all.
MCDeployments ==
    {Deployment(None, None, main), Deployment(other, None, main), Deployment(None, other, main),
     Deployment(main, None, None), Deployment(None, None, None)}
=============================================================================
