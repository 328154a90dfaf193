--------------------------- MODULE PrivacyPolicy ----------------------------
(* Privacy modes, provider families and the decision of                    *)
(* PrivacyPolicyEnforcer.validateProviderCall (packages/privacy/src).      *)
EXTENDS Naturals

PrivacyMode == {"cloud", "private-local", "human"}

CLOUD_FAMILIES ==
  {"cloud-text", "cloud-image", "cloud-3d", "remote-inference", "embeddings"}

\* Well-known families; a product may define others.
ProviderFamilies == CLOUD_FAMILIES \cup {"local", "human"}

defaultPolicyForMode(mode) ==
  [mode |-> mode,
   allowedCloudProviders |-> {},
   blockedFamilies |-> CASE mode = "cloud" -> {}
                         [] mode = "private-local" -> CLOUD_FAMILIES
                         [] mode = "human" -> CLOUD_FAMILIES \cup {"local"}]

\* Fault: the allow-list is honoured in every mode.
Permits_AllowListFirst(policy, p) ==
  \/ p.name \in policy.allowedCloudProviders
  \/ p.family \notin policy.blockedFamilies

\* validateProviderCall returns, rather than throwing PrivacyBlockedError, for
\* provider p.  The request context takes no part in the decision.
Permits(policy, p) ==
  \/ policy.mode # "human" /\ p.name \in policy.allowedCloudProviders
  \/ p.family \notin policy.blockedFamilies
=============================================================================
