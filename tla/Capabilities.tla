----------------------------- MODULE Capabilities ----------------------------
(***************************************************************************)
(* The capability matrix (packages/ai-router/src/capabilities.ts): what a   *)
(* provider can do on a platform, and what a health report makes of it.     *)
(***************************************************************************)

Platforms == {"web", "ios", "android", "macos", "windows", "linux", "desktop"}
Domains == {"text", "image", "3d", "ai-recommendation", "human-recommendation"}
Families == {"local", "cloud-text", "cloud-image", "cloud-3d", "remote-inference", "embeddings", "human"}

Capability(isAvailable, install, reason) ==
  [available |-> isAvailable, requiresExplicitInstall |-> install, unavailableReason |-> reason]

available(install)  == Capability(TRUE, install, "none")
unavailable(reason) == Capability(FALSE, FALSE, reason)

\* Where local models run, by what they are for.
localTextCapability  == Platforms \ {"ios", "android"}
localImageCapability == {"linux", "desktop", "macos"}
local3DCapability    == {"linux", "desktop", "macos"}

localPlatforms(domain) ==
  CASE domain = "text"  -> localTextCapability
    [] domain = "image" -> localImageCapability
    [] domain = "3d"    -> local3DCapability
    [] OTHER            -> {}

getBaselineCapability(domain, family, platform) ==
  IF family # "local" THEN available(FALSE)
  ELSE IF platform \in localPlatforms(domain) THEN available(TRUE)
  ELSE unavailable("baseline")

Baselines ==
  {getBaselineCapability(d, f, p) : d \in Domains, f \in Families, p \in Platforms}

\* health is the report of a tracker, or "unknown" where nobody has asked.
providerStateFromHealth ==
  [healthy |-> "available", degraded |-> "degraded", unhealthy |-> "unavailable"]

(* Fault: the snapshot alone says whether a provider can be used.            *)
applyHealthToCapability_SnapshotDecides(capability, health) ==
  IF health = "unknown" THEN capability
  ELSE [capability EXCEPT !.available = providerStateFromHealth[health] # "unavailable",
                          !.unavailableReason = IF health = "healthy" THEN @ ELSE health]

applyHealthToCapability(capability, health) ==
  IF ~capability.available \/ health = "unknown" \/ providerStateFromHealth[health] = "available"
  THEN capability
  ELSE [capability EXCEPT !.available = providerStateFromHealth[health] = "degraded",
                          !.unavailableReason = health]
=============================================================================
