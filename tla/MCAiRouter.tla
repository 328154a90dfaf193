----------------------------- MODULE MCAiRouter -----------------------------
(* Values of AiRouter's constants for TLC.                                 *)
EXTENDS AiRouter

Provider3(name, family, animate) == [name |-> name, family |-> family, animate |-> animate]

local  == Provider3("on-device", "local", FALSE)
cloud  == Provider3("acme", "cloud-3d", TRUE)
remote == Provider3("acme", "remote-inference", TRUE)  \* acme, registered anew
embed  == Provider3("rank", "embeddings", FALSE)
human  == Provider3("people", "human", FALSE)

MCProviders == {local, cloud, remote, embed, human}

\* Mode defaults, and two that kept the allow-list of another mode.
KeptFrom(mode) == [defaultPolicyForMode(mode) EXCEPT !.allowedCloudProviders = {"acme"}]

MCPolicies ==
  {defaultPolicyForMode("cloud"), KeptFrom("private-local"), KeptFrom("human")}

MCOffered ==
  [l \in Lists |-> CASE l = "threeD" -> {local, cloud}
                     [] l = "aiRec" -> {embed, remote}
                     [] l = "humanRec" -> {human}
                     [] OTHER -> {}]

MCOperations == {"animate", "ranking"}
=============================================================================
