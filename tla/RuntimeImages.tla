---------------------------- MODULE RuntimeImages ----------------------------
(***************************************************************************)
(* Building, validating and requiring the runner image of a workspace      *)
(* (runtime_images.py).  Three things on disk have to agree: the images    *)
(* the Docker daemon holds under a tag, the metadata a build leaves beside *)
(* them, and the Runtime Image Validation Stamp.  ml-autoresearch.toml,    *)
(* here "config", may be edited and the Harness may be upgraded between    *)
(* any two steps.  The Agent Runtime Image is reduced to its metadata.     *)
(***************************************************************************)
EXTENDS Integers

CONSTANTS
  Configs,     \* the contents an operator gives to ml-autoresearch.toml
  Identities,  \* Harness identities: a package version or a source fingerprint
  MaxEdits,    \* bound: edits of the configuration and upgrades of the Harness
  MaxBuilds,   \* bound: calls of build-runtime-images
  BuildModes   \* "execute", "no_execute": does build-runtime-images run the commands

ASSUME ImagesAssumption ==
  /\ Identities \subseteq 1..98
  /\ \E i \in Identities : \A j \in Identities : i <= j
  /\ \A c \in Configs : c.image \in Nat /\ c.runnerImage \in Nat /\ c.requirements \in Nat
  /\ MaxEdits \in Nat /\ MaxBuilds \in Nat
  /\ BuildModes \subseteq {"execute", "no_execute"}

VARIABLES
  config, identity,
  images,          \* tag -> what docker build put into the image
  runnerMetadata,  \* images/runner/runtime-image.json
  agentMetadata,   \* identity in images/agent/runtime-image.json, 0 for none
  stamp,           \* runtime-images.validated.json
  builder, validator, edits, builds,
  sound,    \* history: the last build ran all its commands, and nothing changed meanwhile
  stamped   \* history: so did the validation of its result

diskVars == <<images, runnerMetadata, agentMetadata, stamp>>
imageVars == <<config, identity, diskVars, builder, validator, edits, builds, sound, stamped>>

\* default_runner_image_tag: one tag per identity.
DefaultTag(i) == i
Tags == {DefaultTag(i) : i \in Identities}
\* The image validate-runtime-images and the gate look at: docker_image, else
\* runner_image of [runtime_images], else the default.
RunnerTag ==
  IF config.image # 0 THEN config.image
  ELSE IF config.runnerImage # 0 THEN config.runnerImage ELSE DefaultTag(identity)

NoImage == [identity |-> 0, requirements |-> 0]
NoMetadata == [identity |-> 0, tag |-> 0, requirements |-> 0]
NoStamp == [identity |-> 0, tag |-> 0, config |-> CHOOSE c \in Configs : TRUE]
Idle == [pc |-> "idle", identity |-> 0, requirements |-> 0]
NotValidating == [pc |-> "idle", identity |-> 0, tag |-> 0, alone |-> FALSE]

ImagesInit ==
  /\ config \in Configs
  /\ identity = CHOOSE i \in Identities : \A j \in Identities : i <= j
  /\ images = [t \in Tags |-> NoImage]
  /\ runnerMetadata = NoMetadata /\ agentMetadata = 0 /\ stamp = NoStamp
  /\ builder = Idle /\ validator = NotValidating
  /\ edits = 0 /\ builds = 0 /\ sound = FALSE /\ stamped = FALSE
-----------------------------------------------------------------------------
\* build_runtime_images reads identity and requirements once, at its start.
BuildStarts(mode) ==
  /\ builder = Idle /\ builds < MaxBuilds
  /\ builder' = [pc |-> IF mode = "execute" THEN "runner" ELSE "metadata",
                 identity |-> identity, requirements |-> config.requirements]
  /\ builds' = builds + 1
  /\ sound' = (mode = "execute") /\ stamped' = FALSE
  /\ validator' = [validator EXCEPT !.alone = FALSE]
  /\ UNCHANGED <<config, identity, diskVars, edits>>

BuilderGoesTo(step) ==
  /\ builder' = [builder EXCEPT !.pc = step]
  /\ UNCHANGED <<config, identity, stamp, validator, edits, builds, sound, stamped>>

\* docker build of the runner: the Harness that is there now goes into the image.
BuildRunner ==
  /\ builder.pc = "runner"
  /\ images' = [images EXCEPT ![DefaultTag(builder.identity)] =
                  [identity |-> identity, requirements |-> builder.requirements]]
  /\ BuilderGoesTo("agent")
  /\ UNCHANGED <<runnerMetadata, agentMetadata>>

\* docker build of the agent image, then gondolin build.
BuildAgent ==
  /\ builder.pc = "agent"
  /\ BuilderGoesTo("metadata")
  /\ UNCHANGED <<images, runnerMetadata, agentMetadata>>

\* _run_command raises: what was built so far stays, without metadata.
CommandFails ==
  /\ builder.pc \in {"runner", "agent"}
  /\ builder' = Idle
  /\ sound' = FALSE
  /\ UNCHANGED <<config, identity, diskVars, validator, edits, builds, stamped>>

WriteRunnerMetadata ==
  /\ builder.pc = "metadata"
  /\ runnerMetadata' = [identity |-> builder.identity, tag |-> DefaultTag(builder.identity),
                        requirements |-> builder.requirements]
  /\ BuilderGoesTo("agent_metadata")
  /\ UNCHANGED <<images, agentMetadata>>

\* _update_workspace_config rewrites the file as it is by then: one tag (and one path).
WithRunnerTag(c, tag) == [c EXCEPT !.image = tag]

\* The last writes: agent metadata and, with --update-config, the tag in the file.
FinishBuild(update) ==
  /\ builder.pc = "agent_metadata"
  /\ agentMetadata' = builder.identity
  /\ config' = IF update THEN WithRunnerTag(config, DefaultTag(builder.identity)) ELSE config
  /\ builder' = Idle
  /\ UNCHANGED <<identity, images, runnerMetadata, stamp, validator, edits, builds,
                 sound, stamped>>

\* A mutant: the requirements in the metadata are not compared.
MetadataHasIdentity ==
  /\ runnerMetadata.identity = identity /\ agentMetadata = identity
  /\ runnerMetadata.tag = RunnerTag

\* The checks of validate_runtime_images; it raises unless all of them hold.
MetadataMatches ==
  /\ runnerMetadata.identity = identity /\ agentMetadata = identity
  /\ runnerMetadata.tag = RunnerTag
  /\ runnerMetadata.requirements = config.requirements

ValidateImages ==
  /\ validator = NotValidating /\ MetadataMatches
  /\ validator' = [pc |-> "stamp", identity |-> identity, tag |-> RunnerTag,
                   alone |-> builder = Idle]
  /\ UNCHANGED <<config, identity, diskVars, builder, edits, builds, sound, stamped>>

\* The hash in the stamp is that of the configuration when the stamp is written.
WriteStamp ==
  /\ validator.pc = "stamp"
  /\ stamp' = [identity |-> validator.identity, tag |-> validator.tag, config |-> config]
  /\ stamped' = validator.alone
  /\ validator' = NotValidating
  /\ UNCHANGED <<config, identity, images, runnerMetadata, agentMetadata, builder,
                 edits, builds, sound>>

Changes ==
  /\ edits < MaxEdits
  /\ edits' = edits + 1
  /\ sound' = (sound /\ builder = Idle)
  /\ validator' = [validator EXCEPT !.alone = FALSE]
  /\ UNCHANGED <<diskVars, builder, builds, stamped>>

\* The operator edits the configuration.
EditConfig(c) ==
  /\ c # config /\ config' = c
  /\ Changes
  /\ UNCHANGED identity

\* The operator upgrades the package, or edits the development source.  Outside
\* git a development source is identified by its path alone, and an edit keeps
\* the identity.
ChangeHarness(i) ==
  /\ identity' = i
  /\ Changes
  /\ UNCHANGED config

ImagesStep ==
  \/ \E mode \in BuildModes : BuildStarts(mode)
  \/ BuildRunner \/ BuildAgent \/ CommandFails \/ WriteRunnerMetadata
  \/ \E update \in BOOLEAN : FinishBuild(update)
  \/ ValidateImages \/ WriteStamp
  \/ \E c \in Configs : EditConfig(c)
  \/ \E i \in Identities : ChangeHarness(i)

\* require_runtime_image_validation accepts the stamp.
StampIsFresh ==
  /\ stamp.identity = identity
  /\ stamp.tag = RunnerTag
  /\ stamp.config = config
=============================================================================
