---------------------------- MODULE MCAiManagement ----------------------------
(***************************************************************************)
(* Instances of AiManagement: what the configuration file may hold.        *)
(***************************************************************************)
EXTENDS AiManagement

Entry(id, name, http, target) == [id |-> id, name |-> name, http |-> http, target |-> target]

SomeIds   == {"m1", "m2"}
SomeNames == {"n1", "n2"}

\* No profile; a profile with a target of its own beside a CLI profile; one
\* with a target that was written by hand, and a selection of no profile.
SeparateTargets ==
  { [profiles |-> <<>>, selected |-> None],
    [profiles |-> <<Entry("m1", "n1", TRUE, "m1"), Entry("m2", "n2", FALSE, None)>>, selected |-> "m2"],
    [profiles |-> <<Entry("m2", "n2", TRUE, "custom")>>, selected |-> "m1"] }

ASSUME SeparateTargetsAssumption == \A config \in SeparateTargets : SeparateKeys(config)

\* Two models of one provider that use the same key.
SharedTarget ==
  { [profiles |-> <<Entry("m1", "n1", TRUE, "custom"), Entry("m2", "n2", TRUE, "custom")>>, selected |-> "m1"] }

==============================================================================
