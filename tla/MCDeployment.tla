---------------------------- MODULE MCDeployment ----------------------------
(* Deployment for TLC: which triggers a run may have.                      *)
EXTENDS Deployment, TLC

Trigger(by, env, onTag) == [by |-> by, env |-> env, onTag |-> onTag]

ToMain == {Trigger("push", "dev", FALSE)}
OfTag == {Trigger("push", "dev", TRUE)}

(* Everything but the two pipelines' answer to a tag.                      *)
NoTags == ToMain \cup {Trigger(by, env, FALSE) :
                         by \in {"dispatch", "jenkins"}, env \in {"dev", "prod"}}

RunSymmetry == Permutations(Runs)
=============================================================================
