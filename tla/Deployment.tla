----------------------------- MODULE Deployment -----------------------------
(***************************************************************************)
(* How a commit gets to an environment: the GitHub workflow                *)
(* (.github/workflows/deploy.yml), the Jenkinsfile, and the script both    *)
(* call, deploy/ecs-deploy.sh.                                             *)
(*                                                                         *)
(* A run of either pipeline builds one image, named after the run, and     *)
(* registers at most one task definition revision per environment, named   *)
(* after the run as well.  The other fields of a task definition are left  *)
(* out: the script copies them.  ECS is modelled by what the script asks   *)
(* of it: a service is told a revision, and becomes stable with it if the  *)
(* image can be pulled.                                                    *)
(***************************************************************************)
EXTENDS Naturals, Sequences

CONSTANTS
    Runs,      \* executions of a pipeline
    Triggers,  \* what may start one: [by, env, onTag]
    Initial    \* the revision an environment was set up with

(* by: "push" (to main, or of a v* tag), "dispatch" (manual) or "jenkins"; *)
(* env: the environment that was chosen, if one was;                       *)
(* onTag: github.ref is a v* tag.                                          *)
Environments == {"dev", "staging", "prod"}

ASSUME DeploymentAssumption ==
    /\ Initial \notin Runs
    /\ Triggers \subseteq [by : {"push", "dispatch", "jenkins"},
                           env : Environments, onTag : BOOLEAN]

VARIABLES
    trigger,   \* what started each run
    begun,     \* the runs in the order they were started
    build,     \* the build job of each run
    job,       \* its deploy job for each environment
    approved,  \* the jobs a reviewer let go: <<run, "build" or "deploy">>
    repo,      \* the image tags in each environment's ECR repository
    service,   \* the revision each ECS service was last told
    told,      \* history: the runs whose revision it was ever told
    running    \* the revision it last became stable with

services == <<service, told>>
vars == <<trigger, begun, build, job, approved, repo, services, running>>

-----------------------------------------------------------------------------
Jenkins(r) == trigger[r].by = "jenkins"

(* The resolve job; the ENVIRONMENT parameter of Jenkins.                  *)
Target(r) ==
    IF trigger[r].by # "push" THEN trigger[r].env
    ELSE IF trigger[r].onTag THEN "staging" ELSE "dev"

(* Mutant: every image goes to one repository.                             *)
RepositoryOfDev(r) == "dev"

(* The repository the image is pushed to.                                  *)
Repository(r) == Target(r)

(* The if: of deploy and of deploy-prod.                                   *)
Deploys(r, e) ==
    \/ e = Target(r) /\ (Jenkins(r) \/ e # "prod")
    \/ e = "prod" /\ Target(r) = "prod"
    \/ e = "prod" /\ ~Jenkins(r) /\ trigger[r].onTag

Running == {"register", "update", "stable"}
Underway(r) == build[r] = "build" \/ \E e \in Environments : job[r][e] \in Running

TypeOK ==
    /\ trigger \in [Runs -> Triggers]
    /\ begun \in Seq(Runs)
    /\ build \in [Runs -> {"idle", "build", "pushed", "failed"}]
    /\ job \in [Runs -> [Environments -> {"none", "done", "failed"} \cup Running]]
    /\ approved \subseteq Runs \X {"build", "deploy"}
    /\ repo \in [Environments -> SUBSET Runs]
    /\ service \in [Environments -> Runs \cup {Initial}]
    /\ told \in [Environments -> SUBSET Runs]
    /\ running \in [Environments -> Runs \cup {Initial}]

Init ==
    /\ trigger \in [Runs -> Triggers]
    /\ begun = << >>
    /\ build = [r \in Runs |-> "idle"]
    /\ job = [r \in Runs |-> [e \in Environments |-> "none"]]
    /\ approved = {}
    /\ repo = [e \in Environments |-> {}]
    /\ service = [e \in Environments |-> Initial]
    /\ told = [e \in Environments |-> {}]
    /\ running = [e \in Environments |-> Initial]

-----------------------------------------------------------------------------
(* Mutant: without disableConcurrentBuilds().                              *)
MayStartAlways(r) == TRUE

(* Jenkins runs one build at a time, GitHub any number (the workflow has   *)
(* no concurrency group).                                                  *)
MayStart(r) == Jenkins(r) => \A s \in Runs : Jenkins(s) => ~Underway(s)

Start(r) ==
    /\ build[r] = "idle"
    /\ MayStart(r)
    /\ begun' = Append(begun, r)
    /\ build' = [build EXCEPT ![r] = "build"]
    /\ UNCHANGED <<trigger, job, approved, repo, services, running>>

(* Build and push.  The GitHub job runs in the target environment, so a    *)
(* build for prod waits for its reviewers.                                 *)
Push(r) ==
    /\ build[r] = "build"
    /\ Target(r) = "prod" /\ ~Jenkins(r) => <<r, "build">> \in approved
    /\ build' = [build EXCEPT ![r] = "pushed"]
    /\ repo' = [repo EXCEPT ![Repository(r)] = @ \cup {r}]
    /\ job' = [job EXCEPT ![r] =
          [e \in Environments |-> IF Deploys(r, e) THEN "register" ELSE "none"]]
    /\ UNCHANGED <<trigger, begun, approved, services, running>>

BuildFails(r) ==
    /\ build[r] = "build"
    /\ build' = [build EXCEPT ![r] = "failed"]
    /\ UNCHANGED <<trigger, begun, job, approved, repo, services, running>>

-----------------------------------------------------------------------------
Goto(r, e, place) == job' = [job EXCEPT ![r][e] = place]

(* Mutant: deploy-prod without environment: prod.                          *)
GateOpen(r, e) == TRUE

(* The reviewers of the prod environment; the input step of Jenkins.       *)
Gate(r, e) == e = "prod" => <<r, "deploy">> \in approved

(* describe-task-definition, the new image, register-task-definition.      *)
Register(r, e) ==
    /\ job[r][e] = "register"
    /\ Gate(r, e)
    /\ Goto(r, e, "update")
    /\ UNCHANGED <<trigger, begun, build, approved, repo, services, running>>

Tell(e, r) ==
    /\ service' = [service EXCEPT ![e] = r]
    /\ told' = [told EXCEPT ![e] = @ \cup {r}]

(* Mutant: the arguments of update-service are mixed up.                   *)
UpdateMixedUp(r, e) ==
    /\ job[r][e] = "update"
    /\ Tell(e, e)
    /\ Goto(r, e, "stable")
    /\ UNCHANGED <<trigger, begun, build, approved, repo, running>>

(* update-service --task-definition, whatever the service was told since.  *)
Update(r, e) ==
    /\ job[r][e] = "update"
    /\ Tell(e, r)
    /\ Goto(r, e, "stable")
    /\ UNCHANGED <<trigger, begun, build, approved, repo, running>>

(* wait services-stable: the service has one deployment and all its tasks; *)
(* which revision that is does not matter to the waiter.                   *)
Stable(r, e) ==
    /\ job[r][e] = "stable"
    /\ running[e] = service[e]
    /\ Goto(r, e, "done")
    /\ UNCHANGED <<trigger, begun, build, approved, repo, services, running>>

(* A job is rejected, times out, or a call fails (set -e); an update that  *)
(* fails may have taken effect.                                            *)
JobFails(r, e) ==
    /\ job[r][e] \in Running
    /\ UNCHANGED services \/ (job[r][e] = "update" /\ Tell(e, r))
    /\ Goto(r, e, "failed")
    /\ UNCHANGED <<trigger, begun, build, approved, repo, running>>

-----------------------------------------------------------------------------
(* The environment: reviewers, and ECS rolling a revision out.             *)
Approve(r) ==
    /\ \/ build[r] = "build" /\ approved' = approved \cup {<<r, "build">>}
       \/ /\ job[r]["prod"] = "register"
          /\ approved' = approved \cup {<<r, "deploy">>}
    /\ UNCHANGED <<trigger, begun, build, job, repo, services, running>>

Rollout(e) ==
    /\ service[e] \in repo[e]
    /\ running' = [running EXCEPT ![e] = service[e]]
    /\ UNCHANGED <<trigger, begun, build, job, approved, repo, services>>

Next ==
    \/ \E r \in Runs : Start(r) \/ Push(r) \/ BuildFails(r) \/ Approve(r)
    \/ \E r \in Runs, e \in Environments :
          Register(r, e) \/ Update(r, e) \/ Stable(r, e) \/ JobFails(r, e)
    \/ \E e \in Environments : Rollout(e)

Spec == Init /\ [][Next]_vars

-----------------------------------------------------------------------------
(* A service is never told a revision whose image its repository lacks: no *)
(* deployment can end with tasks that do not start for want of an image.   *)
ImagePresent ==
    \A e \in Environments : service[e] # Initial => service[e] \in repo[e]

(* What reaches prod was let through by somebody for that very run, by     *)
(* whichever trigger, branch of the workflow or pipeline it came.          *)
ProdApproved ==
    [][service'["prod"] # service["prod"]
          => <<service'["prod"], "deploy">> \in approved]_vars

Earlier(r, s) ==
    \E i, j \in DOMAIN begun : i < j /\ begun[i] = r /\ begun[j] = s

(* Jenkins never goes back: the build it tells a service is newer than any *)
(* it has told that service before, whatever failed and whatever the other *)
(* pipeline has told the service in between.                               *)
JenkinsInOrder ==
    [][\A e \in Environments, s \in Runs :
          service'[e] = s /\ service[e] # s /\ Jenkins(s)
          => \A r \in told[e] \ {s} : Jenkins(r) => Earlier(r, s)]_vars

(* "Deployment complete: SERVICE -> ARN" is true when it is written: the   *)
(* service is stable with the revision the script registered.              *)
CompleteMeansDeployed ==
    [][\A r \in Runs, e \in Environments :
          job[r][e] = "stable" /\ job'[r][e] = "done" => running[e] = r]_vars
=============================================================================
