-------------------------- MODULE DeploymentProofs --------------------------
(***************************************************************************)
(* What the two pipelines keep to, for any number of runs and any triggers *)
(* they may have: what reaches prod was let through, Jenkins never goes    *)
(* back to an older build, and an image is missing for one reason only.    *)
(***************************************************************************)
EXTENDS Deployment, TLAPS

Triggered == [by : {"push", "dispatch", "jenkins"},
              env : Environments, onTag : BOOLEAN]

-----------------------------------------------------------------------------
(* Types.                                                                  *)
LEMMA TypeInit == Init => TypeOK
  BY DEF Init, TypeOK, Running

LEMMA TellType ==
    ASSUME TypeOK, NEW e \in Environments, NEW r \in Runs, Tell(e, r)
    PROVE  /\ service' \in [Environments -> Runs \cup {Initial}]
           /\ told' \in [Environments -> SUBSET Runs]
           /\ service'[e] = r /\ told'[e] = told[e] \cup {r}
           /\ \A f \in Environments \ {e} :
                  service'[f] = service[f] /\ told'[f] = told[f]
  BY DEF TypeOK, Tell

LEMMA TypeStep == TypeOK /\ [Next]_vars => TypeOK'
  <1> SUFFICES ASSUME TypeOK, [Next]_vars PROVE TypeOK'
    OBVIOUS
  <1> USE DEF TypeOK, Running, Goto, services
  <1>1. ASSUME NEW r \in Runs, Start(r)
        PROVE  TypeOK'
    <2>1. Append(begun, r) \in Seq(Runs)
      OBVIOUS
    <2> QED
      BY <1>1, <2>1 DEF Start
  <1>2. ASSUME NEW r \in Runs, Push(r)
        PROVE  TypeOK'
    <2>1. job' \in [Runs -> [Environments ->
                       {"none", "done", "failed"} \cup Running]]
      BY <1>2 DEF Push
    <2>2. repo' \in [Environments -> SUBSET Runs]
      BY <1>2 DEF Push
    <2> QED
      BY <1>2, <2>1, <2>2 DEF Push
  <1>3. ASSUME NEW r \in Runs, BuildFails(r)
        PROVE  TypeOK'
    BY <1>3 DEF BuildFails
  <1>4. ASSUME NEW r \in Runs, Approve(r)
        PROVE  TypeOK'
    BY <1>4 DEF Approve
  <1>5. ASSUME NEW r \in Runs, NEW e \in Environments, Register(r, e)
        PROVE  TypeOK'
    BY <1>5 DEF Register
  <1>6. ASSUME NEW r \in Runs, NEW e \in Environments, Update(r, e)
        PROVE  TypeOK'
    BY <1>6, TellType DEF Update
  <1>7. ASSUME NEW r \in Runs, NEW e \in Environments, Stable(r, e)
        PROVE  TypeOK'
    BY <1>7 DEF Stable
  <1>8. ASSUME NEW r \in Runs, NEW e \in Environments, JobFails(r, e)
        PROVE  TypeOK'
    <2>1. /\ service' \in [Environments -> Runs \cup {Initial}]
          /\ told' \in [Environments -> SUBSET Runs]
      BY <1>8, TellType DEF JobFails
    <2> QED
      BY <1>8, <2>1 DEF JobFails
  <1>9. ASSUME NEW e \in Environments, Rollout(e)
        PROVE  TypeOK'
    BY <1>9 DEF Rollout
  <1>10. CASE UNCHANGED vars
    BY <1>10 DEF vars
  <1> QED
    BY <1>1, <1>2, <1>3, <1>4, <1>5, <1>6, <1>7, <1>8, <1>9, <1>10 DEF Next

(* Every variable keeps its type (deploy.yml, Jenkinsfile, ecs-deploy.sh). *)
THEOREM DeploymentTypeCorrect == Spec => []TypeOK
  BY TypeInit, TypeStep, PTL DEF Spec

-----------------------------------------------------------------------------
(* The jobs of a run and what they leave behind.                           *)

(* A job exists only for an environment the run deploys to, and only once  *)
(* the image has been pushed.                                              *)
JobsPushed ==
    \A r \in Runs, e \in Environments :
        job[r][e] # "none" => build[r] = "pushed" /\ Deploys(r, e)

ImagesKept == \A r \in Runs : build[r] = "pushed" => r \in repo[Repository(r)]

(* What a service is told is among what it was told, and that came out of  *)
(* jobs of its environment.                                                *)
ToldByJob ==
    \A e \in Environments :
        /\ service[e] \in told[e] \cup {Initial}
        /\ \A r \in told[e] : build[r] = "pushed" /\ Deploys(r, e)

(* A job is past its gate only if somebody let it through.                 *)
GateKept ==
    \A r \in Runs : job[r]["prod"] = "update" => <<r, "deploy">> \in approved

JobInv == TypeOK /\ JobsPushed /\ ImagesKept /\ ToldByJob /\ GateKept

(* The names of a run's environment and jobs depend on its trigger alone.  *)
LEMMA SameTrigger ==
    ASSUME UNCHANGED trigger
    PROVE  \A r : /\ Jenkins(r)' <=> Jenkins(r)
                  /\ Repository(r)' = Repository(r)
                  /\ \A e : Deploys(r, e)' <=> Deploys(r, e)
  BY DEF Jenkins, Repository, Target, Deploys

LEMMA RepositoryTyped ==
    ASSUME TypeOK, NEW r \in Runs
    PROVE  Repository(r) \in Environments
  <1>1. trigger[r] \in Triggered
    BY DeploymentAssumption DEF TypeOK, Triggered
  <1>2. trigger[r].env \in Environments
    BY <1>1 DEF Triggered
  <1> QED
    BY <1>2 DEF Repository, Target, Environments

LEMMA JobInit == Init => JobInv
  BY TypeInit DEF Init, JobInv, JobsPushed, ImagesKept, ToldByJob, GateKept,
     Environments

(* Any step of a job: it stays where it was a job, passes its gate when it *)
(* is open, and tells the service nothing but its own revision.            *)
LEMMA JobSteps ==
    ASSUME JobInv, TypeOK', NEW r \in Runs, NEW e \in Environments,
           job[r][e] # "none", NEW place \in {"done", "failed"} \cup Running,
           Goto(r, e, place), place = "update" => Gate(r, e),
           UNCHANGED <<trigger, build, approved, repo>>,
           UNCHANGED services \/ Tell(e, r)
    PROVE  JobInv'
  <1> USE DEF JobInv
  <1>a. /\ job'[r][e] = place
        /\ \A s \in Runs, f \in Environments :
               s # r \/ f # e => job'[s][f] = job[s][f]
    BY DEF TypeOK, Goto
  <1>b. /\ \A f \in Environments : told'[f] \subseteq Runs
        /\ \A f \in Environments :
               \/ service'[f] = service[f] /\ told'[f] = told[f]
               \/ f = e /\ service'[f] = r /\ told'[f] = told[f] \cup {r}
    BY TellType DEF services, TypeOK
  <1>1. JobsPushed'
    BY <1>a, SameTrigger DEF JobsPushed
  <1>2. ImagesKept'
    BY SameTrigger DEF ImagesKept
  <1>3. ToldByJob'
    <2>1. build[r] = "pushed" /\ Deploys(r, e)
      BY DEF JobsPushed
    <2>2. ASSUME NEW f \in Environments
          PROVE  /\ service'[f] \in told'[f] \cup {Initial}
                 /\ \A s \in told'[f] : build[s] = "pushed" /\ Deploys(s, f)
      <3>1. CASE service'[f] = service[f] /\ told'[f] = told[f]
        BY <3>1 DEF ToldByJob
      <3>2. CASE f = e /\ service'[f] = r /\ told'[f] = told[f] \cup {r}
        BY <2>1, <3>2 DEF ToldByJob
      <3> QED
        BY <1>b, <3>1, <3>2
    <2> QED
      BY <2>2, SameTrigger DEF ToldByJob
  <1>4. GateKept'
    BY <1>a DEF GateKept, Gate, Environments
  <1> QED
    BY <1>1, <1>2, <1>3, <1>4

LEMMA JobStep == JobInv /\ [Next]_vars => JobInv'
  <1> SUFFICES ASSUME JobInv, [Next]_vars PROVE JobInv'
    OBVIOUS
  <1>0. TypeOK /\ TypeOK'
    BY TypeStep DEF JobInv
  <1> USE DEF JobInv, services
  <1>1. ASSUME NEW r \in Runs, Start(r) \/ BuildFails(r)
        PROVE  JobInv'
    <2>1. /\ UNCHANGED <<trigger, job, approved, repo, services>>
          /\ build[r] # "pushed" /\ build'[r] # "pushed"
          /\ \A s \in Runs \ {r} : build'[s] = build[s]
      BY <1>0, <1>1 DEF Start, BuildFails, TypeOK
    <2>2. JobsPushed' /\ ImagesKept'
      BY <2>1, SameTrigger DEF JobsPushed, ImagesKept
    <2>3. ToldByJob'
      BY <1>0, <2>1, SameTrigger DEF ToldByJob, TypeOK
    <2>4. GateKept'
      BY <2>1 DEF GateKept
    <2> QED
      BY <1>0, <2>2, <2>3, <2>4
  <1>2. ASSUME NEW r \in Runs, Push(r)
        PROVE  JobInv'
    <2> USE <1>0, <1>2 DEF Push, TypeOK
    <2>1. /\ UNCHANGED <<trigger, approved, services>>
          /\ build[r] # "pushed" /\ build'[r] = "pushed"
          /\ \A s \in Runs \ {r} : build'[s] = build[s] /\ job'[s] = job[s]
      OBVIOUS
    <2>2. \A e \in Environments :
              job'[r][e] = IF Deploys(r, e) THEN "register" ELSE "none"
      OBVIOUS
    <2>3. JobsPushed'
      <3>1. ASSUME NEW s \in Runs, NEW e \in Environments, job'[s][e] # "none"
            PROVE  build'[s] = "pushed" /\ Deploys(s, e)
        BY <2>1, <2>2, <3>1 DEF JobsPushed
      <3> QED
        BY <2>1, <3>1, SameTrigger DEF JobsPushed
    <2>4. ImagesKept'
      BY <2>1, SameTrigger, RepositoryTyped DEF ImagesKept
    <2>5. ToldByJob'
      <3>1. build'[r] = "pushed"
        BY <2>1
      <3>2. \A s \in Runs \ {r} : build'[s] = build[s] /\ job'[s] = job[s]
        BY <2>1
      <3>3. \A s \in Runs : build[s] = "pushed" => build'[s] = "pushed"
        BY <3>1, <3>2
      <3>4. ASSUME NEW e \in Environments, NEW s \in told[e]
            PROVE  build'[s] = "pushed" /\ Deploys(s, e)
        <4>1. s \in Runs
          BY <1>0, <3>4
        <4> QED
          BY <3>3, <3>4, <4>1 DEF ToldByJob
      <3> QED
        BY <2>1, <3>4, SameTrigger DEF ToldByJob, services
    <2>6. GateKept'
      BY <2>1, <2>2 DEF GateKept, Environments
    <2> QED
      BY <2>3, <2>4, <2>5, <2>6
  <1>3. ASSUME NEW r \in Runs, Approve(r)
        PROVE  JobInv'
    <2>1. UNCHANGED <<trigger, build, job, repo, services>>
      BY <1>3 DEF Approve
    <2>2. approved \subseteq approved'
      BY <1>3 DEF Approve
    <2> QED
      BY <1>0, <2>1, <2>2, SameTrigger
         DEF JobsPushed, ImagesKept, ToldByJob, GateKept
  <1>4. ASSUME NEW r \in Runs, NEW e \in Environments,
               \/ Register(r, e) \/ Update(r, e)
               \/ Stable(r, e) \/ JobFails(r, e)
        PROVE  JobInv'
    <2> USE DEF Running
    <2>1. CASE Register(r, e)
      BY <1>0, <2>1, JobSteps DEF Register
    <2>2. CASE Update(r, e)
      BY <1>0, <2>2, JobSteps DEF Update
    <2>3. CASE Stable(r, e)
      BY <1>0, <2>3, JobSteps DEF Stable
    <2>4. CASE JobFails(r, e)
      BY <1>0, <2>4, JobSteps DEF JobFails
    <2> QED
      BY <1>4, <2>1, <2>2, <2>3, <2>4
  <1>5. ASSUME (\E e \in Environments : Rollout(e)) \/ UNCHANGED vars
        PROVE  JobInv'
    <2>1. UNCHANGED <<trigger, build, job, approved, repo, services>>
      BY <1>5 DEF Rollout, vars
    <2> QED
      BY <1>0, <2>1, SameTrigger
         DEF JobsPushed, ImagesKept, ToldByJob, GateKept
  <1> QED
    BY <1>1, <1>2, <1>3, <1>4, <1>5 DEF Next

LEMMA JobInvariant == Spec => []JobInv
  BY JobInit, JobStep, PTL DEF Spec

(* What a step tells a service: the revision of a job that is about to     *)
(* update it.                                                              *)
LEMMA WhoTells ==
    ASSUME TypeOK, [Next]_vars, NEW e \in Environments,
           service'[e] # service[e]
    PROVE  \E r \in Runs : /\ job[r][e] = "update" /\ service'[e] = r
                           /\ UNCHANGED <<trigger, approved>>
  <1>1. PICK r \in Runs, f \in Environments : Update(r, f) \/ JobFails(r, f)
    BY DEF Next, vars, services, Start, Push, BuildFails, Approve, Register,
       Stable, Rollout
  <1>2. /\ job[r][f] = "update" /\ Tell(f, r)
        /\ UNCHANGED <<trigger, approved>>
    BY <1>1 DEF Update, JobFails, services
  <1> QED
    BY <1>2, TellType

(* Nothing reaches prod that nobody let through for that very run: by the  *)
(* workflow's prod environment or by the input step of Jenkins, whatever   *)
(* started the run (deploy.yml, Jenkinsfile).                              *)
THEOREM ProdApprovedAlways == Spec => ProdApproved
  <1>1. JobInv /\ [Next]_vars =>
            [service'["prod"] # service["prod"]
                => <<service'["prod"], "deploy">> \in approved]_vars
    BY WhoTells DEF JobInv, GateKept, Environments
  <1> QED
    BY <1>1, JobInvariant, PTL DEF Spec, ProdApproved

(* A GitHub run of a v* tag that was not dispatched for prod: its image    *)
(* goes to another repository, and its deploy-prod job runs all the same.  *)
TagElsewhere(t) ==
    t.by # "jenkins" /\ t.onTag /\ ~(t.by = "dispatch" /\ t.env = "prod")

(* The image a service is told is missing in one case only: prod is told   *)
(* the revision of a tag whose image was pushed for another environment    *)
(* (the if: of deploy-prod against the registry of the build job).         *)
ImageMissingOnlyForTag ==
    \A e \in Environments :
        service[e] # Initial /\ service[e] \notin repo[e]
            => e = "prod" /\ TagElsewhere(trigger[service[e]])

THEOREM ImageMissingOnlyForTagAlways == Spec => []ImageMissingOnlyForTag
  <1>1. JobInv => ImageMissingOnlyForTag
    <2> SUFFICES ASSUME JobInv, NEW e \in Environments, service[e] # Initial,
                        service[e] \notin repo[e]
                 PROVE  e = "prod" /\ TagElsewhere(trigger[service[e]])
      BY DEF ImageMissingOnlyForTag
    <2> DEFINE r == service[e]
    <2>1. /\ r \in Runs /\ build[r] = "pushed" /\ Deploys(r, e)
          /\ r \in repo[Repository(r)] /\ trigger[r] \in Triggered
      BY DeploymentAssumption
         DEF JobInv, TypeOK, ImagesKept, ToldByJob, Triggered
    <2>2. e # Target(r)
      BY <2>1 DEF Repository
    <2>3. e = "prod" /\ ~Jenkins(r) /\ trigger[r].onTag /\ Target(r) # "prod"
      BY <2>1, <2>2 DEF Deploys
    <2> QED
      BY <2>3 DEF TagElsewhere, Jenkins, Target
  <1> QED
    BY <1>1, JobInvariant, PTL

(* Where no tag is involved but by dispatching it for prod, every service  *)
(* is told a revision whose image its repository has (deploy.yml,          *)
(* Jenkinsfile; TagToProd shows that the hypothesis is needed).            *)
THEOREM ImagePresentAlways ==
    ASSUME \A t \in Triggers : ~TagElsewhere(t)
    PROVE  Spec => []ImagePresent
  <1>1. JobInv /\ ImageMissingOnlyForTag => ImagePresent
    BY DEF JobInv, TypeOK, ImageMissingOnlyForTag, ImagePresent
  <1> QED
    BY <1>1, JobInvariant, ImageMissingOnlyForTagAlways, PTL

-----------------------------------------------------------------------------
(* The order of the Jenkins builds.                                        *)
HasBegun(r) == \E i \in DOMAIN begun : begun[i] = r

AllListed == \A r \in Runs : build[r] # "idle" => HasBegun(r)

OneJenkins ==
    \A r, s \in Runs :
        Jenkins(r) /\ Jenkins(s) /\ Underway(r) /\ Underway(s) => r = s

(* The Jenkins build that is underway is the one that began last.          *)
UnderwayIsLast ==
    \A r, s \in Runs :
        /\ Jenkins(r) /\ Jenkins(s) /\ Underway(s) /\ r # s
        /\ HasBegun(r)
        => Earlier(r, s)

OrderInv == JobInv /\ AllListed /\ OneJenkins /\ UnderwayIsLast

(* begun only grows at its end.                                            *)
LEMMA Appended ==
    ASSUME TypeOK, NEW r \in Runs, begun' = Append(begun, r)
    PROVE  /\ HasBegun(r)'
           /\ \A s \in Runs : HasBegun(s)' <=> HasBegun(s) \/ s = r
           /\ \A s \in Runs : HasBegun(s) => Earlier(s, r)'
           /\ \A s, t \in Runs : Earlier(s, t) => Earlier(s, t)'
  <1> DEFINE n == Len(begun)
  <1>1. /\ n \in Nat /\ DOMAIN begun = 1 .. n /\ DOMAIN begun' = 1 .. n + 1
        /\ begun'[n + 1] = r /\ \A i \in 1 .. n : begun'[i] = begun[i]
    BY DEF TypeOK
  <1> HIDE DEF n
  <1>2. \A i \in 1 .. n + 1 : i \in 1 .. n \/ i = n + 1
    BY <1>1
  <1>3. 1 .. n \subseteq 1 .. n + 1 /\ n + 1 \in 1 .. n + 1
        /\ \A i \in 1 .. n : i < n + 1
    BY <1>1
  <1> QED
    BY <1>1, <1>2, <1>3 DEF HasBegun, Earlier

LEMMA OrderInit == Init => OrderInv
  BY JobInit DEF Init, OrderInv, AllListed, OneJenkins, UnderwayIsLast,
     Underway, Running

(* A step that begins no run and makes none underway keeps the order.      *)
LEMMA NoneBegins ==
    ASSUME OrderInv, JobInv', UNCHANGED <<trigger, begun>>,
           \A r \in Runs : /\ build'[r] = "idle" <=> build[r] = "idle"
                           /\ Underway(r)' => Underway(r)
    PROVE  OrderInv'
  <1>1. /\ \A r : HasBegun(r)' <=> HasBegun(r)
        /\ \A r, s : Earlier(r, s)' <=> Earlier(r, s)
    BY DEF HasBegun, Earlier
  <1> QED
    BY <1>1, SameTrigger
       DEF OrderInv, AllListed, OneJenkins, UnderwayIsLast

LEMMA OrderStep == OrderInv /\ [Next]_vars => OrderInv'
  <1> SUFFICES ASSUME OrderInv, [Next]_vars PROVE OrderInv'
    OBVIOUS
  <1>0. JobInv /\ JobInv' /\ TypeOK /\ TypeOK'
    BY JobStep DEF OrderInv, JobInv
  <1>1. ASSUME NEW r \in Runs, Start(r)
        PROVE  OrderInv'
    <2>1. /\ begun' = Append(begun, r) /\ UNCHANGED trigger
          /\ \A s \in Runs \ {r} : /\ build'[s] = build[s]
                                   /\ Underway(s)' <=> Underway(s)
      BY <1>0, <1>1 DEF Start, TypeOK, Underway
    <2>2. Jenkins(r) => \A s \in Runs : Jenkins(s) => ~Underway(s)
      BY <1>1 DEF Start, MayStart
    <2>3. AllListed'
      BY <1>0, <2>1, Appended DEF OrderInv, AllListed
    <2>4. OneJenkins'
      BY <2>1, <2>2, SameTrigger DEF OrderInv, OneJenkins
    <2>5. UnderwayIsLast'
      BY <1>0, <2>1, <2>2, SameTrigger, Appended DEF OrderInv, UnderwayIsLast
    <2> QED
      BY <1>0, <2>3, <2>4, <2>5 DEF OrderInv
  <1>2. ASSUME NEW r \in Runs, Push(r) \/ BuildFails(r)
        PROVE  OrderInv'
    <2>1. /\ UNCHANGED <<trigger, begun>>
          /\ build[r] = "build" /\ build'[r] \in {"pushed", "failed"}
          /\ \A s \in Runs \ {r} : build'[s] = build[s] /\ job'[s] = job[s]
      BY <1>0, <1>2 DEF Push, BuildFails, TypeOK
    <2>2. \A s \in Runs : /\ build'[s] = "idle" <=> build[s] = "idle"
                          /\ Underway(s)' => Underway(s)
      BY <2>1 DEF Underway
    <2> QED
      BY <1>0, <2>1, <2>2, NoneBegins
  <1>3. ASSUME NEW r \in Runs, NEW e \in Environments,
               \/ Register(r, e) \/ Update(r, e)
               \/ Stable(r, e) \/ JobFails(r, e)
        PROVE  OrderInv'
    <2>1. UNCHANGED <<trigger, begun, build>> /\ job[r][e] \in Running
      BY <1>3 DEF Register, Update, Stable, JobFails, Running
    <2>2. \A s \in Runs \ {r} : job'[s] = job[s]
      BY <1>0, <1>3 DEF Register, Update, Stable, JobFails, Goto, TypeOK
    <2>3. \A s \in Runs : Underway(s)' => Underway(s)
      BY <2>1, <2>2 DEF Underway
    <2> QED
      BY <1>0, <2>1, <2>3, NoneBegins
  <1>4. ASSUME \/ \E r \in Runs : Approve(r)
               \/ \E e \in Environments : Rollout(e)
               \/ UNCHANGED vars
        PROVE  OrderInv'
    <2>1. UNCHANGED <<trigger, begun, build, job>>
      BY <1>4 DEF Approve, Rollout, vars
    <2>2. \A s \in Runs : Underway(s)' => Underway(s)
      BY <2>1 DEF Underway
    <2> QED
      BY <1>0, <2>1, <2>2, NoneBegins
  <1> QED
    BY <1>1, <1>2, <1>3, <1>4 DEF Next

LEMMA OrderInvariant == Spec => []OrderInv
  BY OrderInit, OrderStep, PTL DEF Spec

(* Jenkins never goes back: what it tells a service is newer than all it   *)
(* ever told that service, whatever fails and whatever GitHub runs tell it *)
(* in between (disableConcurrentBuilds in the Jenkinsfile).                *)
THEOREM JenkinsInOrderAlways == Spec => JenkinsInOrder
  <1>1. ASSUME OrderInv, [Next]_vars, NEW e \in Environments, NEW s \in Runs,
               service'[e] = s, service[e] # s, Jenkins(s),
               NEW r \in told[e] \ {s}, Jenkins(r)
        PROVE  Earlier(r, s)
    <2> USE <1>1
    <2>1. job[s][e] = "update"
      BY WhoTells DEF OrderInv, JobInv
    <2>2. Underway(s)
      BY <2>1 DEF Underway, Running
    <2>3. r \in Runs /\ build[r] = "pushed"
      BY DEF OrderInv, JobInv, TypeOK, ToldByJob
    <2>4. HasBegun(r)
      BY <2>3 DEF OrderInv, AllListed
    <2> QED
      BY <2>2, <2>3, <2>4 DEF OrderInv, UnderwayIsLast
  <1>2. OrderInv /\ [Next]_vars =>
            [\A e \in Environments, s \in Runs :
                service'[e] = s /\ service[e] # s /\ Jenkins(s)
                => \A r \in told[e] \ {s} : Jenkins(r) => Earlier(r, s)]_vars
    BY <1>1
  <1> QED
    BY <1>2, OrderInvariant, PTL DEF Spec, JenkinsInOrder
=============================================================================
