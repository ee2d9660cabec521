----------------------------- MODULE MCStartUp -----------------------------
(***************************************************************************)
(* Starting for TLC: one container and one shell locally; two workers      *)
(* deployed, with nothing but the environment's name in their task         *)
(* definition, or with an override.                                        *)
(***************************************************************************)
EXTENDS StartUp, TLC

CONSTANTS api, shell, worker1, worker2

(* docker-compose.yml.                                                     *)
Compose == [ENVIRONMENT |-> "local", SECRET_KEY |-> "local-dev",
            ALGORITHM |-> "HS256"]

(* task-definition.template.json, and with what ECS may set beside it.     *)
Task == [ENVIRONMENT |-> "dev"]

MCSites ==
    {[environ |-> Compose, servers |-> {api}, shells |-> {shell}]} \cup
    {[environ |-> environ, servers |-> {worker1, worker2}, shells |-> {}] :
        environ \in {Task, Task @@ ("ALGORITHM" :> "HS256"),
                     Task @@ ("JWT_PUBLIC_KEY" :> "pair1")}}

(* What config.py documents, a weak one, and key pairs, with and without   *)
(* the public half.                                                        *)
Documented == [SECRET_KEY |-> "hex32"]
MCSecrets ==
    {Documented, [SECRET_KEY |-> "short"],
     Documented @@ ("JWT_PRIVATE_KEY" :> "pair1"),
     Documented @@ ("JWT_PRIVATE_KEY" :> "pair2"),
     Documented @@ ("JWT_PRIVATE_KEY" :> "pair2") @@
                   ("JWT_PUBLIC_KEY" :> "pair2")}

MCStrong == {"hex32", "local-dev"}
=============================================================================
