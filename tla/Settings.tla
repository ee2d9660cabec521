------------------------------ MODULE Settings ------------------------------
(***************************************************************************)
(* What a process knows when it has imported app.core.config, and what     *)
(* app.core.security and the JWKS endpoint make of it.                     *)
(*                                                                         *)
(* An environment (os.environ) and a secret (the JSON object kept in AWS   *)
(* Secrets Manager) are functions from the names that are set to their     *)
(* values.  A key pair stands for both its PEMs: the private key signs     *)
(* what the public one verifies.  URLs, log level, origins and token       *)
(* lifetime are left out: no validator judges them.                        *)
(***************************************************************************)
CONSTANTS
    Strong,  \* the values of SECRET_KEY that have 32 characters or more
    Null     \* None: a field without a value

(* os.getenv(name, default).                                               *)
Get(environ, name, default) ==
    IF name \in DOMAIN environ THEN environ[name] ELSE default

Local(environ) == Get(environ, "ENVIRONMENT", "local") = "local"
Testing(environ) == Get(environ, "TESTING", "false") = "true"

(* os.environ.setdefault: what the task definition says wins.              *)
SetDefaults(environ, secret) ==
    [n \in DOMAIN environ \cup DOMAIN secret |->
        IF n \in DOMAIN environ THEN environ[n] ELSE secret[n]]

(* _load_aws_secrets does not ask AWS locally or under test.               *)
AsksAWS(environ) == ~Local(environ) /\ ~Testing(environ)

Environ(environ, secret) ==
    IF AsksAWS(environ) THEN SetDefaults(environ, secret) ELSE environ

(* Settings(): the fields read from the environment, with their defaults.  *)
Fields(environ) ==
    [secretKey  |-> Get(environ, "SECRET_KEY", Null),
     algorithm  |-> Get(environ, "ALGORITHM", "RS256"),
     privateKey |-> Get(environ, "JWT_PRIVATE_KEY", Null),
     publicKey  |-> Get(environ, "JWT_PUBLIC_KEY", Null)]

(* Mutant: any key will do for RS256.                                      *)
ValidWithPublicKey(environ) ==
    LET f == Fields(environ)
    IN  /\ f.secretKey # Null
        /\ Local(environ) \/ f.secretKey \in Strong
        /\ f.algorithm = "RS256" /\ AsksAWS(environ)
               => f.privateKey # Null \/ f.publicKey # Null

(* The field is required, secret_key_must_be_strong, and                   *)
(* rs256_requires_private_key.  An invalid environment raises at import.   *)
Valid(environ) ==
    LET f == Fields(environ)
    IN  /\ f.secretKey # Null
        /\ Local(environ) \/ f.secretKey \in Strong
        /\ f.algorithm = "RS256" /\ AsksAWS(environ) => f.privateKey # Null

-----------------------------------------------------------------------------
(* _signing_key and _verification_key; Null where they raise.              *)
SigningKey(s) == IF s.algorithm = "RS256" THEN s.privateKey ELSE s.secretKey

(* Mutant: RS256 tokens are verified with the shared secret.               *)
VerificationKeyShared(s) ==
    IF s.algorithm = "RS256" /\ s.publicKey # Null THEN s.publicKey
    ELSE s.secretKey

VerificationKey(s) ==
    IF s.algorithm # "RS256" THEN s.secretKey
    ELSE IF s.publicKey # Null THEN s.publicKey ELSE s.privateKey

(* The keys served at /.well-known/jwks.json, which API Gateway verifies   *)
(* tokens with.                                                            *)
Jwks(s) ==
    IF s.algorithm = "RS256" /\ VerificationKey(s) # Null
    THEN {VerificationKey(s)} ELSE {}

(* create_access_token by one process, decode_token by another, as far as  *)
(* keys go: claims and expiry are the business of Accounts.tla.            *)
Token(s) == [algorithm |-> s.algorithm, key |-> SigningKey(s)]

Accepts(s, token) ==
    /\ token.key # Null
    /\ s.algorithm = token.algorithm
    /\ VerificationKey(s) = token.key
=============================================================================
