------------------------ MODULE ConnectionResolution ------------------------
(* How flags, connection strings, the environment and pgmi.yaml become the *)
(* connection a deployment dials: internal/db/resolver.go and parser.go,   *)
(* internal/cli/connection.go and config_common.go, the end of             *)
(* cli/deploy.go and the start of services/deployer.go.                    *)
(*                                                                         *)
(* A value is opaque: the models give each source values of its own, so a  *)
(* value tells where it came from.  Only "" (not given), "bad" (does not   *)
(* parse, or is out of range) and the built-in defaults are told apart.    *)
EXTENDS Naturals, Sequences, FiniteSets

CONSTANT Strings   \* connection strings by name: [form, f]

Unset  == ""
Clouds == {"azure", "aws", "google"}

(* "cert" stands for sslcert, sslkey and sslrootcert, which share a rule,  *)
(* "tenant" for the Azure tenant and client ids.                           *)
Fields == {"host", "port", "user", "password", "db", "sslmode", "cert",
           "appname", "timeout", "tenant", "secret", "region", "instance", "mdb"}

NoFields == [x \in Fields |-> Unset]

(* The flags of a command, the environment and a parsed pgmi.yaml.         *)
NoFlags == [conn |-> Unset, f |-> NoFields, cloud |-> {}]
NoEnv   == [pgmi |-> Unset, url |-> Unset, f |-> NoFields]
NoYaml  == [form |-> "absent", f |-> NoFields, auth |-> Unset, params |-> FALSE]

Failed(code) == [ok |-> FALSE, code |-> code]

(* firstNonEmpty, and the if-empty chains written out elsewhere.           *)
FirstNonEmpty(vs) ==
  IF \E i \in DOMAIN vs : vs[i] # Unset
  THEN vs[CHOOSE i \in DOMAIN vs :
            vs[i] # Unset /\ \A j \in 1..(i - 1) : vs[j] = Unset]
  ELSE Unset

----------------------------------------------------------------------------
(* Parsing and building connection strings                                 *)

StringDefaults ==
  [NoFields EXCEPT !.host = "localhost", !.port = "5432", !.db = "postgres"]

ParseOK(form, f) ==
  form # "malformed" /\ f.port # "bad" /\ f.timeout # "bad"

ParseFields(f) == [x \in Fields |-> FirstNonEmpty(<<f[x], StringDefaults[x]>>)]

(* BuildConnectionString: cloud settings have no place in a URI, and a     *)
(* password is written only behind a user name.                            *)
BuildConnectionString(f) ==
  [x \in Fields |->
     CASE x \in {"tenant", "secret", "region", "instance", "mdb"} -> Unset
       [] x = "password" /\ f.user = Unset -> Unset
       [] OTHER -> f[x]]

----------------------------------------------------------------------------
(* ResolveConnectionParams                                                 *)

(* resolveFromConnectionString: the string's database, explicit or         *)
(* defaulted, is the maintenance database.                                 *)
ResolveFromConnectionString(s, env) ==
  IF ~ParseOK(s.form, s.f) THEN Failed(10)
  ELSE [ok |-> TRUE,
        f |-> [ParseFields(s.f) EXCEPT
                 !.sslmode = FirstNonEmpty(<<@, env.f.sslmode, "prefer">>),
                 !.mdb = ParseFields(s.f).db]]

GranularDefaults ==
  [NoFields EXCEPT !.host = "localhost", !.port = "5432",
                   !.user = "osuser", !.sslmode = "prefer"]

(* resolveFromGranularParams                                               *)
ResolveFromGranularParams(fl, env, yaml) ==
  IF \/ fl.f.port = "bad"
     \/ fl.f.port = Unset /\ env.f.port = "bad"
     \/ env.f.timeout = "bad"
  THEN Failed(10)
  ELSE [ok |-> TRUE,
        f |-> [x \in Fields |->
                 CASE x \in {"host", "port", "user", "db", "sslmode"} ->
                        FirstNonEmpty(<<fl.f[x], env.f[x], yaml.f[x], GranularDefaults[x]>>)
                   [] x \in {"password", "timeout"} -> env.f[x]
                   [] x = "appname" -> FirstNonEmpty(<<env.f[x], "pgmi">>)
                   [] x = "mdb" -> FirstNonEmpty(<<yaml.f.mdb, "postgres">>)
                   [] OTHER -> Unset]]

(* GranularConnFlags.IsEmpty: -d alone does not count.                     *)
GranularIsEmpty(fl) == \A x \in {"host", "port", "user", "sslmode"} : fl.f[x] = Unset

(* AzureFlags.IsEmpty and its siblings: a detail without its switch counts. *)
CloudFlagged(fl) ==
  fl.cloud \cup (IF fl.f.tenant # Unset THEN {"azure"} ELSE {})
           \cup (IF fl.f.region # Unset THEN {"aws"} ELSE {})
           \cup (IF fl.f.instance # Unset THEN {"google"} ELSE {})

Enabled(fl, yaml) == fl.cloud \cup ({yaml.auth} \cap Clouds)

(* applyAzureAuth, applyAWSAuth and applyGoogleAuth, in this order.        *)
AuthMethod(en) ==
  IF "google" \in en THEN "google"
  ELSE IF "aws" \in en THEN "aws"
  ELSE IF "azure" \in en THEN "azure"
  ELSE "standard"

CloudField(x, fl, env, yaml) ==
  LET en == Enabled(fl, yaml) IN
  CASE x = "tenant" /\ "azure" \in en    -> FirstNonEmpty(<<fl.f[x], env.f[x], yaml.f[x]>>)
    [] x = "secret" /\ "azure" \in en    -> env.f[x]
    [] x = "region" /\ "aws" \in en      -> FirstNonEmpty(<<fl.f[x], env.f[x], yaml.f[x]>>)
    [] x = "instance" /\ "google" \in en -> FirstNonEmpty(<<fl.f[x], yaml.f[x]>>)
    [] OTHER                             -> Unset

ApplyCertParams_EnvFirst(cert, fl, env, yaml) ==
  FirstNonEmpty(<<fl.f.cert, env.f.cert, cert, yaml.f.cert>>)

(* applyCertParams: flag, connection string, environment, pgmi.yaml.       *)
ApplyCertParams(cert, fl, env, yaml) ==
  FirstNonEmpty(<<fl.f.cert, cert, env.f.cert, yaml.f.cert>>)

(* connectionStringFromEnv                                                 *)
ConnectionStringFromEnv(env) == FirstNonEmpty(<<env.pgmi, env.url>>)

(* resolveConnection, ResolveConnectionParams, and the password of         *)
(* resolveConnectionFromFlags, which fills a gap only.  DATABASE_URL has   *)
(* become the string by then, so the resolver's own path for it is idle.   *)
Resolve(fl, env, yaml) ==
  LET name == FirstNonEmpty(<<fl.conn, ConnectionStringFromEnv(env)>>)
      base == IF name # Unset
              THEN ResolveFromConnectionString(Strings[name], env)
              ELSE ResolveFromGranularParams(fl, env, yaml) IN
  IF Cardinality(CloudFlagged(fl)) > 1 \/ (name # Unset /\ ~GranularIsEmpty(fl))
  THEN Failed(10)
  ELSE IF ~base.ok THEN base
  ELSE [ok |-> TRUE,
        auth |-> AuthMethod(Enabled(fl, yaml)),
        f |-> [x \in Fields |->
                 CASE x = "cert" -> ApplyCertParams(base.f.cert, fl, env, yaml)
                   [] x = "password" -> FirstNonEmpty(<<base.f.password, fl.f.password>>)
                   [] x \in {"tenant", "secret", "region", "instance"} ->
                        CloudField(x, fl, env, yaml)
                   [] OTHER -> base.f[x]]]

----------------------------------------------------------------------------
(* From the resolved parameters to the connections the deployer opens      *)

(* resolveTargetDatabase                                                   *)
ResolveTargetDatabase(fl, f) == FirstNonEmpty(<<fl.f.db, f.db>>)

(* determineMaintenanceDB                                                  *)
DetermineMaintenanceDB(fl, f) ==
  IF fl.f.db = Unset /\ f.db \notin {Unset, "postgres"}
  THEN "postgres"
  ELSE f.mdb

(* buildDeploymentConfig: the target replaces the database, the rest goes  *)
(* into a URI, and beside it travel the auth method and Azure's ids.       *)
BuildDeploymentConfig(fl, env, yaml) ==
  LET r == Resolve(fl, env, yaml) IN
  IF fl.f.sslmode = "bad" THEN Failed(10)
  ELSE IF ~r.ok THEN r
  ELSE IF ResolveTargetDatabase(fl, r.f) = Unset THEN Failed(10)
  ELSE [ok |-> TRUE, auth |-> r.auth,
        uri |-> BuildConnectionString(
                  [r.f EXCEPT !.db = ResolveTargetDatabase(fl, r.f)]),
        tenant |-> r.f.tenant, secret |-> r.f.secret,
        mdb |-> DetermineMaintenanceDB(fl, r.f)]

(* The deployer parses the URI again and puts back what it was given.      *)
DeployerConfig(dc) ==
  IF ~ParseOK("uri", dc.uri) THEN Failed(1)
  ELSE [ok |-> TRUE, auth |-> dc.auth, mdb |-> dc.mdb,
        f |-> [ParseFields(dc.uri) EXCEPT !.appname = FirstNonEmpty(<<@, "pgmi">>),
                                          !.tenant = dc.tenant, !.secret = dc.secret]]

(* NewConnector: AWS needs a region and a user, Google an instance and a   *)
(* user; anything else is dialled.                                         *)
NewConnector(c) ==
  CASE c.auth = "aws" /\ Unset \in {c.f.region, c.f.user}      -> Failed(10)
    [] c.auth = "google" /\ Unset \in {c.f.instance, c.f.user} -> Failed(10)
    [] OTHER                                                   -> c
=============================================================================
