---------------------------- MODULE MCConnection ----------------------------
(* Instances of ConnectionSetup.  A value names its source: f flag, e      *)
(* environment, y pgmi.yaml, s connection string, w typed into the wizard. *)
EXTENDS ConnectionSetup

MCStrings ==
  [s1 |-> [form |-> "uri",
           f |-> [NoFields EXCEPT !.host = "s-host", !.user = "s-user",
                                  !.password = "s-pw", !.db = "s-db",
                                  !.cert = "s-cert"]],
   s2 |-> [form |-> "uri", f |-> [NoFields EXCEPT !.host = "s-host", !.port = "6543",
                                                  !.sslmode = "s-ssl"]],
   s3 |-> [form |-> "malformed", f |-> NoFields]]

MCTyped(x) ==
  CASE x = "port" -> {"nan", "bad"}
    [] x = "user" -> {"w-user"}
    [] x = "host" -> {"w-host"}
    [] x = "db" -> {"w-db"}
    [] x = "mdb" -> {"w-mdb"}
    [] x = "password" -> {"w-pw"}
    [] x = "region" -> {"w-region"}
    [] x = "instance" -> {"w-instance"}
    [] OTHER -> {"s1", "s3"}

MCFlagSets ==
  { NoFlags,
    [NoFlags EXCEPT !.f.user = "f-user", !.f.sslmode = "f-ssl"],
    [NoFlags EXCEPT !.cloud = {"azure"}, !.f.tenant = "f-tenant"],
    [NoFlags EXCEPT !.f.db = "f-db", !.f.cert = "f-cert"],
    [NoFlags EXCEPT !.f.host = "f-host", !.f.port = "bad", !.f.db = "f-db"],
    [NoFlags EXCEPT !.f.sslmode = "bad", !.f.db = "f-db"],
    [NoFlags EXCEPT !.conn = "s1"],
    [NoFlags EXCEPT !.conn = "s2", !.f.db = "f-db"],
    [NoFlags EXCEPT !.conn = "s3"],
    [NoFlags EXCEPT !.conn = "s1", !.f.host = "f-host"],
    [NoFlags EXCEPT !.cloud = {"aws"}, !.f.region = "f-region", !.f.host = "f-host",
                    !.f.user = "f-user", !.f.db = "f-db"] }

MCEnvs ==
  { NoEnv,
    [NoEnv EXCEPT !.f.sslmode = "e-ssl", !.f.cert = "e-cert", !.f.host = "e-host",
                  !.f.password = "e-pw"],
    [NoEnv EXCEPT !.f.host = "e-host", !.f.db = "e-db", !.f.user = "e-user"],
    [NoEnv EXCEPT !.f.port = "bad"],
    [NoEnv EXCEPT !.url = "s2", !.f.host = "e-host", !.f.cert = "e-cert"] }

MCYamls ==
  { NoYaml,
    [NoYaml EXCEPT !.form = "malformed"],
    [NoYaml EXCEPT !.form = "ok", !.params = TRUE, !.f.sslmode = "y-ssl"],
    [NoYaml EXCEPT !.form = "ok", !.params = TRUE, !.f.host = "y-host",
                   !.f.port = "7654", !.f.user = "y-user", !.f.db = "y-db",
                   !.f.cert = "y-cert", !.f.mdb = "y-mdb"],
    [NoYaml EXCEPT !.form = "ok", !.f.port = "bad", !.f.db = "y-db", !.auth = "azure"] }

(* A line for the connection typed into the wizard stands for an earlier  *)
(* save; another user of that database has a line of their own and, behind *)
(* it, one they never reach.                                               *)
MCPgpass0 ==
  << [host |-> "w-host", port |-> "5432", db |-> "w-db", user |-> "u", password |-> "kept"],
     [host |-> "*", port |-> "*", db |-> "*", user |-> "postgres", password |-> "old"],
     [host |-> "w-host", port |-> "5432", db |-> "w-db", user |-> "postgres", password |-> "older"],
     [host |-> "*", port |-> "*", db |-> "*", user |-> "u", password |-> "shadowed"] >>

MCClients ==
  [host : {"w-host", "other"}, port : {"5432"}, db : {"w-db", "x"},
   user : {"postgres", "w-user", "u"}]
=============================================================================
