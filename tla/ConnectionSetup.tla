--------------------------- MODULE ConnectionSetup ---------------------------
(* The commands that settle on a connection: `pgmi deploy` up to the first *)
(* dial (cli/deploy.go) and `pgmi config` (cli/config.go), with the wizard *)
(* they may open and the files it leaves behind: pgmi.yaml, rewritten in   *)
(* place, and .pgpass, replaced by a rename.                               *)
EXTENDS ConnectionWizard

CONSTANTS
  FlagSets,      \* the flags a user may give
  Envs,          \* the environments pgmi may run in
  Yamls,         \* the pgmi.yaml files a project may start with
  Pgpass0,       \* the .pgpass file before pgmi touches it
  Clients,       \* connections whose password somebody looks up in it
  MaxCommands,   \* bound on commands run one after the other
  MaxWizards     \* bound on wizards opened by them

(* The switches are --azure, --aws and --google.                           *)
ASSUME FlagsAssumption ==
  \A fl \in FlagSets : DOMAIN fl = DOMAIN NoFlags /\ fl.cloud \subseteq Clouds

(* A pgmi.yaml has params or has none.                                     *)
ASSUME YamlsAssumption == \A y \in Yamls : y.params \in BOOLEAN

\* .pgpass is a list of lines.
ASSUME PgpassAssumption == Pgpass0 \in Seq({Pgpass0[i] : i \in DOMAIN Pgpass0})

VARIABLES
  env,       \* the environment; one for all commands
  yaml,      \* pgmi.yaml on disk
  pgpass,    \* .pgpass on disk: a sequence of [host, port, db, user, password]
  tmp,       \* .pgpass.pgmi-tmp
  pc, cmd,   \* where the running command is, and which command it is
  flags,     \* the flags it was given
  loaded,    \* the pgmi.yaml it read at its start
  dial,      \* what it dialled
  exit,      \* exit code of the last command
  saved,     \* history: the configuration pgmi.yaml holds, written by the wizard
  keyed,     \* history: the configurations whose passwords .pgpass was given
  had,       \* history: the project started with params in pgmi.yaml
  torn,      \* history: a crash or an error cut a write of pgmi.yaml short
  commands, opened

setupVars == <<env, yaml, pgpass, tmp, pc, cmd, flags, loaded, dial, exit,
               saved, keyed, had, torn, commands, opened>>
vars == <<wizardVars, setupVars>>

Killed == 137

EmptyYaml == [NoYaml EXCEPT !.form = "ok"]
NoDial    == [on |-> FALSE, auth |-> "none", f |-> NoFields, mdb |-> Unset]

Init ==
  /\ WizardInit
  /\ env \in Envs
  /\ yaml \in Yamls
  /\ pgpass = Pgpass0 /\ tmp = <<>>
  /\ pc = "idle" /\ cmd = "none" /\ flags = NoFlags /\ loaded = NoYaml
  /\ dial = NoDial /\ exit = 0
  /\ saved = NoConfig /\ keyed = <<>> /\ had = yaml.params /\ torn = FALSE
  /\ commands = 0 /\ opened = 0

----------------------------------------------------------------------------
(* needsConnectionWizard, hasEnvConnectionSource                           *)
NeedsConnectionWizard(fl, e, y) ==
  /\ fl.conn = Unset /\ fl.f.host = Unset /\ fl.f.db = Unset
  /\ ConnectionStringFromEnv(e) = Unset
  /\ Unset \in {e.f.host, e.f.db}
  /\ y.f.host = Unset /\ y.f.db = Unset

ApplyWizardConfig_NoSSLMode(fl, c) ==
  [fl EXCEPT
     !.f = [x \in Fields |->
              CASE x = "password" -> FirstNonEmpty(<<c.f[x], fl.f[x]>>)
                [] x \in {"host", "port", "user", "db"} -> FirstNonEmpty(<<fl.f[x], c.f[x]>>)
                [] x = "tenant" /\ c.auth = "azure" -> FirstNonEmpty(<<fl.f[x], c.f[x]>>)
                [] x = "region" /\ c.auth = "aws" -> FirstNonEmpty(<<fl.f[x], c.f[x]>>)
                [] x = "instance" /\ c.auth = "google" -> FirstNonEmpty(<<fl.f[x], c.f[x]>>)
                [] OTHER -> fl.f[x]],
     !.cloud = @ \cup ({c.auth} \cap Clouds)]

(* applyWizardConfig: a flag the user gave stays; the password is the      *)
(* wizard's.  Certificates and the maintenance database are not taken.     *)
ApplyWizardConfig(fl, c) ==
  [fl EXCEPT
     !.f = [x \in Fields |->
              CASE x = "password" -> FirstNonEmpty(<<c.f[x], fl.f[x]>>)
                [] x \in {"host", "port", "user", "db", "sslmode"} ->
                     FirstNonEmpty(<<fl.f[x], c.f[x]>>)
                [] x = "tenant" /\ c.auth = "azure" -> FirstNonEmpty(<<fl.f[x], c.f[x]>>)
                [] x = "region" /\ c.auth = "aws" -> FirstNonEmpty(<<fl.f[x], c.f[x]>>)
                [] x = "instance" /\ c.auth = "google" -> FirstNonEmpty(<<fl.f[x], c.f[x]>>)
                [] OTHER -> fl.f[x]],
     !.cloud = @ \cup ({c.auth} \cap Clouds)]

Finish(code) == pc' = "idle" /\ exit' = code

(* runDeploy up to the wizard; ask: a terminal, and no --force.            *)
StartDeploy ==
  /\ pc = "idle" /\ commands < MaxCommands
  /\ \E fl \in FlagSets, ask \in BOOLEAN :
       /\ cmd' = "deploy" /\ flags' = fl /\ loaded' = yaml
       /\ dial' = NoDial
       /\ commands' = commands + 1
       /\ \/ /\ yaml.form = "malformed"
             /\ Finish(10)
             /\ UNCHANGED opened
          \/ /\ yaml.form # "malformed"
             /\ ask /\ NeedsConnectionWizard(fl, env, yaml)
             /\ opened < MaxWizards
             /\ pc' = "wizard" /\ exit' = 0 /\ opened' = opened + 1
          \/ /\ yaml.form # "malformed"
             /\ ~(ask /\ NeedsConnectionWizard(fl, env, yaml))
             /\ pc' = "dial" /\ exit' = 0
             /\ UNCHANGED opened
  /\ WizardReset
  /\ UNCHANGED <<env, yaml, pgpass, tmp, saved, keyed, had, torn>>

(* runConfig up to the wizard: it insists on a terminal, and asks before   *)
(* it replaces a file, parseable or not.                                   *)
StartConfig ==
  /\ pc = "idle" /\ commands < MaxCommands
  /\ \E tty, yes \in BOOLEAN :
       \/ /\ ~tty
          /\ Finish(1)
          /\ UNCHANGED opened
       \/ /\ tty /\ yaml.form # "absent" /\ ~yes
          /\ Finish(0)
          /\ UNCHANGED opened
       \/ /\ tty /\ (yaml.form = "absent" \/ yes)
          /\ opened < MaxWizards
          /\ pc' = "wizard" /\ exit' = 0 /\ opened' = opened + 1
  /\ cmd' = "config" /\ flags' = NoFlags /\ loaded' = yaml
  /\ dial' = NoDial
  /\ commands' = commands + 1
  /\ WizardReset
  /\ UNCHANGED <<env, yaml, pgpass, tmp, saved, keyed, had, torn>>

UseWizard ==
  /\ pc = "wizard"
  /\ WizardStep
  /\ UNCHANGED setupVars

----------------------------------------------------------------------------
(* The wizard's program is gone; its result stays.                         *)
DropWizard ==
  /\ step' = "selectProvider" /\ provider' = 1 /\ auth' = 1
  /\ inputs' = NoInputs
  /\ testDone' = FALSE /\ testOK' = FALSE /\ testing' = FALSE
  /\ quit' = FALSE /\ passed' = NoConfig /\ tests' = 0
  /\ UNCHANGED <<config, cancelled, accepted>>

EndWizard_TestedFirst ==
  /\ pc = "wizard" /\ quit
  /\ \/ /\ ~accepted
        /\ Finish(IF cmd = "deploy" THEN 12 ELSE 0)
     \/ /\ accepted
        /\ pc' \in (IF cmd = "deploy" THEN {"save", "dial"} ELSE {"save"})
        /\ UNCHANGED exit
  /\ DropWizard
  /\ UNCHANGED <<env, yaml, pgpass, tmp, cmd, flags, loaded, dial, saved,
                 keyed, had, torn, commands, opened>>

(* The wizard returns to runDeployWizard or runConfig.  A deploy asks      *)
(* whether to save the connection; config always saves it.                 *)
EndWizard ==
  /\ pc = "wizard" /\ quit
  /\ \/ /\ cancelled
        /\ Finish(IF cmd = "deploy" THEN 12 ELSE 0)
     \/ /\ ~cancelled
        /\ pc' \in (IF cmd = "deploy" THEN {"save", "dial"} ELSE {"save"})
        /\ UNCHANGED exit
  /\ DropWizard
  /\ UNCHANGED <<env, yaml, pgpass, tmp, cmd, flags, loaded, dial, saved,
                 keyed, had, torn, commands, opened>>

(* RunConnectionWizard fails, the terminal being unusable.                 *)
WizardFails ==
  /\ pc = "wizard"
  /\ Finish(1)
  /\ WizardReset
  /\ UNCHANGED <<env, yaml, pgpass, tmp, cmd, flags, loaded, dial, saved,
                 keyed, had, torn, commands, opened>>

(* What follows the saving: a deploy dials, config is done.                *)
AfterSave == IF cmd = "deploy" THEN pc' = "dial" /\ UNCHANGED exit
                               ELSE Finish(0)

(* saveConnectionToConfig reads pgmi.yaml again, which nobody has changed  *)
(* since the start; os.WriteFile empties the file before it writes.        *)
OpenYaml ==
  /\ pc = "save"
  /\ yaml' = EmptyYaml
  /\ saved' = NoConfig
  /\ pc' = "write"
  /\ UNCHANGED <<wizardVars, env, pgpass, tmp, cmd, flags, loaded, dial, exit,
                 keyed, had, torn, commands, opened>>

(* The file cannot be opened: a warning in a deploy, an error in config.   *)
SaveFails ==
  /\ pc = "save"
  /\ IF cmd = "deploy" THEN pc' = "dial" /\ UNCHANGED exit ELSE Finish(1)
  /\ UNCHANGED <<wizardVars, env, yaml, pgpass, tmp, cmd, flags, loaded, dial,
                 saved, keyed, had, torn, commands, opened>>

SavedYaml_KeepsOld(c, old) ==
  [form |-> "ok", f |-> [x \in Fields |->
                           IF x \in {"password", "appname", "timeout", "secret"} THEN Unset
                           ELSE FirstNonEmpty(<<old.f[x], c.f[x]>>)],
   auth |-> IF c.auth \in Clouds THEN c.auth ELSE Unset,
   params |-> old.params]

(* The new content: the connection block is replaced, the rest of a file   *)
(* that parsed is kept.  ProjectConfig has no place for a password.        *)
SavedYaml(c, old) ==
  [form |-> "ok", f |-> [c.f EXCEPT !.password = Unset, !.appname = Unset,
                                    !.timeout = Unset, !.secret = Unset],
   auth |-> IF c.auth \in Clouds THEN c.auth ELSE Unset,
   params |-> old.params]

WriteYaml ==
  /\ pc = "write"
  /\ yaml' = SavedYaml(config, loaded)
  /\ saved' = config
  /\ pc' = "offer"
  /\ UNCHANGED <<wizardVars, env, pgpass, tmp, cmd, flags, loaded, dial, exit,
                 keyed, had, torn, commands, opened>>

(* The write fails half way: again a warning in a deploy, an error in      *)
(* config, and what was in the file is gone.                               *)
WriteFails ==
  /\ pc = "write"
  /\ torn' = TRUE
  /\ IF cmd = "deploy" THEN pc' = "dial" /\ UNCHANGED exit ELSE Finish(1)
  /\ UNCHANGED <<wizardVars, env, yaml, pgpass, tmp, cmd, flags, loaded, dial,
                 saved, keyed, had, commands, opened>>

----------------------------------------------------------------------------
SameKey_AnyUser(line, f) == \A x \in {"host", "port", "db"} : line[x] = f[x]

SameKey(line, f) ==
  \A x \in {"host", "port", "db", "user"} : line[x] = f[x]

Entry(f) == [host |-> f.host, port |-> f.port, db |-> f.db, user |-> f.user,
             password |-> f.password]

PgpassWith_Append(lines, f) ==
  LET kept[i \in 0..Len(lines)] ==
        IF i = 0 THEN <<>>
        ELSE IF SameKey(lines[i], f) THEN kept[i-1] ELSE Append(kept[i-1], lines[i])
  IN  Append(kept[Len(lines)], Entry(f))

(* writePgpassEntry: the new line first, then every line with another key. *)
PgpassWith(lines, f) ==
  LET kept[i \in 0..Len(lines)] ==
        IF i = 0 THEN <<Entry(f)>>
        ELSE IF SameKey(lines[i], f) THEN kept[i-1] ELSE Append(kept[i-1], lines[i])
  IN  kept[Len(lines)]

(* offerSavePgpass                                                         *)
SkipPgpass ==
  /\ pc = "offer"
  /\ AfterSave
  /\ UNCHANGED <<wizardVars, env, yaml, pgpass, tmp, cmd, flags, loaded, dial,
                 saved, keyed, had, torn, commands, opened>>

WriteTmp ==
  /\ pc = "offer" /\ config.f.password # Unset
  /\ tmp' = PgpassWith(pgpass, config.f)
  /\ pc' = "rename"
  /\ UNCHANGED <<wizardVars, env, yaml, pgpass, cmd, flags, loaded, dial, exit,
                 saved, keyed, had, torn, commands, opened>>

RenamePgpass ==
  /\ pc = "rename"
  /\ pgpass' = tmp /\ tmp' = <<>>
  /\ keyed' = Append(keyed, config)
  /\ AfterSave
  /\ UNCHANGED <<wizardVars, env, yaml, cmd, flags, loaded, dial, saved, had,
                 torn, commands, opened>>

(* The rename fails: the temporary file is removed and the command goes on. *)
RenameFails ==
  /\ pc = "rename"
  /\ tmp' = <<>>
  /\ AfterSave
  /\ UNCHANGED <<wizardVars, env, yaml, pgpass, cmd, flags, loaded, dial, saved,
                 keyed, had, torn, commands, opened>>

----------------------------------------------------------------------------
(* The connection the deployer asks NewConnector for.                      *)
Dialled(dc) ==
  IF ~dc.ok THEN dc
  ELSE IF ~DeployerConfig(dc).ok THEN DeployerConfig(dc)
  ELSE NewConnector(DeployerConfig(dc))

(* buildDeploymentConfig works on the pgmi.yaml read at the start, not on  *)
(* the one the wizard may have saved since.                                *)
Dial ==
  /\ pc = "dial"
  /\ LET r == Dialled(BuildDeploymentConfig(
                        IF accepted THEN ApplyWizardConfig(flags, config) ELSE flags,
                        env, loaded)) IN
     IF r.ok
     THEN dial' = [on |-> TRUE, auth |-> r.auth, f |-> r.f, mdb |-> r.mdb] /\ Finish(0)
     ELSE Finish(r.code) /\ UNCHANGED dial
  /\ UNCHANGED <<wizardVars, env, yaml, pgpass, tmp, cmd, flags, loaded, saved,
                 keyed, had, torn, commands, opened>>

(* The process is killed.                                                  *)
Crash ==
  /\ pc # "idle"
  /\ Finish(Killed)
  /\ torn' = (torn \/ pc = "write")
  /\ WizardReset
  /\ UNCHANGED <<env, yaml, pgpass, tmp, cmd, flags, loaded, dial, saved, keyed,
                 had, commands, opened>>

Next ==
  \/ StartDeploy \/ StartConfig \/ UseWizard \/ EndWizard \/ WizardFails
  \/ OpenYaml \/ SaveFails \/ WriteYaml \/ WriteFails
  \/ SkipPgpass \/ WriteTmp \/ RenamePgpass \/ RenameFails
  \/ Dial \/ Crash

Spec == Init /\ [][Next]_vars

----------------------------------------------------------------------------
(* Types of the wizard's state and of what the commands keep.              *)
TypeOK ==
  /\ step \in InputSteps \cup {"selectProvider", "selectAuth", "testConnection", "done"}
  /\ provider \in DOMAIN Providers
  /\ step # "selectProvider" => auth \in DOMAIN Auths(provider)
  /\ pc \in {"idle", "wizard", "save", "write", "offer", "rename", "dial"}
  /\ cmd \in {"none", "deploy", "config"}
  /\ {testDone, testOK, testing, cancelled, accepted, quit, had, torn} \subseteq BOOLEAN
  /\ DOMAIN config = {"auth", "f"} /\ DOMAIN config.f = Fields
  /\ exit \in {0, 1, 10, 12, Killed}

(* The wizard hands over a password connection only if exactly this        *)
(* configuration passed its test: not an earlier one, edited since, and    *)
(* not one whose result is still on its way (updateTestConnection).        *)
AcceptedIsTested ==
  pc = "wizard" /\ accepted /\ config.auth = "standard" => passed = config

(* The connection string in force.                                         *)
StringInForce == FirstNonEmpty(<<flags.conn, ConnectionStringFromEnv(env)>>)

DocumentedDefault(x) ==
  CASE x = "host" -> "localhost" [] x = "port" -> "5432" [] x = "sslmode" -> "prefer"
    [] x = "user" /\ StringInForce = Unset -> "osuser"
    [] x = "db" /\ StringInForce # Unset   -> "postgres"
    [] OTHER -> Unset

\* A flag the user gave beside the wizard, or what the wizard was told.
Chosen(x) == FirstNonEmpty(<<flags.f[x], config.f[x]>>)

(* What the deploy that opened the wizard dials, part by part              *)
(* (applyWizardConfig, resolution, URI and parser).  Host, port, user,     *)
(* database, SSL mode and Azure's ids are those accepted in the wizard,    *)
(* unless a flag replaces them; environment and pgmi.yaml fill gaps only.  *)
(* The rest is not what was accepted: PGPASSWORD replaces the password     *)
(* that passed the test (config_common.go:84), certificates and            *)
(* maintenance database of the wizard are dropped, and of two cloud        *)
(* methods, the wizard's and that of pgmi.yaml, AuthMethod's order picks.  *)
WizardReachesDeploy ==
  dial.on /\ accepted =>
    /\ \A x \in {"host", "port", "user", "db", "sslmode"} :
         dial.f[x] =
           FirstNonEmpty(<<Chosen(x), env.f[x], loaded.f[x], DocumentedDefault(x)>>)
    /\ config.auth = "azure" =>
         dial.f.tenant =
           FirstNonEmpty(<<Chosen("tenant"), env.f.tenant, loaded.f.tenant>>)
    /\ dial.f.password =
         FirstNonEmpty(<<env.f.password, config.f.password, flags.f.password>>)
    /\ dial.f.cert = FirstNonEmpty(<<flags.f.cert, env.f.cert, loaded.f.cert>>)
    /\ dial.mdb = FirstNonEmpty(<<loaded.f.mdb, "postgres">>)
    /\ dial.auth = AuthMethod(flags.cloud \cup ({config.auth, loaded.auth} \cap Clouds))

(* What the wizard saved is what a later plain deploy dials: every field   *)
(* of the saved connection, and its authentication, survive pgmi.yaml      *)
(* (saveConnectionToConfig, then resolveFromGranularParams).  So do the    *)
(* params of a file that parsed, unless a crash or an error cut the write  *)
(* short.  The maintenance database is the exception, as the formula says: *)
(* docs/CONFIGURATION.md:86-104 has the saved one used, and the code takes *)
(* "postgres" unless the target itself is "postgres"                       *)
(* (determineMaintenanceDB).                                               *)
SavedMeansRepeatable ==
  /\ dial.on /\ ~accepted /\ saved # NoConfig /\ flags = NoFlags /\ env = NoEnv =>
       /\ \A x \in {"host", "port", "user", "db", "sslmode", "cert"} :
            saved.f[x] # Unset => dial.f[x] = saved.f[x]
       /\ dial.auth = saved.auth
       /\ saved.auth = "azure" => dial.f.tenant = saved.f.tenant
       /\ dial.mdb = IF saved.f.db = "postgres"
                     THEN FirstNonEmpty(<<saved.f.mdb, "postgres">>)
                     ELSE "postgres"
  /\ had /\ ~torn /\ pc # "write" => yaml.params

(* Which password pgx finds for a connection in .pgpass: the first match.  *)
Matches(line, f) ==
  \A x \in {"host", "port", "db", "user"} : line[x] \in {"*", f[x]}

LookupPassword(lines, f) ==
  LET hits == {i \in DOMAIN lines : Matches(lines[i], f)} IN
  IF hits = {} THEN Unset
  ELSE lines[CHOOSE i \in hits : \A j \in hits : i <= j].password

(* Once .pgpass was given a password, a lookup for that connection finds   *)
(* it, even behind a wildcard entry; and no line is ever lost, whether it  *)
(* was there before pgmi or came from it, except to a later save of the    *)
(* same connection: at any point of a write, a failed rename or a crash    *)
(* (writePgpassEntry).                                                     *)
PgpassServes ==
  /\ keyed # <<>> =>
       LookupPassword(pgpass, keyed[Len(keyed)].f) = keyed[Len(keyed)].f.password
  /\ \A i \in DOMAIN Pgpass0 :
       \/ \E j \in DOMAIN pgpass : pgpass[j] = Pgpass0[i]
       \/ \E k \in DOMAIN keyed : SameKey(Pgpass0[i], keyed[k].f)
  /\ \A k \in DOMAIN keyed :
       \/ \E j \in DOMAIN pgpass : pgpass[j] = Entry(keyed[k].f)
       \/ \E l \in (k+1)..Len(keyed) : SameKey(Entry(keyed[k].f), keyed[l].f)

(* Saving a password changes what no other connection finds: libpq stops   *)
(* at the first line that matches, so neither a line nor the order of the  *)
(* lines may be disturbed (writePgpassEntry).                              *)
OthersFindTheirs ==
  [][\A c \in Clients :
       pgpass' # pgpass /\ ~Matches(pgpass'[1], c) =>
         LookupPassword(pgpass', c) = LookupPassword(pgpass, c)]_vars

(* Without the wizard, each parameter that is dialled comes from the       *)
(* highest-ranking source that gives it: flags, then the connection        *)
(* string, then the environment (for SSL mode and certificates beside a    *)
(* string, else for all), then pgmi.yaml if no string replaces it, then    *)
(* the default; and a port outside the range is never dialled, wherever it *)
(* was written.  One case is left out, since there the code does not do    *)
(* what docs/CONFIGURATION.md:118-121 says: certificates nobody else gave  *)
(* are taken from pgmi.yaml under a connection string too                  *)
(* (applyCertParams).                                                      *)
DialsByPrecedence ==
  dial.on /\ ~accepted =>
    /\ \A x \in {"host", "port", "user", "db", "sslmode", "cert"} :
         LET above == <<flags.f[x]>>
                        \o (IF StringInForce # Unset
                            THEN <<Strings[StringInForce].f[x]>>
                                   \o IF x \in {"sslmode", "cert"} THEN <<env.f[x]>> ELSE <<>>
                            ELSE <<env.f[x]>>)
             below == (IF StringInForce = Unset THEN <<loaded.f[x]>> ELSE <<>>)
                        \o <<DocumentedDefault(x)>> IN
         \/ dial.f[x] = FirstNonEmpty(above \o below)
         \/ /\ x = "cert" /\ StringInForce # Unset
            /\ FirstNonEmpty(above) = Unset /\ loaded.f[x] # Unset
    /\ dial.f.port # "bad"

(* A cancelled wizard is final: nothing is saved and nothing dialled, also *)
(* when ctrl+c arrives between the acceptance and the end of the program.  *)
CancelIsFinal ==
  [][cancelled /\ cancelled' =>
       yaml' = yaml /\ pgpass' = pgpass /\ ~dial'.on]_vars

(* The flags documented for AWS IAM and Google Cloud SQL are enough to     *)
(* connect (docs/CONNECTIONS.md).                                          *)
CloudFlagsConnect ==
  cmd = "deploy" /\ pc = "idle" /\ exit # Killed
    /\ env = NoEnv /\ loaded = NoYaml
    /\ flags.cloud = {"aws"} /\ flags.f.port # "bad"
    /\ (\A x \in {"host", "user", "db", "region"} : flags.f[x] \notin {Unset, "bad"})
  => dial.on
=============================================================================
