-------------------------- MODULE ConnectionWizard --------------------------
(* internal/tui/wizards/connection.go: a Bubble Tea model.  One message is *)
(* handled at a time; a connection test runs beside the loop and its       *)
(* result arrives as a message of its own.                                 *)
EXTENDS ConnectionResolution

CONSTANTS
  Typed(_),   \* what a user may type into a field
  MaxTests    \* bound on connection tests started in one session

VARIABLES
  step,       \* wizardStep
  provider,   \* providerIdx
  auth,       \* authIdx within the provider's methods
  inputs,     \* the text of each field of the form
  testDone,
  testOK,
  config,     \* result.Config, with result.MaintenanceDatabase in mdb
  cancelled,  \* result.Cancelled
  accepted,   \* result.Tested
  quit,       \* tea.Quit was returned
  testing,    \* a test's result is outstanding; it took a copy of config
  passed,     \* history: the configuration of the last test result, if it passed
  tests       \* tests started so far

wizardVars == <<step, provider, auth, inputs, testDone, testOK, config,
                cancelled, accepted, quit, testing, passed, tests>>

----------------------------------------------------------------------------
Password == [id |-> "password", method |-> "standard"]
Entra    == [id |-> "entra",    method |-> "azure"]

(* providers                                                               *)
Providers ==
  << [id |-> "local",  auths |-> <<Password>>],
     [id |-> "azure",  auths |-> <<Entra, Password>>],
     [id |-> "aws",    auths |-> <<[id |-> "iam", method |-> "aws"], Password>>],
     [id |-> "google", auths |-> <<[id |-> "iam", method |-> "google"], Password>>],
     [id |-> "custom", auths |-> <<[id |-> "connstring", method |-> "standard"]>>] >>

Auths(p)     == Providers[p].auths
Method(p, a) == Auths(p)[a].method

(* getInputStep                                                            *)
GetInputStep(p, a) ==
  CASE Providers[p].id = "custom"      -> "inputConnString"
    [] Auths(p)[a].id = "entra"        -> "inputAzure"
    [] Method(p, a) = "aws"            -> "inputAWS"
    [] Method(p, a) = "google"         -> "inputGoogle"
    [] OTHER                           -> "inputHost"

(* The fields of each form in their order; a connection string is a name.  *)
Form ==
  [inputHost       |-> <<"host", "port", "db", "mdb", "user", "password">>,
   inputAzure      |-> <<"host", "db", "user">>,
   inputAWS        |-> <<"host", "port", "db", "user", "region">>,
   inputGoogle     |-> <<"instance", "db", "user">>,
   inputConnString |-> <<"conn">>]

InputSteps == DOMAIN Form
(* Values nothing reads again are dropped: a form is initialised whenever  *)
(* it opens, and a configuration is built anew by every submission.        *)
NoInputs   == [x \in Fields \cup {"conn"} |-> Unset]

(* initInputs and the create...Inputs functions: the prefilled values.     *)
InitInputs(s, p) ==
  CASE s = "inputHost" ->
         [NoInputs EXCEPT !.host = IF Providers[p].id = "local" THEN "localhost" ELSE Unset,
                          !.port = "5432", !.mdb = "postgres", !.user = "postgres"]
    [] s = "inputAWS" -> [NoInputs EXCEPT !.port = "5432"]
    [] OTHER          -> NoInputs

(* validateInputs                                                          *)
ValidateInputs(s, in) ==
  CASE s = "inputHost"                 -> in.db # Unset
    [] s \in {"inputAzure", "inputAWS"} -> in.host # Unset /\ in.db # Unset
    [] s = "inputGoogle"               -> in.instance # Unset /\ in.db # Unset
    [] OTHER -> in.conn # Unset /\ ParseOK(Strings[in.conn].form, Strings[in.conn].f)

(* Text that is no positive number gives the default; a number out of      *)
(* range ("bad") is taken.                                                 *)
PortOf(in) == IF in.port \in {Unset, "nan"} THEN "5432" ELSE in.port

(* buildConfig                                                             *)
BuildConfig(s, in, method) ==
  [auth |-> method,
   f |-> CASE s = "inputHost" ->
                [NoFields EXCEPT !.host = FirstNonEmpty(<<in.host, "localhost">>),
                                 !.port = PortOf(in), !.db = in.db,
                                 !.mdb = FirstNonEmpty(<<in.mdb, "postgres">>),
                                 !.user = FirstNonEmpty(<<in.user, "postgres">>),
                                 !.password = in.password, !.sslmode = "prefer"]
           [] s = "inputAzure" ->
                [NoFields EXCEPT !.host = in.host, !.port = "5432", !.db = in.db,
                                 !.mdb = "postgres", !.user = in.user, !.sslmode = "require"]
           [] s = "inputAWS" ->
                [NoFields EXCEPT !.host = in.host, !.port = PortOf(in), !.db = in.db,
                                 !.mdb = "postgres", !.user = in.user,
                                 !.region = in.region, !.sslmode = "require"]
           [] s = "inputGoogle" ->
                [NoFields EXCEPT !.instance = in.instance, !.db = in.db,
                                 !.mdb = "postgres", !.user = in.user]
           [] OTHER ->
                [ParseFields(Strings[in.conn].f) EXCEPT !.mdb = "postgres"]]

NoConfig == [auth |-> "none", f |-> NoFields]

(* NewConnectionWizard                                                     *)
WizardInit ==
  /\ step = "selectProvider" /\ provider = 1 /\ auth = 1
  /\ inputs = NoInputs
  /\ testDone = FALSE /\ testOK = FALSE
  /\ config = NoConfig
  /\ cancelled = FALSE /\ accepted = FALSE /\ quit = FALSE
  /\ testing = FALSE /\ passed = NoConfig /\ tests = 0

(* The same state, for a command that starts another wizard.               *)
WizardReset ==
  /\ step' = "selectProvider" /\ provider' = 1 /\ auth' = 1
  /\ inputs' = NoInputs
  /\ testDone' = FALSE /\ testOK' = FALSE
  /\ config' = NoConfig
  /\ cancelled' = FALSE /\ accepted' = FALSE /\ quit' = FALSE
  /\ testing' = FALSE /\ passed' = NoConfig /\ tests' = 0

----------------------------------------------------------------------------
(* Keys                                                                    *)

(* ctrl+c, in every step.                                                  *)
CtrlC ==
  /\ cancelled' = TRUE /\ quit' = TRUE
  /\ UNCHANGED <<step, provider, auth, inputs, testDone, testOK, config,
                 accepted, testing, passed, tests>>

OpenForm(p, a) ==
  /\ step' = GetInputStep(p, a)
  /\ inputs' = InitInputs(GetInputStep(p, a), p)

(* updateProviderSelection                                                 *)
ProviderMove ==
  /\ step = "selectProvider"
  /\ provider' \in ({provider - 1, provider + 1} \cap DOMAIN Providers)
  /\ UNCHANGED <<step, auth, inputs, testDone, testOK, config, cancelled,
                 accepted, quit, testing, passed, tests>>

ProviderSelect ==
  /\ step = "selectProvider"
  /\ auth' = 1
  /\ IF Len(Auths(provider)) = 1
     THEN OpenForm(provider, 1)
     ELSE step' = "selectAuth" /\ UNCHANGED inputs
  /\ UNCHANGED <<provider, testDone, testOK, config, cancelled, accepted, quit,
                 testing, passed, tests>>

ProviderBack ==
  /\ step = "selectProvider"
  /\ cancelled' = TRUE /\ quit' = TRUE
  /\ UNCHANGED <<step, provider, auth, inputs, testDone, testOK, config,
                 accepted, testing, passed, tests>>

(* updateAuthSelection                                                     *)
AuthMove ==
  /\ step = "selectAuth"
  /\ auth' \in ({auth - 1, auth + 1} \cap DOMAIN Auths(provider))
  /\ UNCHANGED <<step, provider, inputs, testDone, testOK, config,
                 cancelled, accepted, quit, testing, passed, tests>>

AuthSelect ==
  /\ step = "selectAuth"
  /\ OpenForm(provider, auth)
  /\ UNCHANGED <<provider, auth, testDone, testOK, config, cancelled, accepted,
                 quit, testing, passed, tests>>

AuthBack ==
  /\ step = "selectAuth"
  /\ step' = "selectProvider"
  /\ UNCHANGED <<provider, auth, inputs, testDone, testOK, config,
                 cancelled, accepted, quit, testing, passed, tests>>

(* updateInputForm: tab, the arrows and enter reach every field, so the    *)
(* focus is left out: a key edits some field, and enter on the last one    *)
(* submits.                                                                *)
FormType ==
  /\ step \in InputSteps
  /\ \E i \in DOMAIN Form[step] : \E v \in Typed(Form[step][i]) :
       inputs' = [inputs EXCEPT ![Form[step][i]] = v]
  /\ UNCHANGED <<step, provider, auth, testDone, testOK, config,
                 cancelled, accepted, quit, testing, passed, tests>>

FormBack ==
  /\ step \in InputSteps
  /\ step' = IF Len(Auths(provider)) > 1 THEN "selectAuth" ELSE "selectProvider"
  /\ inputs' = NoInputs
  /\ UNCHANGED <<provider, auth, testDone, testOK, config,
                 cancelled, accepted, quit, testing, passed, tests>>

(* Enter on the last field: validate, buildConfig, and start testConnection, *)
(* which takes a copy of the configuration with it.                        *)
FormSubmit ==
  /\ step \in InputSteps
  /\ ValidateInputs(step, inputs)
  /\ tests < MaxTests
  /\ config' = BuildConfig(step, inputs, Method(provider, auth))
  /\ testing' = TRUE
  /\ tests' = tests + 1
  /\ step' = "testConnection"
  /\ testDone' = FALSE
  /\ inputs' = NoInputs /\ passed' = NoConfig
  /\ UNCHANGED <<provider, auth, testOK, cancelled, accepted, quit>>

(* testConnection's message.  A cloud method is reported as configured     *)
(* without a connection.  Any other test connects to the maintenance       *)
(* database, put for the target into a copy of the configuration: "passed" *)
(* says which configuration the copy was taken from, not that its target   *)
(* exists or admits the user.                                              *)
TestResult ==
  /\ testing
  /\ \E ok \in BOOLEAN :
       /\ config.auth # "standard" => ok
       /\ testOK' = ok
       /\ passed' = IF ok THEN config ELSE NoConfig
  /\ testing' = FALSE
  /\ testDone' = TRUE
  /\ UNCHANGED <<step, provider, auth, inputs, config, cancelled,
                 accepted, quit, tests>>

TestAccept_Always ==
  /\ step = "testConnection" /\ testOK
  /\ accepted' = TRUE
  /\ step' = "done" /\ quit' = TRUE
  /\ UNCHANGED <<provider, auth, inputs, testDone, testOK, config,
                 cancelled, testing, passed, tests>>

(* updateTestConnection: nothing but ctrl+c counts until the result is in. *)
TestAccept ==
  /\ step = "testConnection" /\ testDone /\ testOK
  /\ accepted' = TRUE
  /\ step' = "done" /\ quit' = TRUE
  /\ UNCHANGED <<provider, auth, inputs, testDone, testOK, config,
                 cancelled, testing, passed, tests>>

(* Enter after a failure, or esc: the form starts afresh.                  *)
TestRetry ==
  /\ step = "testConnection" /\ testDone
  /\ OpenForm(provider, auth)
  /\ config' = NoConfig /\ passed' = NoConfig
  /\ UNCHANGED <<provider, auth, testDone, testOK, cancelled, accepted,
                 quit, testing, tests>>

(* Messages may arrive after tea.Quit was returned.  Of those only ctrl+c  *)
(* matters: a cancelled result stays cancelled, and stepDone takes no key. *)
WizardStep ==
  \/ CtrlC
  \/ ~quit /\ \/ ProviderMove \/ ProviderSelect \/ ProviderBack
              \/ AuthMove \/ AuthSelect \/ AuthBack
              \/ FormType \/ FormBack \/ FormSubmit
              \/ TestResult \/ TestAccept \/ TestRetry
=============================================================================
