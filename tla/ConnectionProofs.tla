-------------------------- MODULE ConnectionProofs --------------------------
(* Proofs about ConnectionSetup, with the wizard and the resolution it     *)
(* builds on, for any flags, environments, files and strings.              *)
EXTENDS ConnectionSetup, SequenceTheorems, FiniteSetTheorems, WellFoundedInduction, TLAPS

(* firstNonEmpty takes the first value that was given ...                  *)
LEMMA FirstFound ==
  ASSUME NEW S, NEW s \in Seq(S), NEW i \in DOMAIN s, s[i] # Unset,
         \A j \in 1..(i - 1) : s[j] = Unset
  PROVE  FirstNonEmpty(s) = s[i]
<1>1. DOMAIN s = 1..Len(s)
  OBVIOUS
<1> DEFINE P(k) == s[k] # Unset /\ \A j \in 1..(k - 1) : s[j] = Unset
<1> DEFINE c == CHOOSE k \in DOMAIN s : P(k)
<1>2. c \in DOMAIN s /\ P(c)
  OBVIOUS
<1>3. c = i
  BY <1>1, <1>2
<1>4. FirstNonEmpty(s) = s[c]
  BY DEF FirstNonEmpty
<1> QED BY <1>3, <1>4

(* ... and nothing if none was.                                            *)
LEMMA FirstNone ==
  ASSUME NEW s, \A i \in DOMAIN s : s[i] = Unset
  PROVE  FirstNonEmpty(s) = Unset
BY DEF FirstNonEmpty

(* If something was given, something was given first.                      *)
LEMMA FirstExists ==
  ASSUME NEW S, NEW s \in Seq(S), \E i \in DOMAIN s : s[i] # Unset
  PROVE  \E i \in DOMAIN s : s[i] # Unset /\ \A j \in 1..(i - 1) : s[j] = Unset
<1> DEFINE T == {i \in 1..Len(s) : s[i] # Unset}
<1>1. T # {} /\ T \subseteq Nat
  OBVIOUS
<1>2. PICK i \in T : \A j \in T : ~(<<j, i>> \in OpToRel(<, Nat))
  BY <1>1, NatLessThanWellFounded, WFMin
<1>3. \A j \in T : ~(j < i)
  BY <1>1, <1>2 DEF OpToRel
<1> QED BY <1>3

(* A list of sources in two parts: the second counts if the first is mute. *)
LEMMA FirstCat ==
  ASSUME NEW S, NEW s \in Seq(S), NEW t \in Seq(S)
  PROVE  FirstNonEmpty(s \o t) =
           IF FirstNonEmpty(s) # Unset THEN FirstNonEmpty(s) ELSE FirstNonEmpty(t)
<1>1. /\ s \o t \in Seq(S)
      /\ DOMAIN (s \o t) = 1..(Len(s) + Len(t))
      /\ \A i \in DOMAIN (s \o t) :
           (s \o t)[i] = IF i <= Len(s) THEN s[i] ELSE t[i - Len(s)]
  OBVIOUS
<1>2. CASE \E i \in DOMAIN s : s[i] # Unset
  <2>1. PICK i \in DOMAIN s : s[i] # Unset /\ \A j \in 1..(i - 1) : s[j] = Unset
    BY <1>2, FirstExists
  <2>2. FirstNonEmpty(s) = s[i]
    BY <2>1, FirstFound
  <2>3. i \in DOMAIN (s \o t) /\ (s \o t)[i] = s[i]
    BY <1>1
  <2>4. \A j \in 1..(i - 1) : (s \o t)[j] = Unset
    BY <1>1, <2>1
  <2>5. FirstNonEmpty(s \o t) = s[i]
    BY <1>1, <2>1, <2>3, <2>4, FirstFound
  <2> QED BY <2>1, <2>2, <2>5
<1>3. CASE ~ \E i \in DOMAIN s : s[i] # Unset
  <2>1. FirstNonEmpty(s) = Unset
    BY <1>3, FirstNone
  <2>2. CASE \E i \in DOMAIN t : t[i] # Unset
    <3>1. PICK i \in DOMAIN t : t[i] # Unset /\ \A j \in 1..(i - 1) : t[j] = Unset
      BY <2>2, FirstExists
    <3> DEFINE k == i + Len(s)
    <3>2. k \in DOMAIN (s \o t) /\ (s \o t)[k] = t[i]
      BY <1>1
    <3>3. \A j \in 1..(k - 1) : (s \o t)[j] = Unset
      <4>1. SUFFICES ASSUME NEW j \in 1..(k - 1) PROVE (s \o t)[j] = Unset
        OBVIOUS
      <4>2. CASE j <= Len(s)
        BY <1>1, <1>3, <4>2
      <4>3. CASE j > Len(s)
        BY <1>1, <3>1, <4>3
      <4> QED BY <4>2, <4>3
    <3>4. FirstNonEmpty(s \o t) = t[i]
      BY <1>1, <3>1, <3>2, <3>3, FirstFound
    <3>5. FirstNonEmpty(t) = t[i]
      BY <3>1, FirstFound
    <3> QED BY <2>1, <3>4, <3>5
  <2>3. CASE ~ \E i \in DOMAIN t : t[i] # Unset
    <3>1. \A i \in DOMAIN (s \o t) : (s \o t)[i] = Unset
      BY <1>1, <1>3, <2>3
    <3> QED BY <2>1, <2>3, <3>1, FirstNone
  <2> QED BY <2>2, <2>3
<1> QED BY <1>2, <1>3

(* The lists of sources as the code writes them.                           *)
LEMMA First1 ==
  ASSUME NEW a
  PROVE  FirstNonEmpty(<<a>>) = a
<1> DEFINE s == <<a>>
<1>1. s \in Seq({a}) /\ DOMAIN s = 1..1 /\ s[1] = a
  OBVIOUS
<1> HIDE DEF s
<1>2. CASE a = Unset
  BY <1>1, <1>2, FirstNone
<1>3. CASE a # Unset
  BY <1>1, <1>3, FirstFound
<1> QED BY <1>2, <1>3 DEF s

LEMMA First2 ==
  ASSUME NEW a, NEW b
  PROVE  FirstNonEmpty(<<a, b>>) = IF a # Unset THEN a ELSE b
<1> DEFINE s == <<a, b>>
<1>1. /\ s \in Seq({a, b}) /\ DOMAIN s = 1..2
      /\ s[1] = a /\ s[2] = b
  OBVIOUS
<1> HIDE DEF s
<1>2. CASE a # Unset
  BY <1>1, <1>2, FirstFound
<1>3. CASE a = Unset /\ b # Unset
  <2>1. \A j \in 1..(2 - 1) : s[j] = Unset
    BY <1>1, <1>3
  <2> QED BY <1>1, <1>3, <2>1, FirstFound
<1>4. CASE a = Unset /\ b = Unset
  BY <1>1, <1>4, FirstNone
<1> QED BY <1>2, <1>3, <1>4 DEF s

LEMMA First3 ==
  ASSUME NEW a, NEW b, NEW c
  PROVE  FirstNonEmpty(<<a, b, c>>) =
           IF a # Unset THEN a ELSE IF b # Unset THEN b ELSE c
<1> DEFINE s == <<a, b, c>>
<1>1. /\ s \in Seq({a, b, c}) /\ DOMAIN s = 1..3
      /\ s[1] = a /\ s[2] = b /\ s[3] = c
  OBVIOUS
<1> HIDE DEF s
<1>2. CASE a # Unset
  BY <1>1, <1>2, FirstFound
<1>3. CASE a = Unset /\ b # Unset
  <2>1. \A j \in 1..(2 - 1) : s[j] = Unset
    BY <1>1, <1>3
  <2> QED BY <1>1, <1>3, <2>1, FirstFound
<1>4. CASE a = Unset /\ b = Unset /\ c # Unset
  <2>1. \A j \in 1..(3 - 1) : s[j] = Unset
    BY <1>1, <1>4
  <2> QED BY <1>1, <1>4, <2>1, FirstFound
<1>5. CASE a = Unset /\ b = Unset /\ c = Unset
  BY <1>1, <1>5, FirstNone
<1> QED BY <1>2, <1>3, <1>4, <1>5 DEF s

LEMMA First4 ==
  ASSUME NEW a, NEW b, NEW c, NEW d
  PROVE  FirstNonEmpty(<<a, b, c, d>>) =
           IF a # Unset THEN a ELSE IF b # Unset THEN b ELSE
           IF c # Unset THEN c ELSE d
<1> DEFINE s == <<a, b, c, d>>
<1>1. /\ s \in Seq({a, b, c, d}) /\ DOMAIN s = 1..4
      /\ s[1] = a /\ s[2] = b /\ s[3] = c /\ s[4] = d
  OBVIOUS
<1> HIDE DEF s
<1>2. CASE a # Unset
  BY <1>1, <1>2, FirstFound
<1>3. CASE a = Unset /\ b # Unset
  <2>1. \A j \in 1..(2 - 1) : s[j] = Unset
    BY <1>1, <1>3
  <2> QED BY <1>1, <1>3, <2>1, FirstFound
<1>4. CASE a = Unset /\ b = Unset /\ c # Unset
  <2>1. \A j \in 1..(3 - 1) : s[j] = Unset
    BY <1>1, <1>4
  <2> QED BY <1>1, <1>4, <2>1, FirstFound
<1>5. CASE a = Unset /\ b = Unset /\ c = Unset /\ d # Unset
  <2>1. \A j \in 1..(4 - 1) : s[j] = Unset
    BY <1>1, <1>5
  <2> QED BY <1>1, <1>5, <2>1, FirstFound
<1>6. CASE a = Unset /\ b = Unset /\ c = Unset /\ d = Unset
  BY <1>1, <1>6, FirstNone
<1> QED BY <1>2, <1>3, <1>4, <1>5, <1>6 DEF s

----------------------------------------------------------------------------
(* What is dialled                                                         *)

(* parseURI and parseADONet fill a gap with their default.                 *)
Filled(x, f) == FirstNonEmpty(<<f[x], StringDefaults[x]>>)

(* The defaults, field by field.                                           *)
LEMMA Defaults ==
  /\ StringDefaults.host = "localhost" /\ StringDefaults.port = "5432"
  /\ StringDefaults.db = "postgres" /\ StringDefaults.user = Unset
  /\ StringDefaults.sslmode = Unset /\ StringDefaults.cert = Unset
  /\ StringDefaults.password = Unset
  /\ GranularDefaults.host = "localhost" /\ GranularDefaults.port = "5432"
  /\ GranularDefaults.db = Unset /\ GranularDefaults.user = "osuser"
  /\ GranularDefaults.sslmode = "prefer"
  /\ \A x \in {"host", "port", "user", "sslmode"} : GranularDefaults[x] # Unset
  /\ StringDefaults.db # Unset
BY DEF StringDefaults, GranularDefaults, NoFields, Fields, Unset

(* The resolved parameters are a function on the fields, and the way from  *)
(* them through the URI and the deployer's parser loses none of those that *)
(* have a place there: it fills gaps, and it stops a port out of range.    *)
LEMMA DialledFields ==
  ASSUME NEW fl, NEW e, NEW y,
         Dialled(BuildDeploymentConfig(fl, e, y)).ok
  PROVE  LET r == Resolve(fl, e, y)
             d == Dialled(BuildDeploymentConfig(fl, e, y)) IN
         /\ r.ok /\ d.auth = r.auth
         /\ \A x \in {"host", "port", "user", "sslmode", "cert"} :
              d.f[x] = Filled(x, r.f)
         /\ d.f.db = FirstNonEmpty(<<fl.f.db, r.f.db>>)
         /\ r.f.user # Unset => d.f.password = r.f.password
         /\ d.f.tenant = r.f.tenant
         /\ d.mdb = DetermineMaintenanceDB(fl, r.f)
         /\ d.f.port # "bad"
<1> DEFINE r == Resolve(fl, e, y)
           dc == BuildDeploymentConfig(fl, e, y)
           c == DeployerConfig(dc)
           d == Dialled(dc)
<1>1. dc.ok /\ c.ok /\ d = c
  BY DEF Dialled, NewConnector, Failed
<1>2. r.ok /\ ResolveTargetDatabase(fl, r.f) # Unset
  BY <1>1 DEF BuildDeploymentConfig, Failed
<1>3. DOMAIN r.f = Fields
  <2> DEFINE base == IF FirstNonEmpty(<<fl.conn, ConnectionStringFromEnv(e)>>) # Unset
                     THEN ResolveFromConnectionString(
                            Strings[FirstNonEmpty(<<fl.conn, ConnectionStringFromEnv(e)>>)], e)
                     ELSE ResolveFromGranularParams(fl, e, y)
  <2>1. base.ok
    BY <1>2 DEF Resolve, Failed
  <2> HIDE DEF base
  <2> QED BY <1>2, <2>1 DEF Resolve, Failed, base
<1>4. /\ dc.auth = r.auth /\ dc.tenant = r.f.tenant
      /\ dc.mdb = DetermineMaintenanceDB(fl, r.f)
      /\ dc.uri = BuildConnectionString([r.f EXCEPT !.db = ResolveTargetDatabase(fl, r.f)])
  BY <1>1, <1>2 DEF BuildDeploymentConfig, Failed
<1> HIDE DEF r
<1>5. /\ \A x \in {"host", "port", "user", "sslmode", "cert"} : dc.uri[x] = r.f[x]
      /\ dc.uri.db = ResolveTargetDatabase(fl, r.f)
      /\ r.f.user # Unset => dc.uri.password = r.f.password
  BY <1>3, <1>4 DEF BuildConnectionString, Fields
<1> HIDE DEF dc
<1>6. /\ c.auth = dc.auth /\ c.mdb = dc.mdb /\ c.f.tenant = dc.tenant
      /\ dc.uri.port # "bad"
      /\ \A x \in {"host", "port", "user", "sslmode", "cert", "db", "password"} :
           c.f[x] = Filled(x, dc.uri)
  BY <1>1 DEF DeployerConfig, ParseOK, ParseFields, Fields, Failed, Filled
<1>7. c.f.port # "bad"
  <2>1. c.f.port = FirstNonEmpty(<<dc.uri.port, StringDefaults.port>>)
    BY <1>6 DEF Filled
  <2>2. StringDefaults.port = "5432"
    BY DEF StringDefaults, NoFields, Fields
  <2> QED BY <1>6, <2>1, <2>2, First2
<1>8. c.f.db = ResolveTargetDatabase(fl, r.f)
  BY <1>2, <1>5, <1>6, First2 DEF Filled
<1>9. \A x \in {"host", "port", "user", "sslmode", "cert"} : c.f[x] = Filled(x, r.f)
  BY <1>5, <1>6 DEF Filled
<1>10. r.f.user # Unset => c.f.password = r.f.password
  BY <1>5, <1>6, Defaults, First2 DEF Filled
<1> QED BY <1>1, <1>2, <1>4, <1>6, <1>7, <1>8, <1>9, <1>10
        DEF ResolveTargetDatabase, r, dc

(* The sources of a field when no connection string is in force.           *)
Granular(x, fl, e, y) == FirstNonEmpty(<<fl.f[x], e.f[x], y.f[x], GranularDefaults[x]>>)

(* Without a connection string the parameters come from flag, environment, *)
(* pgmi.yaml and default, and no two cloud methods are flagged.            *)
LEMMA ResolvedGranular ==
  ASSUME NEW fl, NEW e, NEW y, Resolve(fl, e, y).ok,
         FirstNonEmpty(<<fl.conn, ConnectionStringFromEnv(e)>>) = Unset
  PROVE  LET r == Resolve(fl, e, y) IN
         /\ r.auth = AuthMethod(Enabled(fl, y))
         /\ ~(Cardinality(CloudFlagged(fl)) > 1)
         /\ \A x \in {"host", "port", "user", "db", "sslmode"} :
              r.f[x] = Granular(x, fl, e, y)
         /\ r.f.cert = FirstNonEmpty(<<fl.f.cert, Unset, e.f.cert, y.f.cert>>)
<1> DEFINE r == Resolve(fl, e, y)
           base == ResolveFromGranularParams(fl, e, y)
<1>1. /\ base.ok /\ r.auth = AuthMethod(Enabled(fl, y))
      /\ ~(Cardinality(CloudFlagged(fl)) > 1)
      /\ \A x \in {"host", "port", "user", "db", "sslmode"} : r.f[x] = base.f[x]
      /\ r.f.cert = ApplyCertParams(base.f.cert, fl, e, y)
  BY DEF Resolve, Failed, Fields
<1>2. /\ \A x \in {"host", "port", "user", "db", "sslmode"} :
           base.f[x] = Granular(x, fl, e, y)
      /\ base.f.cert = Unset
  BY <1>1 DEF ResolveFromGranularParams, Failed, Fields, Granular
<1> HIDE DEF r, base
<1> QED BY <1>1, <1>2 DEF ApplyCertParams, r

(* The password comes from the environment before the wizard, the          *)
(* maintenance database from pgmi.yaml, and Azure's ids from anywhere.     *)
LEMMA ResolvedRest ==
  ASSUME NEW fl, NEW e, NEW y, Resolve(fl, e, y).ok,
         fl.conn = Unset, ConnectionStringFromEnv(e) = Unset
  PROVE  LET r == Resolve(fl, e, y) IN
         /\ r.f.password = IF e.f.password # Unset THEN e.f.password ELSE fl.f.password
         /\ r.f.mdb = IF y.f.mdb # Unset THEN y.f.mdb ELSE "postgres"
         /\ "azure" \in Enabled(fl, y) =>
              r.f.tenant = IF fl.f.tenant # Unset THEN fl.f.tenant
                           ELSE IF e.f.tenant # Unset THEN e.f.tenant ELSE y.f.tenant
<1> DEFINE r == Resolve(fl, e, y)
           base == ResolveFromGranularParams(fl, e, y)
<1>0. FirstNonEmpty(<<fl.conn, ConnectionStringFromEnv(e)>>) = Unset
  BY First2
<1>1. /\ base.ok /\ r.f.mdb = base.f.mdb
      /\ r.f.password = FirstNonEmpty(<<base.f.password, fl.f.password>>)
      /\ r.f.tenant = CloudField("tenant", fl, e, y)
  BY <1>0 DEF Resolve, Failed, Fields
<1>2. /\ base.f.password = e.f.password
      /\ base.f.mdb = FirstNonEmpty(<<y.f.mdb, "postgres">>)
  BY <1>1 DEF ResolveFromGranularParams, Failed, Fields
<1>3. "azure" \in Enabled(fl, y) =>
        CloudField("tenant", fl, e, y) = FirstNonEmpty(<<fl.f.tenant, e.f.tenant, y.f.tenant>>)
  BY DEF CloudField
<1> HIDE DEF r, base
<1> QED BY <1>1, <1>2, <1>3, First2, First3 DEF r

(* The SSL mode when a connection string is in force.                      *)
StringSSLMode(f, e) == FirstNonEmpty(<<Filled("sslmode", f), e.f.sslmode, "prefer">>)

(* With one, they come from the string, and from no flag but the database  *)
(* and the certificates.                                                   *)
LEMMA ResolvedString ==
  ASSUME NEW fl, NEW e, NEW y, Resolve(fl, e, y).ok, NEW name,
         name = FirstNonEmpty(<<fl.conn, ConnectionStringFromEnv(e)>>), name # Unset
  PROVE  LET r == Resolve(fl, e, y)
             s == Strings[name] IN
         /\ GranularIsEmpty(fl)
         /\ \A x \in {"host", "port", "user", "db"} :
              r.f[x] = Filled(x, s.f)
         /\ r.f.sslmode = StringSSLMode(s.f, e)
         /\ r.f.cert = ApplyCertParams(Filled("cert", s.f), fl, e, y)
<1> DEFINE r == Resolve(fl, e, y)
           base == ResolveFromConnectionString(Strings[name], e)
<1>1. /\ base.ok /\ GranularIsEmpty(fl)
      /\ \A x \in {"host", "port", "user", "db", "sslmode"} : r.f[x] = base.f[x]
      /\ r.f.cert = ApplyCertParams(base.f.cert, fl, e, y)
  BY DEF Resolve, Failed, Fields
<1>2. /\ \A x \in {"host", "port", "user", "db", "cert"} :
           base.f[x] = Filled(x, Strings[name].f)
      /\ base.f.sslmode =
           StringSSLMode(Strings[name].f, e)
  BY <1>1 DEF ResolveFromConnectionString, ParseFields, Failed, Fields, Filled,
     StringSSLMode
<1> HIDE DEF r, base
<1> QED BY <1>1, <1>2 DEF r

----------------------------------------------------------------------------
(* The wizard and the commands                                             *)

Methods == Clouds \cup {"standard"}

(* A configuration as buildConfig makes it: it names a database.           *)
Built(c) == c.auth \in Methods /\ DOMAIN c.f = Fields /\ c.f.db # Unset

(* Where the program of the wizard can be.  A result is outstanding only   *)
(* on the test step, and only for the configuration under test; a test     *)
(* that counts as passed passed for the configuration on the table.        *)
WizardInv ==
  /\ provider \in DOMAIN Providers
  /\ step # "selectProvider" => auth \in DOMAIN Auths(provider)
  /\ testing => step = "testConnection" /\ ~testDone
  /\ step = "testConnection" => Built(config)
  /\ step = "testConnection" /\ testDone /\ testOK => passed = config
  /\ pc = "wizard" /\ accepted => quit /\ passed = config
  /\ pc = "wizard" /\ quit => accepted \/ cancelled
  /\ accepted => Built(config)

(* The menus: every entry has a method, and the first one always exists.   *)
LEMMA Menus ==
  \A p \in DOMAIN Providers :
    /\ 1 \in DOMAIN Auths(p)
    /\ \A a \in DOMAIN Auths(p) : Method(p, a) \in Methods
<1>1. DOMAIN Providers = 1..5
  BY DEF Providers
<1>2. /\ Auths(1) = <<Password>> /\ Auths(2) = <<Entra, Password>>
      /\ Auths(3) = <<[id |-> "iam", method |-> "aws"], Password>>
      /\ Auths(4) = <<[id |-> "iam", method |-> "google"], Password>>
      /\ Auths(5) = <<[id |-> "connstring", method |-> "standard"]>>
  BY DEF Auths, Providers
<1>3. TAKE p \in DOMAIN Providers
<1>4. CASE p = 1
  BY <1>2, <1>4 DEF Method, Methods, Clouds, Password
<1>5. CASE p = 2
  BY <1>2, <1>5 DEF Method, Methods, Clouds, Password, Entra
<1>6. CASE p = 3
  BY <1>2, <1>6 DEF Method, Methods, Clouds, Password
<1>7. CASE p = 4
  BY <1>2, <1>7 DEF Method, Methods, Clouds, Password
<1>8. CASE p = 5
  BY <1>2, <1>8 DEF Method, Methods, Clouds
<1> QED BY <1>1, <1>4, <1>5, <1>6, <1>7, <1>8

(* A form is none of the other steps.                                      *)
LEMMA Forms ==
  /\ InputSteps \cap {"selectProvider", "selectAuth", "testConnection", "done"} = {}
  /\ \A p, a : GetInputStep(p, a) \in InputSteps
BY DEF InputSteps, Form, GetInputStep

(* A wizard that starts afresh.                                            *)
LEMMA ResetStep ==
  ASSUME WizardReset
  PROVE  WizardInv'
<1>1. 1 \in DOMAIN Providers
  BY DEF Providers
<1> QED BY <1>1 DEF WizardReset, WizardInv

(* Every message keeps the wizard's invariant.                             *)
LEMMA UseWizardStep ==
  ASSUME WizardInv, UseWizard
  PROVE  WizardInv'
<1> USE DEF WizardInv
<1>1. pc = "wizard" /\ pc' = "wizard" /\ WizardStep
  BY DEF UseWizard, setupVars
<1>2. CASE CtrlC
  BY <1>1, <1>2 DEF CtrlC
<1>3. CASE ~quit /\ ProviderMove
  BY <1>1, <1>3 DEF ProviderMove
<1>4. CASE ~quit /\ ProviderSelect
  <2>1. /\ auth' = 1 /\ step' # "testConnection" /\ provider' = provider
        /\ UNCHANGED <<testing, testDone, testOK, config, accepted, cancelled, quit, passed>>
    BY <1>4, Forms DEF ProviderSelect, OpenForm
  <2> QED BY <1>1, <1>4, <2>1, Menus DEF ProviderSelect
<1>5. CASE ~quit /\ ProviderBack
  BY <1>1, <1>5 DEF ProviderBack
<1>6. CASE ~quit /\ AuthMove
  BY <1>1, <1>6 DEF AuthMove
<1>7. CASE ~quit /\ AuthSelect
  BY <1>1, <1>7, Forms DEF AuthSelect, OpenForm
<1>8. CASE ~quit /\ AuthBack
  BY <1>1, <1>8 DEF AuthBack
<1>9. CASE ~quit /\ FormType
  BY <1>1, <1>9, Forms DEF FormType
<1>10. CASE ~quit /\ FormBack
  BY <1>1, <1>10, Forms DEF FormBack
<1>11. CASE ~quit /\ FormSubmit
  <2>1. config'.auth = Method(provider, auth) /\ auth \in DOMAIN Auths(provider)
    BY <1>11, Forms DEF FormSubmit, BuildConfig
  <2>2. Built(config')
    <3>1. DOMAIN config'.f = Fields
      BY <1>11 DEF FormSubmit, BuildConfig, NoFields, ParseFields
    <3>2. config'.f.db # Unset
      <4>1. step \in InputSteps /\ ValidateInputs(step, inputs)
        BY <1>11 DEF FormSubmit
      <4>2. CASE step = "inputConnString"
        <5>1. config'.f.db = FirstNonEmpty(<<Strings[inputs.conn].f.db, StringDefaults.db>>)
          BY <1>11, <4>2 DEF FormSubmit, BuildConfig, ParseFields, Fields
        <5> QED BY <5>1, First2, Defaults
      <4>3. CASE step # "inputConnString"
        <5>1. inputs.db # Unset
          BY <4>1, <4>3 DEF ValidateInputs, InputSteps, Form
        <5>2. config'.f.db = inputs.db
          BY <1>11, <4>1, <4>3 DEF FormSubmit, BuildConfig, NoFields, Fields, InputSteps, Form
        <5> QED BY <5>1, <5>2
      <4> QED BY <4>2, <4>3
    <3> QED BY <2>1, <3>1, <3>2, Menus DEF Built
  <2> QED BY <1>1, <1>11, <2>1, <2>2 DEF FormSubmit
<1>12. CASE ~quit /\ TestResult
  BY <1>1, <1>12 DEF TestResult
<1>13. CASE ~quit /\ TestAccept
  BY <1>1, <1>13 DEF TestAccept
<1>14. CASE ~quit /\ TestRetry
  BY <1>1, <1>14, Forms DEF TestRetry, OpenForm
<1> QED BY <1>1, <1>2, <1>3, <1>4, <1>5, <1>6, <1>7, <1>8, <1>9, <1>10, <1>11,
           <1>12, <1>13, <1>14 DEF WizardStep

(* What a deploy at its dial asks for.                                     *)
Asked == Dialled(BuildDeploymentConfig(
           IF accepted THEN ApplyWizardConfig(flags, config) ELSE flags, env, loaded))

(* The commands.  Only an accepted wizard leads to a save and only a       *)
(* deploy dials; a deploy that opened the wizard had no other source for   *)
(* host and database; what it dialled is still explained by the state; and *)
(* pgmi.yaml holds what the wizard saved last.                             *)
SetupInv ==
  /\ flags \in FlagSets \cup {NoFlags}
  /\ cancelled => pc \in {"wizard", "idle"}
  /\ pc \in {"save", "write", "offer", "rename"} => accepted
  /\ pc = "dial" => cmd = "deploy"
  /\ cmd = "deploy" /\ (pc = "wizard" \/ accepted) =>
       NeedsConnectionWizard(flags, env, loaded)
  /\ dial.on => /\ pc = "idle" /\ cmd = "deploy" /\ ~cancelled
                /\ Asked.ok /\ dial.auth = Asked.auth /\ dial.f = Asked.f
                /\ dial.mdb = Asked.mdb
  /\ (pc = "dial" \/ dial.on) /\ ~accepted => loaded = yaml
  /\ saved # NoConfig => Built(saved) /\ yaml = SavedYaml(saved, yaml)
  /\ had /\ ~torn /\ pc # "idle" => loaded.params
  /\ had /\ ~torn /\ pc # "write" => yaml.params

(* A step of a running command that keeps what it was started with, what   *)
(* it decided and what it has on disk.                                     *)
LEMMA QuietStep ==
  ASSUME SetupInv, pc # "idle", pc # "write",
         UNCHANGED <<flags, env, loaded, cmd, dial, yaml, saved, had, torn>>,
         cmd = "deploy" /\ accepted' => pc = "wizard" \/ accepted,
         pc' = "wizard" => pc = "wizard",
         cancelled' => pc' \in {"wizard", "idle"},
         pc' \in {"save", "offer", "rename", "dial"} => accepted',
         pc' = "dial" => cmd = "deploy",
         pc' # "write"
  PROVE  SetupInv'
BY DEF SetupInv, NeedsConnectionWizard

LEMMA SetupStep == WizardInv /\ SetupInv /\ [Next]_vars => WizardInv' /\ SetupInv'
<1> SUFFICES ASSUME WizardInv, SetupInv, [Next]_vars
             PROVE  WizardInv' /\ SetupInv'
  OBVIOUS
<1>1. CASE UNCHANGED vars
  BY <1>1 DEF vars, wizardVars, setupVars, WizardInv, SetupInv, Asked
<1>2. CASE StartDeploy
  <2>1. flags' \in FlagSets /\ cmd' = "deploy" /\ loaded' = yaml /\ dial' = NoDial
    BY <1>2 DEF StartDeploy
  <2>2. /\ pc = "idle" /\ pc' \in {"idle", "wizard", "dial"} /\ ~accepted' /\ ~cancelled'
        /\ UNCHANGED <<env, yaml, saved, had, torn>>
    BY <1>2 DEF StartDeploy, Finish, WizardReset
  <2>3. pc' = "wizard" => NeedsConnectionWizard(flags', env', loaded')
    BY <1>2, <2>2 DEF StartDeploy, Finish
  <2>4. SetupInv'
    BY <2>1, <2>2, <2>3 DEF SetupInv, NoDial
  <2> QED BY <1>2, <2>4, ResetStep DEF StartDeploy
<1>3. CASE StartConfig
  <2>1. /\ flags' = NoFlags /\ cmd' = "config" /\ loaded' = yaml /\ dial' = NoDial
        /\ pc = "idle" /\ pc' \in {"idle", "wizard"} /\ ~accepted' /\ ~cancelled'
        /\ UNCHANGED <<env, yaml, saved, had, torn>>
    BY <1>3 DEF StartConfig, Finish, WizardReset
  <2>2. SetupInv'
    BY <2>1 DEF SetupInv, NoDial
  <2> QED BY <1>3, <2>2, ResetStep DEF StartConfig
<1>4. CASE UseWizard
  <2>1. SetupInv'
    BY <1>4, QuietStep DEF UseWizard, setupVars
  <2> QED BY <1>4, <2>1, UseWizardStep
<1>5. CASE EndWizard
  <2>1. /\ pc = "wizard" /\ quit
        /\ \/ cancelled /\ pc' = "idle"
           \/ /\ ~cancelled /\ pc' \in {"save", "dial"}
              /\ pc' = "dial" => cmd = "deploy"
        /\ UNCHANGED <<flags, env, loaded, cmd, dial, yaml, saved, had, torn,
                       accepted, cancelled, config>>
    BY <1>5 DEF EndWizard, DropWizard, Finish
  <2>2. SetupInv'
    BY <2>1, QuietStep DEF WizardInv
  <2>3. 1 \in DOMAIN Providers
    BY DEF Providers
  <2>4. WizardInv'
    BY <1>5, <2>1, <2>3 DEF EndWizard, DropWizard, WizardInv
  <2> QED BY <2>2, <2>4
<1>6. CASE WizardFails
  <2>1. SetupInv'
    BY <1>6, QuietStep DEF WizardFails, WizardReset, Finish
  <2> QED BY <1>6, <2>1, ResetStep DEF WizardFails
<1>7. ASSUME UNCHANGED wizardVars, pc # "wizard", pc' # "wizard" PROVE WizardInv'
  BY <1>7 DEF wizardVars, WizardInv
<1>8. CASE OpenYaml
  BY <1>7, <1>8 DEF OpenYaml, SetupInv, Asked, NeedsConnectionWizard, wizardVars
<1>9. CASE SaveFails
  <2>1. SetupInv'
    BY <1>9, QuietStep DEF SaveFails, Finish, wizardVars, SetupInv
  <2> QED BY <1>7, <1>9, <2>1 DEF SaveFails, Finish
<1>10. CASE WriteYaml
  <2>1. accepted /\ Built(config) /\ ~dial.on
    BY <1>10 DEF WriteYaml, SetupInv, WizardInv
  <2>2. yaml'.params = loaded.params /\ yaml' = SavedYaml(saved', yaml')
    BY <1>10 DEF WriteYaml, SavedYaml
  <2>3. SetupInv'
    BY <1>10, <2>1, <2>2 DEF WriteYaml, SetupInv, NeedsConnectionWizard, wizardVars
  <2> QED BY <1>7, <1>10, <2>3 DEF WriteYaml
<1>11. CASE WriteFails
  <2>1. SetupInv'
    BY <1>11 DEF WriteFails, Finish, SetupInv, NeedsConnectionWizard, wizardVars
  <2> QED BY <1>7, <1>11, <2>1 DEF WriteFails, Finish
<1>12. CASE SkipPgpass
  <2>1. SetupInv'
    BY <1>12, QuietStep DEF SkipPgpass, AfterSave, Finish, wizardVars, SetupInv
  <2> QED BY <1>7, <1>12, <2>1 DEF SkipPgpass, AfterSave, Finish
<1>13. CASE WriteTmp
  <2>1. SetupInv'
    BY <1>13, QuietStep DEF WriteTmp, wizardVars, SetupInv
  <2> QED BY <1>7, <1>13, <2>1 DEF WriteTmp
<1>14. CASE RenamePgpass
  <2>1. SetupInv'
    BY <1>14, QuietStep DEF RenamePgpass, AfterSave, Finish, wizardVars, SetupInv
  <2> QED BY <1>7, <1>14, <2>1 DEF RenamePgpass, AfterSave, Finish
<1>15. CASE RenameFails
  <2>1. SetupInv'
    BY <1>15, QuietStep DEF RenameFails, AfterSave, Finish, wizardVars, SetupInv
  <2> QED BY <1>7, <1>15, <2>1 DEF RenameFails, AfterSave, Finish
<1>16. CASE Dial
  <2>1. /\ pc = "dial" /\ pc' = "idle" /\ UNCHANGED wizardVars
        /\ UNCHANGED <<env, yaml, cmd, flags, loaded, saved, had, torn>>
        /\ IF Asked.ok
           THEN dial' = [on |-> TRUE, auth |-> Asked.auth, f |-> Asked.f, mdb |-> Asked.mdb]
           ELSE dial' = dial
    BY <1>16 DEF Dial, Finish, Asked
  <2>2. Asked' = Asked
    BY <2>1 DEF Asked, wizardVars
  <2>3. SetupInv'
    BY <2>1, <2>2 DEF SetupInv, NeedsConnectionWizard, wizardVars
  <2> QED BY <1>7, <2>1, <2>3
<1>17. CASE Crash
  <2>1. SetupInv'
    BY <1>17 DEF Crash, Finish, WizardReset, SetupInv
  <2> QED BY <1>17, <2>1, ResetStep DEF Crash
<1> QED
  BY <1>1, <1>2, <1>3, <1>4, <1>5, <1>6, <1>8, <1>9, <1>10, <1>11, <1>12, <1>13,
     <1>14, <1>15, <1>16, <1>17 DEF Next

LEMMA SetupInvHolds == Spec => [](WizardInv /\ SetupInv)
<1>1. Init => WizardInv /\ SetupInv
  <2>1. 1 \in DOMAIN Providers
    BY DEF Providers
  <2> QED BY <2>1 DEF Init, WizardInit, WizardInv, SetupInv, NoDial
<1> QED BY <1>1, SetupStep, PTL DEF Spec

(* What the wizard hands over passed its test as it stands.                *)
THEOREM AcceptedWasTested == Spec => []AcceptedIsTested
<1>1. WizardInv => AcceptedIsTested
  BY DEF WizardInv, AcceptedIsTested
<1> QED BY <1>1, SetupInvHolds, PTL

(* After a cancel nothing is saved and nothing dialled.                    *)
THEOREM CancelStops == Spec => CancelIsFinal
<1>1. WizardInv /\ SetupInv /\ (WizardInv /\ SetupInv)' /\ [Next]_vars =>
        [cancelled /\ cancelled' =>
           yaml' = yaml /\ pgpass' = pgpass /\ ~dial'.on]_vars
  <2> SUFFICES ASSUME SetupInv, SetupInv', Next, cancelled, cancelled'
               PROVE  yaml' = yaml /\ pgpass' = pgpass /\ ~dial'.on
    OBVIOUS
  <2>1. pc \in {"wizard", "idle"} /\ ~dial'.on
    BY DEF SetupInv
  <2>2. pc = "wizard" \/ StartDeploy \/ StartConfig
    BY <2>1 DEF Next, UseWizard, EndWizard, WizardFails, OpenYaml, SaveFails, WriteYaml,
                WriteFails, SkipPgpass, WriteTmp, RenamePgpass, RenameFails, Dial, Crash
  <2>3. yaml' = yaml /\ pgpass' = pgpass
    BY <2>1, <2>2 DEF Next, StartDeploy, StartConfig, UseWizard, setupVars, EndWizard,
                WizardFails, OpenYaml, SaveFails, WriteYaml, WriteFails, SkipPgpass,
                WriteTmp, RenamePgpass, RenameFails, Dial, Crash
  <2> QED BY <2>1, <2>3
<1> QED BY <1>1, SetupInvHolds, SetupStep, PTL DEF Spec, CancelIsFinal

----------------------------------------------------------------------------
(* The three statements about what is dialled                              *)

(* The list of sources DialsByPrecedence writes down: above pgmi.yaml, and *)
(* from there.                                                             *)
Above(str, x, a, v, e) ==
  <<a>> \o (IF str # Unset
            THEN <<v>> \o IF x \in {"sslmode", "cert"} THEN <<e>> ELSE <<>>
            ELSE <<e>>)

Below(str, y, z) == (IF str = Unset THEN <<y>> ELSE <<>>) \o <<z>>

Given(str, x, a, v, e) ==
  IF a # Unset THEN a
  ELSE IF str # Unset /\ v # Unset THEN v
  ELSE IF str = Unset \/ x \in {"sslmode", "cert"} THEN e ELSE Unset

LEMMA Ranked ==
  ASSUME NEW str, NEW x, NEW a, NEW v, NEW e, NEW y, NEW z
  PROVE  /\ FirstNonEmpty(Above(str, x, a, v, e)) = Given(str, x, a, v, e)
         /\ FirstNonEmpty(Above(str, x, a, v, e) \o Below(str, y, z)) =
              IF Given(str, x, a, v, e) # Unset THEN Given(str, x, a, v, e)
              ELSE IF str = Unset /\ y # Unset THEN y ELSE z
<1> DEFINE S == {a, v, e, y, z}
           s == IF x \in {"sslmode", "cert"} THEN <<e>> ELSE <<>>
           sv == <<v>>
           sa == <<a>>
           sz == <<z>>
           m == IF str # Unset THEN sv \o s ELSE <<e>>
           t == IF str = Unset THEN <<y>> ELSE <<>>
           above == sa \o m
           below == t \o sz
<1>1. /\ sa \in Seq(S) /\ sv \in Seq(S) /\ <<e>> \in Seq(S)
      /\ <<y>> \in Seq(S) /\ sz \in Seq(S) /\ <<>> \in Seq(S)
  OBVIOUS
<1>2. /\ FirstNonEmpty(sa) = a /\ FirstNonEmpty(sv) = v /\ FirstNonEmpty(<<e>>) = e
      /\ FirstNonEmpty(<<y>>) = y /\ FirstNonEmpty(sz) = z
      /\ FirstNonEmpty(<<>>) = Unset
  BY First1, FirstNone
<1> HIDE DEF S
<1>3. s \in Seq(S) /\ t \in Seq(S)
  BY <1>1
<1>4. FirstNonEmpty(s) = IF x \in {"sslmode", "cert"} THEN e ELSE Unset
  BY <1>2
<1>5. FirstNonEmpty(t) = IF str = Unset THEN y ELSE Unset
  BY <1>2
<1> HIDE DEF s, t, sv, sa, sz
<1>6. /\ sv \o s \in Seq(S)
      /\ FirstNonEmpty(sv \o s) = IF v # Unset THEN v ELSE FirstNonEmpty(s)
  BY <1>1, <1>2, <1>3, FirstCat
<1>7. /\ m \in Seq(S)
      /\ FirstNonEmpty(m) = IF str # Unset THEN FirstNonEmpty(sv \o s) ELSE e
  BY <1>1, <1>2, <1>6
<1> HIDE DEF m
<1>8. /\ above \in Seq(S)
      /\ FirstNonEmpty(above) = IF a # Unset THEN a ELSE FirstNonEmpty(m)
  BY <1>1, <1>2, <1>7, FirstCat
<1>9. /\ below \in Seq(S)
      /\ FirstNonEmpty(below) = IF FirstNonEmpty(t) # Unset THEN FirstNonEmpty(t) ELSE z
  BY <1>1, <1>2, <1>3, FirstCat
<1> HIDE DEF above, below
<1>10. FirstNonEmpty(above \o below) =
         IF FirstNonEmpty(above) # Unset THEN FirstNonEmpty(above) ELSE FirstNonEmpty(below)
  BY <1>8, <1>9, FirstCat
<1>11. FirstNonEmpty(above) = Given(str, x, a, v, e)
  BY <1>4, <1>6, <1>7, <1>8 DEF Given
<1>12. FirstNonEmpty(below) = IF str = Unset /\ y # Unset THEN y ELSE z
  BY <1>5, <1>9
<1>13. Above(str, x, a, v, e) = above /\ Below(str, y, z) = below
  BY DEF Above, Below, above, below, m, s, t, sa, sv, sz
<1> QED BY <1>10, <1>11, <1>12, <1>13

(* The wizard's fields under the flags.                                    *)
LEMMA AppliedFields ==
  ASSUME NEW fl \in FlagSets \cup {NoFlags}, NEW c
  PROVE  LET a == ApplyWizardConfig(fl, c) IN
         /\ a.conn = fl.conn
         /\ \A x \in {"host", "port", "user", "db", "sslmode"} :
              a.f[x] = FirstNonEmpty(<<fl.f[x], c.f[x]>>)
         /\ a.cloud = fl.cloud \cup ({c.auth} \cap Clouds)
         /\ a.f.password = FirstNonEmpty(<<c.f.password, fl.f.password>>)
         /\ a.f.cert = fl.f.cert
         /\ c.auth = "azure" => a.f.tenant = FirstNonEmpty(<<fl.f.tenant, c.f.tenant>>)
<1>1. DOMAIN fl = {"conn", "f", "cloud"}
  BY FlagsAssumption DEF NoFlags
<1> QED BY <1>1 DEF ApplyWizardConfig, Fields

(* The deploy that opened the wizard dials, of what was accepted there,    *)
(* what WizardReachesDeploy says, and the rest from where it says.         *)
THEOREM WizardIsDialled == Spec => []WizardReachesDeploy
<1>1. WizardInv /\ SetupInv => WizardReachesDeploy
  <2> SUFFICES ASSUME WizardInv, SetupInv, dial.on, accepted PROVE WizardReachesDeploy
    BY DEF WizardReachesDeploy
  <2> DEFINE a == ApplyWizardConfig(flags, config)
             r == Resolve(a, env, loaded)
             d == Dialled(BuildDeploymentConfig(a, env, loaded))
  <2>1. /\ d.ok /\ dial.auth = d.auth /\ dial.f = d.f /\ dial.mdb = d.mdb
        /\ flags \in FlagSets \cup {NoFlags}
        /\ NeedsConnectionWizard(flags, env, loaded)
        /\ config.f.db # Unset
    BY DEF SetupInv, Asked, WizardInv, Built
  <2>2. /\ a.conn = flags.conn
        /\ \A x \in {"host", "port", "user", "db", "sslmode"} : a.f[x] = Chosen(x)
        /\ a.cloud = flags.cloud \cup ({config.auth} \cap Clouds)
        /\ a.f.password = FirstNonEmpty(<<config.f.password, flags.f.password>>)
        /\ a.f.cert = flags.f.cert
        /\ config.auth = "azure" => a.f.tenant = Chosen("tenant")
    BY <2>1, AppliedFields DEF Chosen
  <2> HIDE DEF a
  <2>3. /\ r.ok /\ d.auth = r.auth
        /\ \A x \in {"host", "port", "user", "sslmode", "cert"} :
             d.f[x] = Filled(x, r.f)
        /\ d.f.db = FirstNonEmpty(<<a.f.db, r.f.db>>)
        /\ r.f.user # Unset => d.f.password = r.f.password
        /\ d.f.tenant = r.f.tenant
        /\ d.mdb = DetermineMaintenanceDB(a, r.f)
    BY <2>1, DialledFields
  <2>4. /\ flags.conn = Unset /\ ConnectionStringFromEnv(env) = Unset
        /\ FirstNonEmpty(<<flags.conn, ConnectionStringFromEnv(env)>>) = Unset
    BY <2>1, First2 DEF NeedsConnectionWizard
  <2> HIDE DEF d
  <2>5. /\ r.ok /\ a.conn = Unset /\ ConnectionStringFromEnv(env) = Unset
        /\ FirstNonEmpty(<<a.conn, ConnectionStringFromEnv(env)>>) = Unset
    BY <2>2, <2>3, <2>4
  <2>6. /\ r.auth = AuthMethod(Enabled(a, loaded))
        /\ \A x \in {"host", "port", "user", "db", "sslmode"} :
             r.f[x] = Granular(x, a, env, loaded)
        /\ r.f.cert = FirstNonEmpty(<<a.f.cert, Unset, env.f.cert, loaded.f.cert>>)
        /\ r.f.password = IF env.f.password # Unset THEN env.f.password ELSE a.f.password
        /\ r.f.mdb = IF loaded.f.mdb # Unset THEN loaded.f.mdb ELSE "postgres"
        /\ "azure" \in Enabled(a, loaded) =>
             r.f.tenant = IF a.f.tenant # Unset THEN a.f.tenant
                          ELSE IF env.f.tenant # Unset THEN env.f.tenant
                          ELSE loaded.f.tenant
    BY <2>5, ResolvedGranular, ResolvedRest
  <2> HIDE DEF r
  <2>7. ASSUME NEW x \in {"host", "port", "user", "db", "sslmode"}
        PROVE  dial.f[x] =
                 FirstNonEmpty(<<Chosen(x), env.f[x], loaded.f[x], DocumentedDefault(x)>>)
    <3>1. r.f[x] = FirstNonEmpty(<<Chosen(x), env.f[x], loaded.f[x], GranularDefaults[x]>>)
      BY <2>2, <2>6 DEF Granular
    <3>2. DocumentedDefault(x) = GranularDefaults[x]
      BY <2>4, Defaults DEF DocumentedDefault, StringInForce
    <3>3. CASE x = "db"
      <4>1. a.f.db = Chosen("db") /\ a.f.db # Unset
        BY <2>1, <2>2, First2 DEF Chosen
      <4> QED BY <2>1, <2>3, <3>3, <4>1, First2, First4
    <3>4. CASE x # "db"
      <4>1. GranularDefaults[x] # Unset
        BY <3>4, Defaults
      <4>2. r.f[x] # Unset
        BY <3>1, <4>1, First4
      <4> QED BY <2>1, <2>3, <3>1, <3>2, <3>4, <4>2, First2 DEF Filled
    <3> QED BY <3>3, <3>4
  <2>8. ASSUME config.auth = "azure"
        PROVE  dial.f.tenant =
                 FirstNonEmpty(<<Chosen("tenant"), env.f.tenant, loaded.f.tenant>>)
    <3>1. "azure" \in Enabled(a, loaded)
      BY <2>2, <2>8 DEF Enabled, Clouds
    <3> QED BY <2>1, <2>2, <2>3, <2>6, <2>8, <3>1, First3
  <2>9. dial.f.password =
          FirstNonEmpty(<<env.f.password, config.f.password, flags.f.password>>)
    <3>1. GranularDefaults["user"] # Unset
      BY Defaults
    <3>2. r.f.user # Unset
      BY <2>6, <3>1, First4 DEF Granular
    <3> QED BY <2>1, <2>2, <2>3, <2>6, <3>2, First2, First3
  <2>10. dial.f.cert = FirstNonEmpty(<<flags.f.cert, env.f.cert, loaded.f.cert>>)
    BY <2>1, <2>2, <2>3, <2>6, First2, First3, First4, Defaults DEF Filled
  <2>11. dial.mdb = FirstNonEmpty(<<loaded.f.mdb, "postgres">>)
    <3>1. a.f.db # Unset
      BY <2>1, <2>2, First2 DEF Chosen
    <3> QED BY <2>1, <2>3, <2>6, <3>1, First2 DEF DetermineMaintenanceDB
  <2>12. dial.auth = AuthMethod(flags.cloud \cup ({config.auth, loaded.auth} \cap Clouds))
    <3>1. Enabled(a, loaded) = flags.cloud \cup ({config.auth, loaded.auth} \cap Clouds)
      BY <2>2 DEF Enabled
    <3> QED BY <2>1, <2>3, <2>6, <3>1
  <2> QED BY <2>7, <2>8, <2>9, <2>10, <2>11, <2>12 DEF WizardReachesDeploy
<1> QED BY <1>1, SetupInvHolds, PTL

(* A plain deploy dials what the wizard saved before, its maintenance      *)
(* database excepted, and saving keeps the params of the file.             *)
THEOREM SavedIsRepeated == Spec => []SavedMeansRepeatable
<1>1. SetupInv => SavedMeansRepeatable
  <2>1. ASSUME SetupInv PROVE had /\ ~torn /\ pc # "write" => yaml.params
    BY <2>1 DEF SetupInv
  <2>2. ASSUME SetupInv, dial.on, ~accepted, saved # NoConfig, flags = NoFlags, env = NoEnv
        PROVE  /\ \A x \in {"host", "port", "user", "db", "sslmode", "cert"} :
                    saved.f[x] # Unset => dial.f[x] = saved.f[x]
               /\ dial.auth = saved.auth
               /\ saved.auth = "azure" => dial.f.tenant = saved.f.tenant
               /\ dial.mdb = IF saved.f.db = "postgres"
                             THEN FirstNonEmpty(<<saved.f.mdb, "postgres">>)
                             ELSE "postgres"
    <3> DEFINE r == Resolve(flags, env, loaded)
               d == Dialled(BuildDeploymentConfig(flags, env, loaded))
    <3>1. /\ d.ok /\ dial.auth = d.auth /\ dial.f = d.f /\ dial.mdb = d.mdb
          /\ saved.auth \in Methods /\ DOMAIN saved.f = Fields /\ saved.f.db # Unset
      BY <2>2 DEF SetupInv, Asked, Built
    <3>2. /\ flags.conn = Unset /\ flags.cloud = {} /\ env.pgmi = Unset /\ env.url = Unset
          /\ \A x \in Fields : flags.f[x] = Unset /\ env.f[x] = Unset
      BY <2>2 DEF NoFlags, NoEnv, NoFields
    <3>3. /\ r.ok /\ d.auth = r.auth
          /\ \A x \in {"host", "port", "user", "sslmode", "cert"} :
               d.f[x] = Filled(x, r.f)
          /\ d.f.db = FirstNonEmpty(<<flags.f.db, r.f.db>>)
          /\ d.f.tenant = r.f.tenant /\ d.mdb = DetermineMaintenanceDB(flags, r.f)
      BY <3>1, DialledFields
    <3>4. /\ ConnectionStringFromEnv(env) = Unset
          /\ FirstNonEmpty(<<flags.conn, ConnectionStringFromEnv(env)>>) = Unset
      BY <3>2, First2 DEF ConnectionStringFromEnv
    <3> HIDE DEF d
    <3>5. r.ok
      BY <3>3
    <3>6. /\ r.auth = AuthMethod(Enabled(flags, loaded))
          /\ \A x \in {"host", "port", "user", "db", "sslmode"} :
               r.f[x] = Granular(x, flags, env, loaded)
          /\ r.f.cert = FirstNonEmpty(<<flags.f.cert, Unset, env.f.cert, loaded.f.cert>>)
      BY <3>5, <3>4, ResolvedGranular
    <3>7. /\ r.f.mdb = IF loaded.f.mdb # Unset THEN loaded.f.mdb ELSE "postgres"
          /\ "azure" \in Enabled(flags, loaded) =>
               r.f.tenant = IF flags.f.tenant # Unset THEN flags.f.tenant
                            ELSE IF env.f.tenant # Unset THEN env.f.tenant
                            ELSE loaded.f.tenant
      BY <3>2, <3>5, <3>4, ResolvedRest
    <3> HIDE DEF r
    <3> DEFINE s == SavedYaml(saved, loaded)
    <3>8. /\ s.auth = IF saved.auth \in Clouds THEN saved.auth ELSE Unset
          /\ \A x \in {"host", "port", "user", "db", "sslmode", "cert", "tenant", "mdb"} :
               x \in Fields /\ s.f[x] = saved.f[x]
      BY <3>1 DEF SavedYaml, Fields
    <3> HIDE DEF s
    <3>9. loaded = s
      BY <2>2 DEF SetupInv, s
    <3>10. \A x \in {"host", "port", "user", "db", "sslmode", "cert", "tenant", "mdb"} :
            x \in Fields /\ loaded.f[x] = saved.f[x]
      BY <3>8, <3>9
    <3>11. \A x \in {"host", "port", "user", "db", "sslmode", "cert"} :
            saved.f[x] # Unset => r.f[x] = saved.f[x]
      BY <3>2, <3>6, <3>10, First4 DEF Granular
    <3>12. ASSUME NEW x \in {"host", "port", "user", "db", "sslmode", "cert"},
                 saved.f[x] # Unset
          PROVE  dial.f[x] = saved.f[x]
      BY <3>1, <3>2, <3>3, <3>10, <3>11, <3>12, First2 DEF Filled
    <3>13. Enabled(flags, loaded) = {saved.auth} \cap Clouds
      BY <3>8, <3>9, <3>2 DEF Enabled, Clouds, Unset
    <3>14. dial.auth = saved.auth
      BY <3>1, <3>3, <3>6, <3>13 DEF AuthMethod, Methods, Clouds
    <3>15. ASSUME saved.auth = "azure" PROVE dial.f.tenant = saved.f.tenant
      <4>1. "azure" \in Enabled(flags, loaded) /\ "tenant" \in Fields
        BY <3>13, <3>15 DEF Clouds, Fields
      <4> QED BY <3>1, <3>2, <3>3, <3>7, <3>10, <4>1
    <3>16. dial.mdb = IF saved.f.db = "postgres"
                      THEN FirstNonEmpty(<<saved.f.mdb, "postgres">>)
                      ELSE "postgres"
      <4>1. r.f.db = saved.f.db /\ flags.f.db = Unset
        BY <3>1, <3>2, <3>11 DEF Fields
      <4> QED BY <3>1, <3>3, <3>7, <3>10, <4>1, First2 DEF DetermineMaintenanceDB, Fields
    <3> QED BY <3>12, <3>14, <3>15, <3>16
  <2> QED BY <2>1, <2>2 DEF SavedMeansRepeatable
<1> QED BY <1>1, SetupInvHolds, PTL

(* Without the wizard, the highest-ranking source of each parameter wins,  *)
(* and a port out of range is never dialled.                               *)
THEOREM PrecedenceHolds == Spec => []DialsByPrecedence
<1>1. SetupInv => DialsByPrecedence
  <2> SUFFICES ASSUME SetupInv, dial.on, ~accepted PROVE DialsByPrecedence
    BY DEF DialsByPrecedence
  <2> DEFINE r == Resolve(flags, env, loaded)
             d == Dialled(BuildDeploymentConfig(flags, env, loaded))
             str == Strings[StringInForce].f
  <2>1. d.ok /\ dial.f = d.f
    BY DEF SetupInv, Asked
  <2>2. /\ r.ok /\ d.f.port # "bad"
        /\ \A x \in {"host", "port", "user", "sslmode", "cert"} : d.f[x] = Filled(x, r.f)
        /\ d.f.db = FirstNonEmpty(<<flags.f.db, r.f.db>>)
    BY <2>1, DialledFields
  <2>3. r.ok /\ StringInForce = FirstNonEmpty(<<flags.conn, ConnectionStringFromEnv(env)>>)
    BY <2>2 DEF StringInForce
  <2> HIDE DEF d
  <2>4. ASSUME NEW x \in {"host", "port", "user", "db", "sslmode", "cert"}
        PROVE  LET above == <<flags.f[x]>>
                              \o (IF StringInForce # Unset
                                  THEN <<str[x]>>
                                         \o IF x \in {"sslmode", "cert"}
                                            THEN <<env.f[x]>> ELSE <<>>
                                  ELSE <<env.f[x]>>)
                   below == (IF StringInForce = Unset THEN <<loaded.f[x]>> ELSE <<>>)
                              \o <<DocumentedDefault(x)>> IN
               \/ dial.f[x] = FirstNonEmpty(above \o below)
               \/ /\ x = "cert" /\ StringInForce # Unset
                  /\ FirstNonEmpty(above) = Unset /\ loaded.f[x] # Unset
    <3> DEFINE a == flags.f[x]
               v == str[x]
               e == env.f[x]
               y == loaded.f[x]
               z == DocumentedDefault(x)
               given == Given(StringInForce, x, a, v, e)
    <3> SUFFICES \/ dial.f[x] = IF given # Unset THEN given
                                ELSE IF StringInForce = Unset /\ y # Unset THEN y ELSE z
                 \/ /\ x = "cert" /\ StringInForce # Unset
                    /\ given = Unset /\ y # Unset
      <4> HIDE DEF a, v, e, y, z
      <4>1. /\ FirstNonEmpty(Above(StringInForce, x, a, v, e)) = given
            /\ FirstNonEmpty(Above(StringInForce, x, a, v, e) \o Below(StringInForce, y, z)) =
                 IF given # Unset THEN given
                 ELSE IF StringInForce = Unset /\ y # Unset THEN y ELSE z
        BY Ranked
      <4> HIDE DEF given
      <4>2. \/ dial.f[x] = FirstNonEmpty(Above(StringInForce, x, a, v, e)
                                          \o Below(StringInForce, y, z))
            \/ /\ x = "cert" /\ StringInForce # Unset
               /\ FirstNonEmpty(Above(StringInForce, x, a, v, e)) = Unset /\ y # Unset
        BY <4>1
      <4> QED BY <4>2 DEF Above, Below, a, v, e, y, z
    <3> USE DEF Given
    <3>1. CASE StringInForce = Unset
      <4>1. FirstNonEmpty(<<flags.conn, ConnectionStringFromEnv(env)>>) = Unset
        BY <3>1 DEF StringInForce
      <4>2. r.f.cert = FirstNonEmpty(<<flags.f.cert, Unset, env.f.cert, loaded.f.cert>>)
        BY <2>3, <4>1, ResolvedGranular
      <4>3. \A w \in {"host", "port", "user", "db", "sslmode"} :
              r.f[w] = Granular(w, flags, env, loaded)
        BY <2>3, <4>1, ResolvedGranular
      <4> HIDE DEF r
      <4>4. CASE x = "cert"
        <5>1. r.f[x] = IF a # Unset THEN a ELSE IF e # Unset THEN e ELSE y
          BY <4>2, <4>4, First4
        <5>2. dial.f[x] = r.f[x]
          BY <2>1, <2>2, <4>4, First2, Defaults DEF Filled
        <5> QED BY <3>1, <4>4, <5>1, <5>2 DEF DocumentedDefault
      <4>5. CASE x # "cert"
        <5>1. r.f[x] = IF a # Unset THEN a ELSE IF e # Unset THEN e
                       ELSE IF y # Unset THEN y ELSE GranularDefaults[x]
          BY <4>3, <4>5, First4 DEF Granular
        <5>2. GranularDefaults[x] = z
          BY <3>1, <4>5, Defaults DEF DocumentedDefault
        <5>3. CASE x = "db"
          <6>1. dial.f[x] = IF a # Unset THEN a ELSE r.f[x]
            BY <2>1, <2>2, <5>3, First2
          <6> QED BY <3>1, <5>1, <5>2, <6>1
        <5>4. CASE x # "db"
          <6>1. dial.f[x] = IF r.f[x] # Unset THEN r.f[x] ELSE StringDefaults[x]
            BY <2>1, <2>2, <4>5, <5>4, First2 DEF Filled
          <6>2. GranularDefaults[x] # Unset
            BY <4>5, <5>4, Defaults DEF Unset
          <6> QED BY <3>1, <5>1, <5>2, <6>1, <6>2
        <5> QED BY <5>3, <5>4
      <4> QED BY <4>4, <4>5
    <3>2. CASE StringInForce # Unset
      <4>1. GranularIsEmpty(flags)
        BY <2>3, <3>2, ResolvedString
      <4>2. \A w \in {"host", "port", "user", "db"} : r.f[w] = Filled(w, str)
        BY <2>3, <3>2, ResolvedString
      <4>3. r.f.sslmode = StringSSLMode(str, env)
        BY <2>3, <3>2, ResolvedString
      <4>4. r.f.cert = ApplyCertParams(Filled("cert", str), flags, env, loaded)
        BY <2>3, <3>2, ResolvedString
      <4> HIDE DEF r, str
      <4>5. CASE x = "cert"
        <5>1. r.f[x] = IF a # Unset THEN a ELSE IF v # Unset THEN v
                       ELSE IF e # Unset THEN e ELSE y
          BY <4>4, <4>5, First2, First4, Defaults DEF ApplyCertParams, Filled
        <5>2. dial.f[x] = r.f[x]
          BY <2>1, <2>2, <4>5, First2, Defaults DEF Filled
        <5> QED BY <3>2, <4>5, <5>1, <5>2 DEF DocumentedDefault
      <4>6. CASE x = "sslmode"
        <5>1. r.f[x] = IF v # Unset THEN v ELSE IF e # Unset THEN e ELSE "prefer"
          BY <4>3, <4>6, First2, First3, Defaults DEF StringSSLMode, Filled
        <5>2. dial.f[x] = r.f[x] /\ a = Unset
          BY <2>1, <2>2, <4>1, <4>6, First2, Defaults DEF Filled, GranularIsEmpty
        <5> QED BY <3>2, <4>6, <5>1, <5>2 DEF DocumentedDefault
      <4>7. CASE x = "db"
        <5>1. r.f[x] = IF v # Unset THEN v ELSE "postgres"
          BY <4>2, <4>7, First2, Defaults DEF Filled
        <5>2. dial.f[x] = IF a # Unset THEN a ELSE r.f[x]
          BY <2>1, <2>2, <4>7, First2
        <5> QED BY <3>2, <4>7, <5>1, <5>2 DEF DocumentedDefault
      <4>8. CASE x \in {"host", "port", "user"}
        <5>1. r.f[x] = IF v # Unset THEN v ELSE StringDefaults[x]
          BY <4>2, <4>8, First2 DEF Filled
        <5>2. dial.f[x] = r.f[x] /\ a = Unset
          BY <2>1, <2>2, <4>1, <4>8, <5>1, First2 DEF Filled, GranularIsEmpty
        <5>3. StringDefaults[x] = z
          BY <3>2, <4>8, Defaults DEF DocumentedDefault
        <5> QED BY <3>2, <4>8, <5>1, <5>2, <5>3
      <4> QED BY <4>5, <4>6, <4>7, <4>8
    <3> QED BY <3>1, <3>2
  <2> QED BY <2>1, <2>2, <2>4 DEF DialsByPrecedence
<1> QED BY <1>1, SetupInvHolds, PTL

----------------------------------------------------------------------------
(* Types                                                                   *)

(* The exit codes a deploy can end with before it dials.                   *)
LEMMA DialCodes ==
  ASSUME NEW fl, NEW e, NEW y, ~Dialled(BuildDeploymentConfig(fl, e, y)).ok
  PROVE  Dialled(BuildDeploymentConfig(fl, e, y)).code \in {1, 10}
<1> DEFINE r == Resolve(fl, e, y)
           dc == BuildDeploymentConfig(fl, e, y)
           c == DeployerConfig(dc)
<1>1. r.ok \/ r.code = 10
  <2>1. \A s : LET b == ResolveFromConnectionString(s, e) IN b.ok \/ b.code = 10
    BY DEF ResolveFromConnectionString, Failed
  <2>2. LET b == ResolveFromGranularParams(fl, e, y) IN b.ok \/ b.code = 10
    BY DEF ResolveFromGranularParams, Failed
  <2> QED BY <2>1, <2>2 DEF Resolve, Failed
<1> HIDE DEF r
<1>2. dc.ok \/ dc.code = 10
  BY <1>1 DEF BuildDeploymentConfig, Failed, r
<1> HIDE DEF dc
<1>3. c.ok \/ c.code = 1
  BY DEF DeployerConfig, Failed
<1> HIDE DEF c
<1>4. NewConnector(c) = c \/ NewConnector(c).code = 10
  BY DEF NewConnector, Failed
<1> QED BY <1>2, <1>3, <1>4 DEF Dialled, c, dc

(* The steps of the wizard keep the types.                                 *)
LEMMA UseWizardTypes ==
  ASSUME TypeOK, UseWizard
  PROVE  TypeOK'
<1>1. /\ WizardStep /\ UNCHANGED <<pc, cmd, had, torn, exit>>
      /\ InputSteps \cap {"selectProvider", "selectAuth", "testConnection", "done"} = {}
      /\ \A p, a : GetInputStep(p, a) \in InputSteps
  BY Forms DEF UseWizard, setupVars
<1> USE <1>1 DEF TypeOK
<1>2. CASE CtrlC
  BY <1>2 DEF CtrlC
<1>3. CASE ProviderMove
  BY <1>3 DEF ProviderMove
<1>4. CASE ProviderSelect
  <2>1. auth' = 1 /\ step' \in InputSteps \cup {"selectAuth"} /\ provider' = provider
    BY <1>4 DEF ProviderSelect, OpenForm
  <2> QED BY <1>4, <2>1, Menus DEF ProviderSelect
<1>5. CASE ProviderBack
  BY <1>5 DEF ProviderBack
<1>6. CASE AuthMove
  BY <1>6 DEF AuthMove
<1>7. CASE AuthSelect
  BY <1>7 DEF AuthSelect, OpenForm
<1>8. CASE AuthBack
  BY <1>8 DEF AuthBack
<1>9. CASE FormType
  BY <1>9 DEF FormType
<1>10. CASE FormBack
  BY <1>10 DEF FormBack
<1>11. CASE FormSubmit
  <2>1. DOMAIN config' = {"auth", "f"} /\ DOMAIN config'.f = Fields
    BY <1>11 DEF FormSubmit, BuildConfig, NoFields, ParseFields
  <2> QED BY <1>11, <2>1 DEF FormSubmit
<1>12. CASE TestResult
  BY <1>12 DEF TestResult
<1>13. CASE TestAccept
  BY <1>13 DEF TestAccept
<1>14. CASE TestRetry
  BY <1>14 DEF TestRetry, OpenForm, NoConfig, NoFields
<1> QED BY <1>2, <1>3, <1>4, <1>5, <1>6, <1>7, <1>8, <1>9, <1>10, <1>11, <1>12,
           <1>13, <1>14 DEF WizardStep

(* So do those of the commands.                                            *)
LEMMA TypeStep == TypeOK /\ [Next]_vars => TypeOK'
<1> SUFFICES ASSUME TypeOK, [Next]_vars PROVE TypeOK'
  OBVIOUS
<1> USE DEF TypeOK
<1>1. 1 \in DOMAIN Providers /\ DOMAIN NoConfig = {"auth", "f"} /\ DOMAIN NoConfig.f = Fields
  BY DEF Providers, NoConfig, NoFields
<1>2. CASE UNCHANGED vars
  BY <1>2 DEF vars, wizardVars, setupVars
<1>3. CASE StartDeploy
  BY <1>1, <1>3 DEF StartDeploy, WizardReset, Finish
<1>4. CASE StartConfig
  BY <1>1, <1>4 DEF StartConfig, WizardReset, Finish
<1>5. CASE UseWizard
  BY <1>5, UseWizardTypes
<1>6. CASE EndWizard
  BY <1>1, <1>6 DEF EndWizard, DropWizard, Finish
<1>7. CASE WizardFails
  BY <1>1, <1>7 DEF WizardFails, WizardReset, Finish
<1>8. CASE OpenYaml
  BY <1>8 DEF OpenYaml, wizardVars
<1>9. CASE SaveFails
  BY <1>9 DEF SaveFails, wizardVars, Finish
<1>10. CASE WriteYaml
  BY <1>10 DEF WriteYaml, wizardVars
<1>11. CASE WriteFails
  BY <1>11 DEF WriteFails, wizardVars, Finish
<1>12. CASE SkipPgpass
  BY <1>12 DEF SkipPgpass, AfterSave, wizardVars, Finish
<1>13. CASE WriteTmp
  BY <1>13 DEF WriteTmp, wizardVars
<1>14. CASE RenamePgpass
  BY <1>14 DEF RenamePgpass, AfterSave, wizardVars, Finish
<1>15. CASE RenameFails
  BY <1>15 DEF RenameFails, AfterSave, wizardVars, Finish
<1>16. CASE Dial
  <2>1. exit' \in {0, 1, 10}
    BY <1>16, DialCodes DEF Dial, Finish
  <2> QED BY <1>16, <2>1 DEF Dial, wizardVars, Finish
<1>17. CASE Crash
  BY <1>1, <1>17 DEF Crash, WizardReset, Finish
<1> QED
  BY <1>2, <1>3, <1>4, <1>5, <1>6, <1>7, <1>8, <1>9, <1>10, <1>11, <1>12, <1>13,
     <1>14, <1>15, <1>16, <1>17 DEF Next

(* The types of the wizard and of the commands.                            *)
THEOREM TypeCorrect == Spec => []TypeOK
<1>1. Init => TypeOK
  <2>1. 1 \in DOMAIN Providers /\ DOMAIN NoConfig = {"auth", "f"} /\ DOMAIN NoConfig.f = Fields
    BY DEF Providers, NoConfig, NoFields
  <2> QED BY <2>1, YamlsAssumption DEF Init, WizardInit, TypeOK
<1> QED BY <1>1, TypeStep, PTL DEF Spec
----------------------------------------------------------------------------
(* The password file                                                       *)

LEMMA Least ==
  ASSUME NEW B \in SUBSET Nat, B # {}
  PROVE  \E m \in B : \A j \in B : m <= j
<1>1. PICK m \in B : \A j \in B : ~(<<j, m>> \in OpToRel(<, Nat))
  BY NatLessThanWellFounded, WFMin
<1>2. \A j \in B : ~(j < m)
  BY <1>1 DEF OpToRel
<1> QED BY <1>2

(* A loop that starts with a and makes g of the index and of what it has   *)
(* runs to its end.                                                        *)
Loop(f, T, a, n, g) ==
  /\ f \in [0..n -> T]
  /\ f[0] = a
  /\ \A i \in 1..n : f[i] = g[<<i, f[i-1]>>]

LEMMA LoopRuns ==
  ASSUME NEW T, NEW a \in T, NEW n \in Nat, NEW g \in [(1..n) \X T -> T]
  PROVE  \E f : Loop(f, T, a, n, g)
<1> USE DEF Loop
<1> DEFINE Runs(k) == \E f : Loop(f, T, a, k, g)
           B == {k \in 0..n : ~Runs(k)}
<1>1. Runs(0)
  <2> DEFINE h == [i \in 0..0 |-> a]
  <2>1. h \in [0..0 -> T] /\ h[0] = a
    OBVIOUS
  <2>2. \A i \in 1..0 : h[i] = g[<<i, h[i-1]>>]
    OBVIOUS
  <2> HIDE DEF h
  <2> QED BY <2>1, <2>2
<1>2. ASSUME NEW k \in 1..n, Runs(k - 1) PROVE Runs(k)
  <2>1. PICK f : Loop(f, T, a, k - 1, g)
    BY <1>2
  <2> DEFINE h == [i \in 0..k |-> IF i = k THEN g[<<k, f[k-1]>>] ELSE f[i]]
  <2>2. h \in [0..k -> T]
    BY <2>1
  <2>3. h[0] = a
    BY <2>1
  <2>4. ASSUME NEW i \in 1..k PROVE h[i] = g[<<i, h[i-1]>>]
    <3>1. i - 1 \in 0..(k-1) /\ i - 1 # k /\ i \in 0..k
      OBVIOUS
    <3>2. h[i-1] = f[i-1]
      BY <3>1
    <3> QED BY <2>1, <3>1, <3>2
  <2> QED BY <2>2, <2>3, <2>4
<1> HIDE DEF Runs
<1>3. B = {}
  <2>0. B \subseteq Nat
    OBVIOUS
  <2>1. SUFFICES ASSUME B # {} PROVE FALSE
    OBVIOUS
  <2>2. PICK m \in B : \A j \in B : m <= j
    BY <2>0, <2>1, Least
  <2>3. m # 0 /\ m - 1 \in 0..n /\ m \in 1..n
    BY <1>1, <2>2
  <2>4. Runs(m - 1)
    BY <2>2, <2>3
  <2> QED BY <1>2, <2>2, <2>3, <2>4
<1>4. Runs(n)
  BY <1>3
<1> QED BY <1>4 DEF Runs

(* The loop of writePgpassEntry, line by line: what it has kept of the     *)
(* first i lines.                                                          *)
Keeps(kept, s, f) ==
  /\ kept[0] = <<Entry(f)>>
  /\ \A i \in 1..Len(s) :
       kept[i] = IF SameKey(s[i], f) THEN kept[i-1] ELSE Append(kept[i-1], s[i])

LEMMA LoopKeeps ==
  ASSUME NEW S, NEW s \in Seq(S), NEW f, Entry(f) \in S
  PROVE  \E kept \in [0..Len(s) -> Seq(S)] :
           Keeps(kept, s, f) /\ PgpassWith(s, f) = kept[Len(s)]
<1> DEFINE n == Len(s)
           Eq(h) == h = [i \in 0..n |-> IF i = 0 THEN <<Entry(f)>>
                                        ELSE IF SameKey(s[i], f) THEN h[i-1]
                                        ELSE Append(h[i-1], s[i])]
           g == [x \in (1..n) \X Seq(S) |->
                   IF SameKey(s[x[1]], f) THEN x[2] ELSE Append(x[2], s[x[1]])]
<1>1. n \in Nat /\ \A i \in 1..n : s[i] \in S
  OBVIOUS
<1>2. g \in [(1..n) \X Seq(S) -> Seq(S)]
  BY <1>1
<1>3. <<Entry(f)>> \in Seq(S)
  OBVIOUS
<1>4. PICK k : Loop(k, Seq(S), <<Entry(f)>>, n, g)
  <2> DEFINE T == Seq(S)
             a == <<Entry(f)>>
  <2>1. n \in Nat /\ a \in T /\ g \in [(1..n) \X T -> T]
    BY <1>1, <1>2, <1>3
  <2> HIDE DEF n, g, T, a
  <2>2. \E k : Loop(k, T, a, n, g)
    BY <2>1, LoopRuns
  <2> QED BY <2>2 DEF T, a
<1>5. \A i \in 1..n : k[i] = IF SameKey(s[i], f) THEN k[i-1]
                             ELSE Append(k[i-1], s[i])
  <2>1. TAKE i \in 1..n
  <2>2. k[i-1] \in Seq(S)
    BY <1>1, <1>4 DEF Loop
  <2> QED BY <1>4, <2>2 DEF Loop
<1>6. Eq(k)
  <2> DEFINE h == [i \in 0..n |-> IF i = 0 THEN <<Entry(f)>>
                                  ELSE IF SameKey(s[i], f) THEN k[i-1]
                                  ELSE Append(k[i-1], s[i])]
  <2>1. k[0] = <<Entry(f)>> /\ DOMAIN k = 0..n /\ k = [i \in 0..n |-> k[i]]
    BY <1>4 DEF Loop
  <2>2. \A i \in 0..n : i = 0 \/ i \in 1..n
    BY <1>1
  <2> HIDE DEF n
  <2>3. ASSUME NEW i \in 0..n
        PROVE  k[i] = h[i]
    <3>1. CASE i = 0
      BY <2>1, <3>1
    <3>2. CASE i # 0
      BY <1>5, <2>2, <3>2
    <3> QED BY <3>1, <3>2
  <2>4. DOMAIN h = 0..n /\ h = [i \in 0..n |-> h[i]]
    OBVIOUS
  <2>5. k = h
    <3> HIDE DEF h
    <3> QED BY <2>1, <2>3, <2>4
  <2> QED BY <2>5
<1> DEFINE c == CHOOSE h : Eq(h)
<1>7. Eq(c)
  <2> HIDE DEF Eq
  <2> QED BY <1>6
<1>8. PgpassWith(s, f) = c[n]
  BY DEF PgpassWith
<1> HIDE DEF c
<1>9. /\ c[0] = <<Entry(f)>>
      /\ \A i \in 1..n : c[i] = IF SameKey(s[i], f) THEN c[i-1]
                                ELSE Append(c[i-1], s[i])
  <2>1. /\ 0 \in 0..n /\ \A i \in 1..n : i \in 0..n /\ i # 0
    BY <1>1
  <2> HIDE DEF n
  <2>2. c[0] = <<Entry(f)>>
    BY <1>7, <2>1
  <2>3. ASSUME NEW i \in 1..n
        PROVE  c[i] = IF SameKey(s[i], f) THEN c[i-1] ELSE Append(c[i-1], s[i])
    BY <1>7, <2>1, <2>3
  <2> QED BY <2>2, <2>3
<1>10. c \in [0..n -> Seq(S)]
  <2>1. DOMAIN c = 0..n /\ c = [i \in DOMAIN c |-> c[i]]
    BY <1>7
  <2> DEFINE B == {i \in 0..n : c[i] \notin Seq(S)}
  <2>2. SUFFICES B = {}
    BY <2>1
  <2>3. SUFFICES ASSUME B # {} PROVE FALSE
    OBVIOUS
  <2>4. PICK m \in B : \A j \in B : m <= j
    <3>1. B \subseteq Nat
      BY <1>1
    <3> QED BY <2>3, <3>1, Least
  <2>5. m # 0 /\ m \in 1..n /\ m - 1 \in 0..n
    <3>1. m # 0
      BY <1>3, <1>9, <2>4
    <3> QED BY <1>1, <2>4, <3>1
  <2>6. c[m-1] \in Seq(S)
    BY <2>4, <2>5
  <2>7. c[m] = c[m-1] \/ c[m] = Append(c[m-1], s[m])
    BY <1>9, <2>5
  <2>8. c[m] \in Seq(S)
    <3> DEFINE x == c[m-1]
               e == s[m]
    <3>1. x \in Seq(S) /\ e \in S /\ (c[m] = x \/ c[m] = Append(x, e))
      BY <1>1, <2>5, <2>6, <2>7
    <3>2. Append(x, e) \in Seq(S)
      BY <3>1, AppendProperties
    <3> QED BY <3>1, <3>2
  <2> QED BY <2>4, <2>8
<1> QED BY <1>8, <1>9, <1>10 DEF Keeps

(* The first line that answers c, among the first i.                       *)
First(s, i, c, p) ==
  p \in 1..i /\ Matches(s[p], c) /\ \A q \in 1..(p-1) : ~Matches(s[q], c)

(* What the loop has kept after i lines: the new line first, every line    *)
(* with another key, and for anybody whom the new line does not answer the *)
(* same first answer.                                                      *)
Kept(k, i, s, f, c) ==
  /\ Len(k) > 0 /\ k[1] = Entry(f)
  /\ \A j \in 1..i : SameKey(s[j], f) \/ \E p \in 1..Len(k) : k[p] = s[j]
  /\ ~Matches(Entry(f), c) =>
       /\ \A j \in 1..i : First(s, i, c, j) =>
            \E p \in 1..Len(k) : First(k, Len(k), c, p) /\ k[p] = s[j]
       /\ (\A j \in 1..i : ~Matches(s[j], c)) =>
            \A p \in 1..Len(k) : ~Matches(k[p], c)

LEMMA KeptNext ==
  ASSUME NEW S, NEW s \in Seq(S), NEW f, NEW c, NEW i \in 1..Len(s),
         NEW k \in Seq(S), Kept(k, i - 1, s, f, c), NEW t \in Seq(S),
         t = IF SameKey(s[i], f) THEN k ELSE Append(k, s[i])
  PROVE  Kept(t, i, s, f, c)
<1> DEFINE line == s[i]
<1>1. /\ i \in Nat /\ Len(k) \in Nat /\ line \in S /\ i - 1 \in Nat
      /\ \A j \in 1..i : j = i \/ j \in 1..(i-1)
      /\ 1..(i-1) \subseteq 1..i
  OBVIOUS
<1>2. CASE SameKey(line, f)
  <2>1. t = k
    BY <1>2
  <2>2. ASSUME ~Matches(Entry(f), c) PROVE ~Matches(line, c)
    BY <1>2, <2>2 DEF Matches, SameKey, Entry
  <2>3. \A j \in 1..i : SameKey(s[j], f) \/ \E p \in 1..Len(t) : t[p] = s[j]
    BY <1>1, <1>2, <2>1 DEF Kept
  <2>4. ASSUME ~Matches(Entry(f), c), NEW j \in 1..i, First(s, i, c, j)
        PROVE  \E p \in 1..Len(t) : First(t, Len(t), c, p) /\ t[p] = s[j]
    <3>1. j # i
      BY <2>2, <2>4 DEF First
    <3>2. j \in 1..(i-1) /\ First(s, i - 1, c, j)
      BY <1>1, <2>4, <3>1 DEF First
    <3> QED BY <2>1, <2>4, <3>2 DEF Kept
  <2> QED BY <1>1, <2>1, <2>3, <2>4 DEF Kept
<1>3. CASE ~SameKey(line, f)
  <2>1. t = Append(k, line)
    BY <1>3
  <2>2. /\ Len(t) = Len(k) + 1 /\ t[Len(k) + 1] = line
        /\ \A p \in 1..Len(k) : t[p] = k[p] /\ p \in 1..Len(t)
        /\ \A p \in 1..Len(t) : p = Len(k) + 1 \/ p \in 1..Len(k)
        /\ Len(k) + 1 \in 1..Len(t)
    BY <1>1, <2>1
  <2>3. Len(t) > 0 /\ t[1] = Entry(f)
    BY <1>1, <2>2 DEF Kept
  <2>4. ASSUME NEW j \in 1..i
        PROVE  SameKey(s[j], f) \/ \E p \in 1..Len(t) : t[p] = s[j]
    <3>1. CASE j = i
      BY <2>2, <3>1
    <3>2. CASE j \in 1..(i-1)
      BY <2>2, <3>2 DEF Kept
    <3> QED BY <1>1, <3>1, <3>2
  <2>5. ASSUME ~Matches(Entry(f), c), NEW j \in 1..i, First(s, i, c, j)
        PROVE  \E p \in 1..Len(t) : First(t, Len(t), c, p) /\ t[p] = s[j]
    <3>1. CASE j = i
      <4>1. Matches(line, c) /\ \A q \in 1..(i-1) : ~Matches(s[q], c)
        BY <2>5, <3>1 DEF First
      <4>2. \A p \in 1..Len(k) : ~Matches(k[p], c)
        BY <2>5, <4>1 DEF Kept
      <4>3. \A p \in 1..((Len(k) + 1) - 1) : ~Matches(t[p], c)
        BY <1>1, <2>2, <4>2
      <4>4. First(t, Len(t), c, Len(k) + 1)
        BY <2>2, <4>1, <4>3 DEF First
      <4> QED BY <2>2, <3>1, <4>4
    <3>2. CASE j \in 1..(i-1)
      <4>1. First(s, i - 1, c, j)
        BY <2>5, <3>2 DEF First
      <4>2. PICK p \in 1..Len(k) : First(k, Len(k), c, p) /\ k[p] = s[j]
        BY <2>5, <3>2, <4>1 DEF Kept
      <4>3. \A q \in 1..(p-1) : q \in 1..Len(k)
        BY <1>1
      <4>4. First(t, Len(t), c, p) /\ t[p] = s[j]
        BY <2>2, <4>2, <4>3 DEF First
      <4> QED BY <2>2, <4>4
    <3> QED BY <1>1, <3>1, <3>2
  <2>6. ASSUME ~Matches(Entry(f), c), \A j \in 1..i : ~Matches(s[j], c)
        PROVE  \A p \in 1..Len(t) : ~Matches(t[p], c)
    <3>1. ~Matches(line, c) /\ \A p \in 1..Len(k) : ~Matches(k[p], c)
      BY <1>1, <2>6 DEF Kept
    <3> QED BY <2>2, <3>1
  <2> QED BY <2>3, <2>4, <2>5, <2>6 DEF Kept
<1> QED BY <1>2, <1>3

LEMMA LinesKept ==
  ASSUME NEW S, NEW s \in Seq(S), NEW f, Entry(f) \in S, NEW c
  PROVE  PgpassWith(s, f) \in Seq(S) /\ Kept(PgpassWith(s, f), Len(s), s, f, c)
<1> DEFINE n == Len(s)
<1>1. PICK k \in [0..n -> Seq(S)] : Keeps(k, s, f) /\ PgpassWith(s, f) = k[n]
  BY LoopKeeps
<1>2. n \in Nat /\ n \in 0..n
  OBVIOUS
<1> DEFINE Q(i) == Kept(k[i], i, s, f, c)
           B == {i \in 0..n : ~Q(i)}
<1>3. Q(0)
  BY <1>1 DEF Keeps, Kept
<1>4. ASSUME NEW i \in 1..n, Q(i - 1) PROVE Q(i)
  <2>1. /\ i - 1 \in 0..n /\ i \in 0..n /\ k[i] \in Seq(S) /\ k[i-1] \in Seq(S)
        /\ k[i] = IF SameKey(s[i], f) THEN k[i-1] ELSE Append(k[i-1], s[i])
    BY <1>1 DEF Keeps
  <2> QED BY <1>4, <2>1, KeptNext
<1> HIDE DEF Q
<1>5. B = {}
  <2>1. SUFFICES ASSUME B # {} PROVE FALSE
    OBVIOUS
  <2>2. B \subseteq Nat
    BY <1>2
  <2>3. PICK m \in B : \A j \in B : m <= j
    BY <2>1, <2>2, Least
  <2>4. m # 0 /\ m - 1 \in 0..n /\ m \in 1..n
    BY <1>2, <1>3, <2>3
  <2>5. Q(m - 1)
    BY <2>3, <2>4
  <2> QED BY <1>4, <2>3, <2>4, <2>5
<1>6. Q(n)
  BY <1>2, <1>5
<1> QED BY <1>1, <1>2, <1>6 DEF Q

(* The first line that matches is the answer.                              *)
LEMMA Answer ==
  ASSUME NEW S, NEW s \in Seq(S), NEW c, NEW p, First(s, Len(s), c, p)
  PROVE  LookupPassword(s, c) = s[p].password
<1> DEFINE hits == {i \in DOMAIN s : Matches(s[i], c)}
<1>1. DOMAIN s = 1..Len(s) /\ Len(s) \in Nat
  OBVIOUS
<1>2. p \in hits /\ \A j \in hits : p <= j
  BY <1>1 DEF First
<1>3. \A q \in hits : (\A j \in hits : q <= j) => q = p
  BY <1>1, <1>2
<1>4. (CHOOSE i \in hits : \A j \in hits : i <= j) = p
  BY <1>2, <1>3
<1> QED BY <1>2, <1>4 DEF LookupPassword

LEMMA NoAnswer ==
  ASSUME NEW S, NEW s \in Seq(S), NEW c, \A i \in 1..Len(s) : ~Matches(s[i], c)
  PROVE  LookupPassword(s, c) = Unset
<1>1. DOMAIN s = 1..Len(s)
  OBVIOUS
<1> QED BY <1>1 DEF LookupPassword

(* Whom the new line does not answer, the file answers as before.          *)
LEMMA SameAnswer ==
  ASSUME NEW S, NEW s \in Seq(S), NEW f, Entry(f) \in S, NEW c, ~Matches(Entry(f), c)
  PROVE  LookupPassword(PgpassWith(s, f), c) = LookupPassword(s, c)
<1> DEFINE t == PgpassWith(s, f)
           B == {i \in 1..Len(s) : Matches(s[i], c)}
<1>1. t \in Seq(S) /\ Kept(t, Len(s), s, f, c)
  BY LinesKept
<1> HIDE DEF t
<1>2. CASE B = {}
  <2>1. \A p \in 1..Len(t) : ~Matches(t[p], c)
    BY <1>1, <1>2 DEF Kept
  <2> QED BY <1>1, <1>2, <2>1, NoAnswer DEF t
<1>3. CASE B # {}
  <2>1. B \subseteq Nat
    OBVIOUS
  <2>2. PICK m \in B : \A j \in B : m <= j
    BY <1>3, <2>1, Least
  <2>3. ASSUME NEW q \in 1..(m-1) PROVE ~Matches(s[q], c)
    BY <2>2
  <2>4. First(s, Len(s), c, m)
    BY <2>2, <2>3 DEF First
  <2>5. PICK p \in 1..Len(t) : First(t, Len(t), c, p) /\ t[p] = s[m]
    BY <1>1, <2>4 DEF Kept
  <2>6. LookupPassword(s, c) = s[m].password
    BY <2>4, Answer
  <2>7. LookupPassword(t, c) = t[p].password
    BY <1>1, <2>5, Answer
  <2> QED BY <2>5, <2>6, <2>7 DEF t
<1> QED BY <1>2, <1>3

(* .pgpass and what it was given: the connection given last is on top, the *)
(* temporary file is the old one rewritten for the running wizard, and no  *)
(* line has gone but to its own key.                                       *)
PgpassInv ==
  /\ \E S : pgpass \in Seq(S)
  /\ \E S : keyed \in Seq(S)
  /\ pc = "rename" => tmp = PgpassWith(pgpass, config.f)
  /\ keyed # <<>> => Len(pgpass) > 0 /\ pgpass[1] = Entry(keyed[Len(keyed)].f)
  /\ \A i \in DOMAIN Pgpass0 :
       \/ \E j \in DOMAIN pgpass : pgpass[j] = Pgpass0[i]
       \/ \E k \in DOMAIN keyed : SameKey(Pgpass0[i], keyed[k].f)
  /\ \A k \in DOMAIN keyed :
       \/ \E j \in DOMAIN pgpass : pgpass[j] = Entry(keyed[k].f)
       \/ \E l \in (k+1)..Len(keyed) : SameKey(Entry(keyed[k].f), keyed[l].f)

LEMMA RenameStep == PgpassInv /\ RenamePgpass => PgpassInv'
<1> SUFFICES ASSUME PgpassInv, RenamePgpass PROVE PgpassInv'
  OBVIOUS
<1> DEFINE f == config.f
           e == Entry(f)
<1>1. pgpass' = PgpassWith(pgpass, f) /\ keyed' = Append(keyed, config) /\ pc' # "rename"
  BY DEF PgpassInv, RenamePgpass, AfterSave, Finish
<1>2. PICK S0 : pgpass \in Seq(S0)
  BY DEF PgpassInv
<1> DEFINE S == S0 \cup {e}
<1>3. pgpass \in Seq(S) /\ e \in S
  BY <1>2
<1>4. pgpass' \in Seq(S) /\ Kept(pgpass', Len(pgpass), pgpass, f, f)
  BY <1>1, <1>3, LinesKept
<1>5. PICK T0 : keyed \in Seq(T0)
  BY DEF PgpassInv
<1> DEFINE T == T0 \cup {config}
           n == Len(keyed)
<1>6. /\ keyed' \in Seq(T) /\ n \in Nat /\ Len(keyed') = n + 1 /\ keyed'[n + 1] = config
      /\ DOMAIN keyed = 1..n /\ DOMAIN keyed' = 1..(n + 1)
      /\ \A k \in 1..n : keyed'[k] = keyed[k]
  BY <1>1, <1>5
<1>7. /\ DOMAIN pgpass' = 1..Len(pgpass') /\ Len(pgpass') \in Nat
      /\ DOMAIN pgpass = 1..Len(pgpass)
  BY <1>3, <1>4
<1>8. Len(pgpass') > 0 /\ pgpass'[1] = e
  BY <1>4 DEF Kept
<1>9. \A j \in DOMAIN pgpass : SameKey(pgpass[j], f) \/ \E p \in DOMAIN pgpass' :
                                                          pgpass'[p] = pgpass[j]
  BY <1>4, <1>7 DEF Kept
<1> HIDE DEF S, T, n, e
<1>10. ASSUME NEW i \in DOMAIN Pgpass0
       PROVE  \/ \E j \in DOMAIN pgpass' : pgpass'[j] = Pgpass0[i]
              \/ \E k \in DOMAIN keyed' : SameKey(Pgpass0[i], keyed'[k].f)
  <2>1. CASE \E j \in DOMAIN pgpass : pgpass[j] = Pgpass0[i]
    <3>1. n + 1 \in DOMAIN keyed' /\ keyed'[n + 1].f = f
      BY <1>6
    <3> QED BY <1>9, <2>1, <3>1
  <2>2. CASE \E k \in DOMAIN keyed : SameKey(Pgpass0[i], keyed[k].f)
    <3>1. \A k \in DOMAIN keyed : k \in DOMAIN keyed' /\ keyed'[k] = keyed[k]
      BY <1>6
    <3> QED BY <2>2, <3>1
  <2> QED BY <2>1, <2>2 DEF PgpassInv
<1>11. ASSUME NEW k \in DOMAIN keyed'
       PROVE  \/ \E j \in DOMAIN pgpass' : pgpass'[j] = Entry(keyed'[k].f)
              \/ \E l \in (k+1)..Len(keyed') : SameKey(Entry(keyed'[k].f), keyed'[l].f)
  <2>1. CASE k = n + 1
    <3>1. 1 \in DOMAIN pgpass' /\ keyed'[k].f = f
      BY <1>6, <1>7, <1>8, <2>1
    <3> QED BY <1>8, <3>1 DEF e
  <2>2. CASE k \in 1..n
    <3>1. keyed'[k] = keyed[k] /\ n + 1 \in (k+1)..Len(keyed') /\ keyed'[n+1].f = f
      BY <1>6, <2>2
    <3>2. CASE \E j \in DOMAIN pgpass : pgpass[j] = Entry(keyed[k].f)
      BY <1>9, <3>1, <3>2
    <3>3. CASE \E l \in (k+1)..n : SameKey(Entry(keyed[k].f), keyed[l].f)
      <4>1. \A l \in (k+1)..n : l \in (k+1)..Len(keyed') /\ keyed'[l] = keyed[l]
        BY <1>6, <2>2
      <4> QED BY <3>1, <3>3, <4>1
    <3> QED BY <1>6, <2>2, <3>2, <3>3 DEF PgpassInv, n
  <2> QED BY <1>6, <2>1, <2>2
<1>12. keyed'[Len(keyed')].f = f
  BY <1>6
<1> QED BY <1>1, <1>4, <1>6, <1>8, <1>10, <1>11, <1>12 DEF PgpassInv, e

LEMMA PgpassStep == PgpassInv /\ [Next]_vars => PgpassInv'
<1> SUFFICES ASSUME PgpassInv, [Next]_vars PROVE PgpassInv'
  OBVIOUS
<1>1. ASSUME UNCHANGED <<pgpass, keyed>>,
             pc' = "rename" => tmp' = PgpassWith(pgpass, config'.f)
      PROVE  PgpassInv'
  BY <1>1 DEF PgpassInv
<1>2. CASE WriteTmp
  BY <1>1, <1>2 DEF WriteTmp, wizardVars
<1>3. CASE RenamePgpass
  BY <1>3, RenameStep
<1>4. CASE UNCHANGED vars
  BY <1>1, <1>4 DEF vars, setupVars, wizardVars, PgpassInv
<1>5. CASE StartDeploy \/ StartConfig \/ UseWizard \/ EndWizard \/ WizardFails
  <2>1. UNCHANGED <<pgpass, keyed>> /\ pc' # "rename"
    BY <1>5 DEF StartDeploy, StartConfig, UseWizard, setupVars, EndWizard, WizardFails,
                Finish
  <2> QED BY <1>1, <2>1
<1>6. CASE OpenYaml \/ SaveFails \/ WriteYaml \/ WriteFails \/ SkipPgpass \/ RenameFails
             \/ Dial \/ Crash
  <2>1. UNCHANGED <<pgpass, keyed>> /\ pc' # "rename"
    BY <1>6 DEF OpenYaml, SaveFails, WriteYaml, WriteFails, SkipPgpass, RenameFails,
                Dial, Crash, AfterSave, Finish
  <2> QED BY <1>1, <2>1
<1> QED BY <1>2, <1>3, <1>4, <1>5, <1>6 DEF Next

LEMMA PgpassInvHolds == Spec => []PgpassInv
<1>1. Init => PgpassInv
  <2> SUFFICES ASSUME Init PROVE PgpassInv
    OBVIOUS
  <2>1. pgpass \in Seq({Pgpass0[i] : i \in DOMAIN Pgpass0}) /\ pgpass = Pgpass0
    BY PgpassAssumption DEF Init
  <2>2. keyed = <<>> /\ keyed \in Seq({}) /\ DOMAIN keyed = {} /\ pc # "rename"
    BY DEF Init
  <2> QED BY <2>1, <2>2 DEF PgpassInv
<1> QED BY <1>1, PgpassStep, PTL DEF Spec

(* .pgpass serves the connection it was given last, and loses no line but  *)
(* to a later save of the same connection.                                 *)
THEOREM PasswordIsFound == Spec => []PgpassServes
<1>1. PgpassInv => PgpassServes
  <2> SUFFICES ASSUME PgpassInv, keyed # <<>>
               PROVE  LookupPassword(pgpass, keyed[Len(keyed)].f)
                        = keyed[Len(keyed)].f.password
    BY DEF PgpassInv, PgpassServes
  <2> DEFINE f == keyed[Len(keyed)].f
  <2>1. Len(pgpass) > 0 /\ pgpass[1] = Entry(f)
    BY DEF PgpassInv
  <2>2. PICK S : pgpass \in Seq(S)
    BY DEF PgpassInv
  <2>3. Matches(Entry(f), f) /\ Entry(f).password = f.password
    BY DEF Matches, Entry
  <2>4. First(pgpass, Len(pgpass), f, 1)
    BY <2>1, <2>2, <2>3 DEF First
  <2> QED BY <2>1, <2>2, <2>3, <2>4, Answer
<1> QED BY <1>1, PgpassInvHolds, PTL

(* A save changes what no other connection finds.                          *)
THEOREM OthersUndisturbed == Spec => OthersFindTheirs
<1>1. PgpassInv /\ [Next]_vars =>
        [\A c \in Clients :
           pgpass' # pgpass /\ ~Matches(pgpass'[1], c) =>
             LookupPassword(pgpass', c) = LookupPassword(pgpass, c)]_vars
  <2> SUFFICES ASSUME PgpassInv, Next, NEW c \in Clients, pgpass' # pgpass,
                      ~Matches(pgpass'[1], c)
               PROVE  LookupPassword(pgpass', c) = LookupPassword(pgpass, c)
    OBVIOUS
  <2>1. RenamePgpass
    BY DEF Next, StartDeploy, StartConfig, UseWizard, setupVars, EndWizard, WizardFails,
           OpenYaml, SaveFails, WriteYaml, WriteFails, SkipPgpass, WriteTmp, RenameFails,
           Dial, Crash
  <2> DEFINE f == config.f
  <2>2. pgpass' = PgpassWith(pgpass, f)
    BY <2>1 DEF PgpassInv, RenamePgpass
  <2>3. PICK S : pgpass \in Seq(S)
    BY DEF PgpassInv
  <2>4. pgpass \in Seq(S \cup {Entry(f)}) /\ Entry(f) \in S \cup {Entry(f)}
    BY <2>3
  <2>5. pgpass'[1] = Entry(f)
    BY <2>2, <2>4, LinesKept DEF Kept
  <2> QED BY <2>2, <2>4, <2>5, SameAnswer
<1> QED BY <1>1, PgpassInvHolds, PgpassStep, PTL DEF Spec, OthersFindTheirs
=============================================================================
