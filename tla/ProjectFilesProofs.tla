------------------------- MODULE ProjectFilesProofs -------------------------
(***************************************************************************)
(* Proofs about ProjectFiles, for every set of templates, every history of *)
(* versions, every text a user may write and any bounds.                   *)
(***************************************************************************)
EXTENDS ProjectFiles, SequenceTheorems, WellFoundedInduction, TLAPS

-----------------------------------------------------------------------------
(* Paths *)

GuidanceNames == {"pgmi/SKILL.md", "pgmi/depth.md", "AGENTS.md", "rules/pgmi.mdc",
                  "copilot-instructions.md", "rules/pgmi.md", "pgmi.md", "GEMINI.md"}

\* An assistant has one file or two, and no other names than these.
LEMMA Adapters ==
    ASSUME NEW a \in DOMAIN Adapter
    PROVE  /\ Adapter[a] \in Seq(GuidanceNames)
           /\ Len(Adapter[a]) \in 1..2
<1>1. CASE a \in SkillAdapters
  <2>1. Adapter[a] = <<"pgmi/SKILL.md", "pgmi/depth.md">>
    BY <1>1 DEF Adapter, SkillAdapters, AgentsAliases
  <2> QED BY <2>1 DEF GuidanceNames
<1>2. CASE a \in AgentsAliases
  <2>1. Adapter[a] = <<"AGENTS.md">>
    BY <1>2 DEF Adapter, SkillAdapters, AgentsAliases
  <2> QED BY <2>1 DEF GuidanceNames
<1>3. CASE a = "cursor"
  <2>1. Adapter[a] = <<"rules/pgmi.mdc">>
    BY <1>3 DEF Adapter, SkillAdapters, AgentsAliases
  <2> QED BY <2>1 DEF GuidanceNames
<1>4. CASE a = "copilot"
  <2>1. Adapter[a] = <<"copilot-instructions.md">>
    BY <1>4 DEF Adapter, SkillAdapters, AgentsAliases
  <2> QED BY <2>1 DEF GuidanceNames
<1>5. CASE a = "windsurf"
  <2>1. Adapter[a] = <<"rules/pgmi.md">>
    BY <1>5 DEF Adapter, SkillAdapters, AgentsAliases
  <2> QED BY <2>1 DEF GuidanceNames
<1>6. CASE a = "cline"
  <2>1. Adapter[a] = <<"pgmi.md">>
    BY <1>6 DEF Adapter, SkillAdapters, AgentsAliases
  <2> QED BY <2>1 DEF GuidanceNames
<1>7. CASE a = "gemini"
  <2>1. Adapter[a] = <<"GEMINI.md">>
    BY <1>7 DEF Adapter, SkillAdapters, AgentsAliases
  <2> QED BY <2>1 DEF GuidanceNames
<1> QED BY <1>1, <1>2, <1>3, <1>4, <1>5, <1>6, <1>7 DEF Adapter

\* The tables of roots name adapters only.
LEMMA Roots ==
    ASSUME NEW g \in BOOLEAN
    PROVE  DOMAIN SkillsRoot(g) \subseteq DOMAIN Adapter
BY DEF SkillsRoot, GlobalRoot, ProjectRoot, Adapter, SkillAdapters, AgentsAliases

\* What an assistant's files are.
LEMMA PlannedType ==
    ASSUME NEW g \in BOOLEAN, NEW a \in DOMAIN SkillsRoot(g)
    PROVE  /\ Planned(a, g) \in Seq(GuidancePaths)
           /\ Len(Planned(a, g)) \in 1..2
<1>1. a \in DOMAIN Adapter
  BY Roots
<1>2. Len(Adapter[a]) \in 1..2
  BY <1>1, Adapters
<1> DEFINE n == Len(Adapter[a])
<1>3. Planned(a, g) = [i \in 1..n |-> Planned(a, g)[i]]
  BY DEF Planned
<1>4. Planned(a, g) \in Seq({Planned(a, g)[i] : i \in 1..n}) /\ Len(Planned(a, g)) = n
  <2> DEFINE s == Planned(a, g)
             S == {Planned(a, g)[i] : i \in 1..n}
  <2>1. n \in Nat /\ s = [i \in 1..n |-> s[i]] /\ \A i \in 1..n : s[i] \in S
    BY <1>2, <1>3
  <2> HIDE DEF s, S, n
  <2>2. s \in [1..n -> S]
    BY <2>1
  <2>3. s \in Seq(S) /\ Len(s) = n
    BY <2>1, <2>2, SeqDef, LenProperties
  <2> QED BY <2>3 DEF s, S
<1>5. \A i \in 1..Len(Planned(a, g)) : Planned(a, g)[i] \in GuidancePaths
  BY DEF GuidancePaths
<1>6. Planned(a, g) \in Seq(GuidancePaths)
  BY <1>4, <1>5
<1> QED BY <1>2, <1>4, <1>6

\* Guidance files, the managed files of a project and CLAUDE.md are different
\* files.
LEMMA Apart ==
    /\ GuidancePaths \cap ManagedFiles = {}
    /\ ClaudeMd \notin GuidancePaths \cup ManagedFiles \cup TemplateFiles
    /\ Yaml \in ManagedFiles
    /\ GuidancePaths \cap TemplateFiles = {}
<1>1. ASSUME NEW p \in GuidancePaths
      PROVE  p[2] \in GuidanceNames
  <2>1. PICK g \in BOOLEAN : p \in UNION {{Planned(a, g)[i] : i \in 1..Len(Planned(a, g))} :
                                            a \in DOMAIN SkillsRoot(g)}
    BY <1>1 DEF GuidancePaths
  <2>2. PICK a \in DOMAIN SkillsRoot(g) : p \in {Planned(a, g)[i] : i \in 1..Len(Planned(a, g))}
    BY <2>1
  <2>3. PICK i \in 1..Len(Planned(a, g)) : p = Planned(a, g)[i]
    BY <2>2
  <2>4. a \in DOMAIN Adapter /\ Len(Planned(a, g)) = Len(Adapter[a])
    <3>1. a \in DOMAIN Adapter
      BY Roots
    <3>2. Len(Adapter[a]) \in 1..2
      BY <3>1, Adapters
    <3> QED BY <3>1, <3>2 DEF Planned
  <2>5. p = <<SkillsRoot(g)[a], Adapter[a][i]>>
    BY <2>3, <2>4 DEF Planned
  <2>6. Adapter[a][i] \in GuidanceNames
    BY <2>3, <2>4, Adapters
  <2> QED BY <2>5, <2>6
<1>2. \A p \in ManagedFiles \cup {ClaudeMd} : p[2] \notin GuidanceNames
  BY DEF ManagedFiles, ClaudeMd, GuidanceNames
<1> QED BY <1>1, <1>2, ApartAssumption DEF ManagedFiles, ClaudeMd, Yaml

-----------------------------------------------------------------------------
(* What is on disk *)

\* The stamps pgmi writes.
Stamps == {[version |-> v, sum |-> Checksum(BodyOf[v], v)] : v \in DOMAIN BodyOf}

\* A file with a stamp of pgmi's or none.
Sound(c) == /\ DOMAIN c = {"body", "stamp", "crlf"}
            /\ c.stamp \in Stamps \cup {NoStamp}

\* A guidance file: pgmi's own text, or a text for which a user or an
\* interrupted write is to blame.
Own(c) == /\ Sound(c)
          /\ \/ c.body \in {"user", "torn"}
             \/ c.stamp # NoStamp /\ c.body = c.stamp.sum[1]

\* Any other file.
Bare(c) == Sound(c) /\ c.stamp = NoStamp

Allowed(p, c) == p # ClaudeMd => IF p \in GuidancePaths THEN Own(c) ELSE Bare(c)

DiskInv == \A p \in DOMAIN disk : Allowed(p, disk[p])

\* What pgmi, a user or an interrupted write leaves in a file.
LEMMA Contents ==
    /\ \A v \in DOMAIN BodyOf : Own(RenderManaged(BodyOf[v], v))
    /\ \A s : Bare(Plain(s))
    /\ Own(Plain("user")) /\ Own(Torn) /\ Bare(Torn)
<1>1. \A v \in DOMAIN BodyOf : Own(RenderManaged(BodyOf[v], v))
  <2>1. TAKE v \in DOMAIN BodyOf
  <2> DEFINE s == [version |-> v, sum |-> Checksum(BodyOf[v], v)]
             r == RenderManaged(BodyOf[v], v)
  <2>2. s \in Stamps /\ s.sum[1] = BodyOf[v]
    BY DEF Stamps, Checksum
  <2>3. DOMAIN s = {"version", "sum"}
    OBVIOUS
  <2>4. s # NoStamp
    <3>1. DOMAIN NoStamp = {}
      BY DEF NoStamp
    <3> QED BY <2>3, <3>1
  <2>5. r.stamp = s /\ r.body = BodyOf[v] /\ DOMAIN r = {"body", "stamp", "crlf"}
    BY DEF RenderManaged
  <2> HIDE DEF s, r
  <2> QED BY <2>2, <2>4, <2>5 DEF Own, Sound, r
<1>2. \A s : Bare(Plain(s))
  BY DEF Bare, Sound, Plain
<1>3. Own(Plain("user")) /\ Own(Torn) /\ Bare(Torn)
  BY DEF Own, Sound, Plain, Torn, Bare
<1> QED BY <1>1, <1>2, <1>3

\* A whole write of a file that may hold what is written.
LEMMA WriteKeeps ==
    ASSUME DiskInv, NEW p, NEW c, Allowed(p, c), disk' = Written(p, c)
    PROVE  DiskInv'
<1>1. DOMAIN disk' = DOMAIN disk \cup {p}
  BY DEF Written
<1>2. \A q \in DOMAIN disk' : disk'[q] = IF q = p THEN c ELSE disk[q]
  BY DEF Written
<1> QED BY <1>1, <1>2 DEF DiskInv, Allowed

\* What a user can do to the files of pgmi.
LEMMA EditKeeps ==
    ASSUME DiskInv, EditFile
    PROVE  DiskInv'
<1> DEFINE user == Plain("user")
<1>1. ASSUME NEW p, p # ClaudeMd, disk' = UserFile(p) PROVE DiskInv'
  <2>1. Allowed(p, user)
    BY Contents DEF Allowed
  <2> QED BY <1>1, <2>1, WriteKeeps DEF UserFile
<1>2. ASSUME NEW p \in DOMAIN disk, p # ClaudeMd, NEW c, Allowed(p, c),
             disk' = [disk EXCEPT ![p] = c]
      PROVE  DiskInv'
  BY <1>2 DEF DiskInv
<1>3. ASSUME NEW p \in Guidance
      PROVE  /\ p \in DOMAIN disk /\ p # ClaudeMd /\ p \in GuidancePaths
             /\ Own(disk[p]) /\ disk[p].stamp # NoStamp
  BY <1>3 DEF Guidance, DiskInv, Allowed, Bare
<1>4. ASSUME NEW p \in Guidance, disk' = [disk EXCEPT ![p].body = "user"] PROVE DiskInv'
  <2> DEFINE c == [disk[p] EXCEPT !.body = "user"]
  <2>1. Own(c)
    BY <1>3 DEF Own, Sound
  <2>2. disk' = [disk EXCEPT ![p] = c]
    BY <1>4
  <2> QED BY <1>2, <1>3, <2>1, <2>2 DEF Allowed
<1>5. ASSUME NEW p \in Guidance,
             disk' = [disk EXCEPT ![p].body = disk[p].stamp.sum[1]]
      PROVE  DiskInv'
  <2> DEFINE c == [disk[p] EXCEPT !.body = disk[p].stamp.sum[1]]
  <2>1. Own(c)
    BY <1>3 DEF Own, Sound
  <2>2. disk' = [disk EXCEPT ![p] = c]
    BY <1>5
  <2> QED BY <1>2, <1>3, <2>1, <2>2 DEF Allowed
<1>6. ASSUME NEW p \in Guidance, disk' = [disk EXCEPT ![p].crlf = ~ disk[p].crlf]
      PROVE  DiskInv'
  <2> DEFINE c == [disk[p] EXCEPT !.crlf = ~ disk[p].crlf]
  <2>1. Own(c)
    BY <1>3 DEF Own, Sound
  <2>2. disk' = [disk EXCEPT ![p] = c]
    BY <1>6
  <2> QED BY <1>2, <1>3, <2>1, <2>2 DEF Allowed
<1>7. ASSUME NEW p \in Guidance, disk' = [q \in DOMAIN disk \ {p} |-> disk[q]]
      PROVE  DiskInv'
  BY <1>7 DEF DiskInv
<1>8. ASSUME NEW d \in UserDocs, disk' = Written(ClaudeMd, [lines |-> d]) PROVE DiskInv'
  BY <1>8, WriteKeeps DEF Allowed
<1>9. \A p \in ManagedFiles \cup {<<".", "deploy.sql">>, <<".", "AGENTS.md">>} : p # ClaudeMd
  BY DEF ManagedFiles, ClaudeMd
<1> QED BY <1>1, <1>4, <1>5, <1>6, <1>7, <1>8, <1>9 DEF EditFile

-----------------------------------------------------------------------------
(* ai setup *)

\* The decision about a file fits what was read.
Decided ==
    \/ ai.action = "create" /\ ai.seen = Plain("none")
    \/ ai.action \in {"update", "unchanged"} /\ ~ Edited(ParseManaged(ai.seen))
    \/ ai.action = "conflict" /\ Edited(ParseManaged(ai.seen)) /\ Own(ai.seen)

\* What the setup command holds.
AiInv ==
    /\ DOMAIN ai = DOMAIN NoSetup
    /\ bin \in DOMAIN BodyOf /\ ai.ver \in DOMAIN BodyOf
    /\ ai.global \in BOOLEAN
    /\ ai.all \in Seq(DOMAIN Adapter) /\ ai.names \in Seq(DOMAIN Adapter)
    /\ ai.files \in Seq(GuidancePaths)
    /\ ai.conflicts \in Nat
    /\ ai.st = "write" => ai.files # <<>> /\ Decided

\* The command before it has read anything.
LEMMA FreshSetup ==
    ASSUME bin \in DOMAIN BodyOf, bin' = bin,
           \/ ai' = NoSetup
           \/ \E e \in {1, 2} : ai' = [NoSetup EXCEPT !.st = "done", !.exit = e]
           \/ \E names \in Seq(DOMAIN Adapter), global \in BOOLEAN : StartSetup(names, global)
    PROVE  AiInv'
<1>1. /\ DOMAIN NoSetup = {"st", "names", "all", "files", "global", "dry", "force", "claudeMd",
                           "ver", "action", "seen", "conflicts", "exit"}
      /\ NoSetup.ver = 1 /\ NoSetup.global \in BOOLEAN /\ NoSetup.conflicts = 0
      /\ NoSetup.st = "idle"
  BY DEF NoSetup
<1>2. NoSetup.all = <<>> /\ NoSetup.names = <<>> /\ NoSetup.files = <<>>
  BY DEF NoSetup
<1>3. /\ NoSetup.all \in Seq(DOMAIN Adapter) /\ NoSetup.names \in Seq(DOMAIN Adapter)
      /\ NoSetup.files \in Seq(GuidancePaths)
  BY <1>2
<1>4. CASE ai' = NoSetup
  BY <1>1, <1>3, <1>4, BodiesAssumption DEF AiInv
<1>5. ASSUME NEW e \in {1, 2}, ai' = [NoSetup EXCEPT !.st = "done", !.exit = e]
      PROVE  AiInv'
  <2>1. /\ DOMAIN ai' = DOMAIN NoSetup /\ ai'.st = "done"
        /\ \A x \in DOMAIN NoSetup : x \notin {"st", "exit"} => ai'[x] = NoSetup[x]
    BY <1>1, <1>5
  <2> QED BY <1>1, <1>3, <2>1, BodiesAssumption DEF AiInv
<1>6. ASSUME NEW names \in Seq(DOMAIN Adapter), NEW global \in BOOLEAN, StartSetup(names, global)
      PROVE  AiInv'
  <2>1. /\ DOMAIN ai' = DOMAIN NoSetup /\ ai'.st = "assistant" /\ ai'.ver = bin
        /\ ai'.names = names /\ ai'.all = names /\ ai'.global = global
        /\ ai'.files = NoSetup.files /\ ai'.conflicts = 0
    BY <1>1, <1>6 DEF StartSetup
  <2> QED BY <1>2, <1>3, <2>1 DEF AiInv
<1> QED BY <1>4, <1>5, <1>6

LEMMA StartKeeps ==
    ASSUME AiInv, RunAISetup
    PROVE  AiInv'
<1>1. \A name \in DOMAIN Adapter : <<name>> \in Seq(DOMAIN Adapter)
  OBVIOUS
<1>2. "claude" \in DOMAIN Adapter
  BY DEF Adapter, SkillAdapters
<1>3. <<"claude">> \in Seq(DOMAIN Adapter)
  BY <1>1, <1>2
<1>4. bin \in DOMAIN BodyOf /\ bin' = bin
  BY DEF AiInv, RunAISetup
<1> QED BY <1>1, <1>3, <1>4, FreshSetup, CanonicalAssumption DEF RunAISetup

\* The loop over assistants and files.
LEMMA SetupKeeps ==
    ASSUME AiInv, DiskInv, SetupStep
    PROVE  AiInv' /\ DiskInv'
<1> DEFINE N == {"st", "names", "all", "files", "global", "dry", "force", "claudeMd",
                 "ver", "action", "seen", "conflicts", "exit"}
           h == Head(ai.files)
           r == RenderManaged(BodyOf[ai.ver], ai.ver)
<1>1. DOMAIN ai = N /\ bin' = bin
  BY DEF AiInv, NoSetup, SetupStep, NextAssistant, Classify, WriteFile, WriteFails,
     FilesEnd,
         AssistantsEnd, WritePointer, PointerFails, SetupCrash
<1>2. ai.files # <<>> => h \in GuidancePaths /\ h # ClaudeMd /\ Tail(ai.files) \in Seq(GuidancePaths)
  BY Apart, HeadTailProperties DEF AiInv
<1>3. ASSUME NEW e, EndSetup(e) PROVE AiInv'
  BY <1>1, <1>3 DEF EndSetup, AiInv
<1>4. ai.files # <<>> => Allowed(h, r) /\ Allowed(h, Torn)
  BY <1>2, Contents DEF Allowed, AiInv
<1>5. \A c : Allowed(ClaudeMd, c)
  BY DEF Allowed
<1>6. ASSUME NEW n \in Nat, Advance(n), ai.files # <<>> PROVE AiInv'
  BY <1>1, <1>2, <1>6 DEF Advance, AiInv
<1>7. UNCHANGED disk => DiskInv'
  BY DEF DiskInv
<1>8. CASE NextAssistant
  <2>1. CASE Head(ai.names) \in DOMAIN SkillsRoot(ai.global)
    <3>1. /\ Planned(Head(ai.names), ai.global) \in Seq(GuidancePaths)
          /\ Tail(ai.names) \in Seq(DOMAIN Adapter)
      BY <1>8, <2>1, PlannedType, HeadTailProperties DEF AiInv, NextAssistant
    <3> QED BY <1>1, <1>7, <1>8, <2>1, <3>1 DEF NextAssistant, AiInv
  <2>2. CASE Head(ai.names) \notin DOMAIN SkillsRoot(ai.global)
    BY <1>3, <1>7, <1>8, <2>2 DEF NextAssistant
  <2> QED BY <2>1, <2>2
<1>9. CASE Classify
  <2> DEFINE c == disk[h]
             a == ClassifyFile(c, r)
  <2>1. h \in DOMAIN disk => Own(c)
    BY <1>2, <1>9 DEF Classify, DiskInv, Allowed
  <2>2. \/ a = "conflict" /\ Edited(ParseManaged(c))
        \/ a \in {"unchanged", "update"} /\ ~ Edited(ParseManaged(c))
    BY DEF ClassifyFile
  <2>3. /\ ai'.seen = IF h \in DOMAIN disk THEN c ELSE Plain("none")
        /\ ai'.action = IF h \in DOMAIN disk THEN a ELSE "create"
        /\ \A x \in N \ {"st", "seen", "action"} : ai'[x] = ai[x]
        /\ DOMAIN ai' = N /\ ai.files # <<>>
    BY <1>1, <1>9 DEF Classify, Exists
  <2> HIDE DEF a, c, h
  <2>4. Decided'
    BY <2>1, <2>2, <2>3 DEF Decided
  <2> QED BY <1>1, <1>7, <1>9, <2>3, <2>4 DEF AiInv, Classify
<1>10. CASE WriteFile
  <2>1. ai.files # <<>>
    BY <1>10 DEF WriteFile, AiInv
  <2>2. AiInv'
    <3>1. ai.conflicts \in Nat /\ ai.conflicts + 1 \in Nat /\ ai.conflicts + 0 \in Nat
      BY DEF AiInv
    <3> QED BY <1>6, <1>10, <2>1, <3>1 DEF WriteFile
  <2>3. DiskInv'
    BY <1>4, <1>7, <1>10, <2>1, WriteKeeps DEF WriteFile
  <2> QED BY <2>2, <2>3
<1>11. CASE WriteFails
  <2>1. ai.files # <<>>
    BY <1>11 DEF WriteFails, AiInv
  <2> QED BY <1>3, <1>4, <1>7, <1>11, <2>1, WriteKeeps DEF WriteFails
<1>12. CASE FilesEnd
  BY <1>1, <1>7, <1>12 DEF FilesEnd, AiInv
<1>13. CASE AssistantsEnd
  BY <1>1, <1>7, <1>13 DEF AssistantsEnd, AiInv
<1>14. CASE WritePointer
  BY <1>3, <1>5, <1>7, <1>14, WriteKeeps DEF WritePointer
<1>15. CASE PointerFails
  BY <1>3, <1>5, <1>7, <1>15, WriteKeeps DEF PointerFails
<1>16. CASE SetupCrash
  <2>1. \/ UNCHANGED disk
        \/ ai.st = "write" /\ disk' = Written(h, Torn)
        \/ disk' = Written(ClaudeMd, [lines |-> <<>>])
    BY <1>16 DEF SetupCrash
  <2>2. ai.st = "write" => ai.files # <<>>
    BY DEF AiInv
  <2>3. DiskInv'
    BY <1>4, <1>5, <1>7, <2>1, <2>2, WriteKeeps
  <2>4. AiInv'
    BY <1>1, <1>16, FreshSetup DEF SetupCrash, AiInv
  <2> QED BY <2>3, <2>4
<1> QED
  BY <1>8, <1>9, <1>10, <1>11, <1>12, <1>13, <1>14, <1>15, <1>16 DEF SetupStep

-----------------------------------------------------------------------------
(* init *)

T == Templates[ini.tmpl]

\* The files that are not torn.
Intact == {p \in DOMAIN disk : disk[p] # Torn}

\* A managed file that an interrupted write left.
TornManaged == \E p \in ManagedFiles : Exists(p) /\ disk[p] = Torn

\* What the init command holds, and what it can rely on: while it copies, the
\* rest of the walk is what is left of the template, what was found were
\* managed files, and no file is torn.  A torn managed file is never alone: the
\* first file of a template lies beside it and blocks the next init.
CopyInv ==
    /\ DOMAIN ini = DOMAIN NoInit
    /\ ini.todo \in Seq(TemplateFiles)
    /\ ini.st \in {"create", "copy", "save"} => ini.tmpl \in DOMAIN Templates
    /\ ini.st \in {"copy", "save"} =>
         /\ ini.found \subseteq ManagedFiles \cap DOMAIN disk
         /\ ~ TornManaged
    /\ ini.st = "copy" =>
         /\ Len(ini.todo) <= Len(T)
         /\ \A i \in 1..Len(ini.todo) : ini.todo[i] = T[Len(T) - Len(ini.todo) + i]
         /\ \A i \in 1..(Len(T) - Len(ini.todo)) : T[i] \in Intact
    /\ ini.st = "save" => /\ \A i \in 1..Len(T) : T[i] \in Intact
                          /\ ini.conn = "configured"
    /\ TornManaged => \E t \in DOMAIN Templates : Exists(Templates[t][1])
    /\ ini.st = "done" /\ ini.exit = ExitSuccess => ini.tmpl \in DOMAIN Templates
    /\ InitSuccessIsWhole

\* The others leave the files of init alone, but for a user's text.
Kept == \A p \in TemplateFiles \cup ManagedFiles :
          /\ p \in DOMAIN disk => p \in DOMAIN disk'
          /\ p \in DOMAIN disk' => \/ p \in DOMAIN disk /\ disk'[p] = disk[p]
                                   \/ disk'[p] = Plain("user")

LEMMA TemplateFacts ==
    ASSUME NEW t \in DOMAIN Templates
    PROVE  /\ t # "torn" /\ Templates[t] \in Seq(TemplateFiles)
           /\ Len(Templates[t]) \in Nat \ {0}
           /\ Templates[t][1] \in TemplateFiles /\ Templates[t][1] \notin ManagedFiles
           /\ Templates[t][1][1] \notin HomeRoots
<1>1. t # "torn" /\ Templates[t] \in Seq(TemplateFiles) /\ Len(Templates[t]) > 0
      /\ Templates[t][1] \notin ManagedFiles
  BY TemplatesAssumption
<1>2. Len(Templates[t]) \in Nat \ {0}
  BY <1>1, LenProperties
<1>3. Templates[t][1] \in TemplateFiles
  BY <1>1, <1>2, ElementOfSeq
<1> QED BY <1>1, <1>2, <1>3, TemplatesAssumption

LEMMA PlainIsNotTorn ==
    \A s : s # "torn" => Plain(s) # Torn
BY DEF Plain, Torn

\* Steps of the others keep the init invariant.
LEMMA OthersKeep ==
    ASSUME CopyInv, Kept, ini' = ini
    PROVE  CopyInv'
<1>1. \A p \in TemplateFiles \cup ManagedFiles :
        /\ Exists(p) => Exists(p)'
        /\ disk[p] # Torn /\ Exists(p) => disk'[p] # Torn
        /\ Exists(p)' /\ disk'[p] = Torn => Exists(p) /\ disk[p] = Torn
  BY PlainIsNotTorn DEF Kept, Exists
<1>2. TornManaged' => TornManaged
  BY <1>1 DEF TornManaged
<1>3. ini.tmpl \in DOMAIN Templates =>
        /\ Len(T) \in Nat
        /\ \A i \in 1..Len(T) : T[i] \in TemplateFiles
  BY TemplateFacts, ElementOfSeq DEF T
<1>4. T' = T
  BY DEF T
<1>5. InitSuccessIsWhole'
  BY <1>1, <1>3 DEF CopyInv, InitSuccessIsWhole, T
<1>6. ini.st \in {"copy", "save"} => ini.found \subseteq DOMAIN disk'
  BY <1>1 DEF CopyInv, Exists
<1>7. TornManaged' => \E t \in DOMAIN Templates : Exists(Templates[t][1])'
  BY <1>1, <1>2, TemplateFacts DEF CopyInv
<1>8. ini.st = "copy" => /\ Len(ini.todo) \in Nat
                         /\ \A i \in 1..(Len(T) - Len(ini.todo)) : T[i] \in TemplateFiles
  BY <1>3, LenProperties DEF CopyInv
<1>9. \A p \in TemplateFiles \cap Intact : p \in Intact'
  BY <1>1 DEF Intact, Exists
<1>10. ini.st = "copy" => \A i \in 1..(Len(T) - Len(ini.todo)) : T[i] \in Intact'
  BY <1>9, <1>8 DEF CopyInv
<1>11. ini.st = "save" => \A i \in 1..Len(T) : T[i] \in Intact'
  BY <1>3, <1>9 DEF CopyInv
<1> QED
  BY <1>2, <1>4, <1>5, <1>6, <1>7, <1>10, <1>11 DEF CopyInv

\* What the walk writes and what else a step of init leaves.
LEMMA WrittenFacts ==
    ASSUME NEW p, NEW c, disk' = Written(p, c)
    PROVE  /\ DOMAIN disk' = DOMAIN disk \cup {p} /\ disk'[p] = c
           /\ \A q \in DOMAIN disk : q # p => disk'[q] = disk[q]
BY DEF Written

\* Init writes its own files only.
LEMMA InitWrites ==
    ASSUME CopyInv, InitStep
    PROVE  \/ UNCHANGED disk
           \/ \E p \in TemplateFiles \cup {Yaml} : \E c :
                 Bare(c) /\ disk' = Written(p, c)
<1>1. ini.todo # <<>> => Head(ini.todo) \in TemplateFiles
  BY HeadTailProperties DEF CopyInv
<1>2. ASSUME NEW p \in TemplateFiles \cup {Yaml}, NEW c, Bare(c),
             disk' = Written(p, c)
      PROVE  \E q \in TemplateFiles \cup {Yaml} : \E d : Bare(d) /\ disk' = Written(q, d)
  BY <1>2
<1>3. CASE CopyTemplateFile
  BY <1>1, <1>2, <1>3, Contents DEF CopyTemplateFile
<1>4. CASE CopyFails
  BY <1>1, <1>2, <1>4, Contents DEF CopyFails
<1>5. CASE SaveConnection
  BY <1>2, <1>5, Contents DEF SaveConnection
<1>6. CASE InitCrash
  BY <1>1, <1>2, <1>6, Contents DEF InitCrash
<1>7. CASE UNCHANGED disk
  BY <1>7
<1> QED
  BY <1>3, <1>4, <1>5, <1>6, <1>7
  DEF InitStep, UpdateDirectory, UpdateTemplate, UpdateSetupChoice, AbortWizard,
      EndConnection, ValidateTemplate, CreateProject, CopyEnds

LEMMA InitKeepsDisk ==
    ASSUME DiskInv, CopyInv, InitStep
    PROVE  DiskInv'
<1>1. ASSUME NEW p \in TemplateFiles \cup {Yaml}, NEW c, Bare(c) PROVE Allowed(p, c)
  BY <1>1, Apart DEF Allowed
<1>2. CASE UNCHANGED disk
  BY <1>2 DEF DiskInv
<1>3. ASSUME NEW p \in TemplateFiles \cup {Yaml}, NEW c, Bare(c), disk' = Written(p, c)
      PROVE  DiskInv'
  BY <1>1, <1>3, WriteKeeps
<1> QED BY <1>2, <1>3, InitWrites

\* Steps of init that write nothing and are not about the walk.
LEMMA AskKeeps ==
    ASSUME CopyInv, disk' = disk, DOMAIN ini' = DOMAIN NoInit,
           ini'.todo \in Seq(TemplateFiles),
           ini'.st \notin {"copy", "save"},
           ini'.st = "create" => ini'.tmpl \in DOMAIN Templates,
           ~ (ini'.st = "done" /\ ini'.exit = ExitSuccess)
    PROVE  CopyInv'
<1>1. TornManaged' <=> TornManaged
  BY DEF TornManaged, Exists
<1>2. TornManaged' => \E t \in DOMAIN Templates : Exists(Templates[t][1])'
  BY <1>1 DEF CopyInv, Exists
<1>3. InitSuccessIsWhole'
  BY DEF InitSuccessIsWhole
<1> QED BY <1>2, <1>3 DEF CopyInv

\* Leaving init after a write that failed: no file is promised, but a torn
\* managed file has the first file of the template beside it.
LEMMA FailKeeps ==
    ASSUME CopyInv, ini.st \in {"copy", "save"},
           DOMAIN ini' = DOMAIN NoInit, ini'.todo \in Seq(TemplateFiles),
           ini'.st \notin {"create", "copy", "save"},
           ~ (ini'.st = "done" /\ ini'.exit = ExitSuccess),
           \/ disk' = disk
           \/ /\ ini.st = "copy" /\ ini.todo # <<>>
              /\ disk' = Written(Head(ini.todo), Torn)
           \/ ini.st = "save" /\ disk' = Written(Yaml, Torn)
    PROVE  CopyInv'
<1>1. /\ ini.tmpl \in DOMAIN Templates /\ ini.todo \in Seq(TemplateFiles)
      /\ ~ TornManaged
  BY DEF CopyInv
<1>2. /\ Len(T) \in Nat \ {0} /\ T[1] \notin ManagedFiles
  BY <1>1, TemplateFacts DEF T
<1>3. TornManaged' => T[1] \in DOMAIN disk'
  <2>1. CASE disk' = disk
    BY <1>1, <2>1 DEF TornManaged, Exists
  <2>2. CASE ini.st = "copy" /\ ini.todo # <<>> /\ disk' = Written(Head(ini.todo), Torn)
    <3>1. Len(ini.todo) \in Nat \ {0} /\ Head(ini.todo) = ini.todo[1]
      BY <1>1, <2>2, HeadTailProperties, EmptySeq, LenProperties
    <3>2. Head(ini.todo) = T[Len(T) - Len(ini.todo) + 1] /\ Len(ini.todo) <= Len(T)
      <4>1. 1 \in 1..Len(ini.todo)
        BY <3>1
      <4>2. ini.todo[1] = T[Len(T) - Len(ini.todo) + 1] /\ Len(ini.todo) <= Len(T)
        BY <2>2, <4>1 DEF CopyInv
      <4> QED BY <3>1, <4>2
    <3>3. CASE Len(ini.todo) = Len(T)
      <4>1. Head(ini.todo) \notin ManagedFiles
        BY <1>2, <3>2, <3>3
      <4>2. /\ DOMAIN disk' = DOMAIN disk \cup {Head(ini.todo)}
            /\ \A q \in DOMAIN disk : q # Head(ini.todo) => disk'[q] = disk[q]
        BY <2>2, WrittenFacts
      <4> QED BY <1>1, <4>1, <4>2 DEF TornManaged, Exists
    <3>4. CASE Len(ini.todo) # Len(T)
      <4>1. T[1] \in Intact
        BY <1>2, <2>2, <3>1, <3>2, <3>4 DEF CopyInv
      <4> QED BY <2>2, <4>1, WrittenFacts DEF Intact, Exists
    <3> QED BY <3>3, <3>4
  <2>3. CASE ini.st = "save" /\ disk' = Written(Yaml, Torn)
    <3>1. T[1] \in Intact
      BY <1>2, <2>3 DEF CopyInv
    <3> QED BY <2>3, <3>1, WrittenFacts DEF Intact, Exists
  <2> QED BY <2>1, <2>2, <2>3
<1>4. InitSuccessIsWhole'
  BY DEF InitSuccessIsWhole
<1>5. TornManaged' => \E t \in DOMAIN Templates : Exists(Templates[t][1])'
  BY <1>1, <1>3 DEF T, Exists
<1> QED BY <1>4, <1>5 DEF CopyInv

\* The scaffolder finds nothing in its way: then no managed file is torn, for
\* the first file of a template would be in the way too.
LEMMA CreateKeeps ==
    ASSUME CopyInv, CreateProject
    PROVE  CopyInv'
<1>1. ini.tmpl \in DOMAIN Templates /\ disk' = disk /\ ini.st = "create"
  BY DEF CopyInv, CreateProject
<1>2. CASE Blocking(Entries) # {}
  <2>1. ini' = [ini EXCEPT !.st = "done", !.exit = ExitUsage]
    BY <1>2 DEF CreateProject, EndInit
  <2>2. DOMAIN ini' = DOMAIN ini /\ ini'.st = "done" /\ ini'.exit = ExitUsage
        /\ ini'.todo = ini.todo
    BY <2>1 DEF CopyInv, NoInit
  <2> QED BY <1>1, <2>2, AskKeeps DEF CopyInv, ExitSuccess, ExitUsage
<1>3. CASE Blocking(Entries) = {}
  <2>1. ~ TornManaged
    BY <1>3, TemplateFacts DEF CopyInv, Blocking, Entries, Exists
  <2>2. ~ TornManaged'
    BY <1>1, <2>1 DEF TornManaged, Exists
  <2>3. T' = T /\ T \in Seq(TemplateFiles) /\ Len(T) \in Nat \ {0}
    BY <1>1, <1>3, TemplateFacts DEF T, CreateProject, CopyInv, NoInit
  <2>4. /\ DOMAIN ini' = DOMAIN NoInit /\ ini'.st = "copy" /\ ini'.todo = T
        /\ ini'.tmpl = ini.tmpl /\ ini'.found = Entries
    BY <1>1, <1>3 DEF CreateProject, CopyInv, NoInit, T
  <2>5. Entries \subseteq ManagedFiles \cap DOMAIN disk'
    BY <1>1, <1>3 DEF Blocking, Entries
  <2>6. InitSuccessIsWhole'
    BY <2>4 DEF InitSuccessIsWhole
  <2> QED BY <1>1, <2>2, <2>3, <2>4, <2>5, <2>6 DEF CopyInv
<1> QED BY <1>2, <1>3

\* One file of the walk.
LEMMA CopyKeeps ==
    ASSUME CopyInv, CopyTemplateFile
    PROVE  CopyInv'
<1> DEFINE h == Head(ini.todo)
           n == Len(T) - Len(ini.todo)
<1>1. /\ ini.tmpl \in DOMAIN Templates /\ ini.todo \in Seq(TemplateFiles)
      /\ ~ TornManaged /\ ini.st = "copy" /\ ini.todo # <<>>
  BY DEF CopyInv, CopyTemplateFile
<1>2. Len(T) \in Nat \ {0} /\ ini.tmpl # "torn" /\ \A i \in 1..Len(T) : T[i] \in TemplateFiles
  BY <1>1, TemplateFacts, ElementOfSeq DEF T
<1>3. /\ Len(ini.todo) \in Nat \ {0} /\ h = ini.todo[1]
      /\ Tail(ini.todo) \in Seq(TemplateFiles) /\ Len(Tail(ini.todo)) = Len(ini.todo) - 1
      /\ \A i \in 1..(Len(ini.todo) - 1) : Tail(ini.todo)[i] = ini.todo[i + 1]
  BY <1>1, HeadTailProperties, EmptySeq, LenProperties
<1>4. /\ Len(ini.todo) <= Len(T)
      /\ \A i \in 1..Len(ini.todo) : ini.todo[i] = T[n + i]
      /\ \A i \in 1..n : T[i] \in Intact
  BY <1>1 DEF CopyInv
<1>5. h = T[n + 1]
  <2>1. 1 \in 1..Len(ini.todo)
    BY <1>3
  <2> QED BY <1>3, <1>4, <2>1
<1>6. /\ DOMAIN ini' = DOMAIN NoInit /\ ini'.st = "copy" /\ ini'.todo = Tail(ini.todo)
      /\ ini'.tmpl = ini.tmpl /\ ini'.found = ini.found /\ T' = T
  BY <1>1 DEF CopyTemplateFile, CopyInv, NoInit, T
<1>7. /\ h \in Intact'
      /\ Intact \subseteq Intact'
      /\ \A p \in DOMAIN disk : p \in DOMAIN disk'
      /\ ~ TornManaged'
  <2>1. CASE h \in ManagedFiles /\ Exists(h)
    <3>1. disk' = disk
      BY <2>1 DEF CopyTemplateFile
    <3> QED BY <1>1, <2>1, <3>1 DEF Intact, TornManaged, Exists
  <2>2. CASE ~ (h \in ManagedFiles /\ Exists(h))
    <3>1. disk' = Written(h, Plain(ini.tmpl)) /\ Plain(ini.tmpl) # Torn
      BY <1>2, <2>2, PlainIsNotTorn DEF CopyTemplateFile
    <3>2. /\ DOMAIN disk' = DOMAIN disk \cup {h} /\ disk'[h] # Torn
          /\ \A q \in DOMAIN disk : q # h => disk'[q] = disk[q]
      BY <3>1, WrittenFacts
    <3> QED BY <1>1, <3>2 DEF Intact, TornManaged, Exists
  <2> QED BY <2>1, <2>2
<1>8. InitSuccessIsWhole'
  BY <1>6 DEF InitSuccessIsWhole
<1>9. \A i \in 1..(Len(T) - Len(Tail(ini.todo))) : T[i] \in Intact'
  <2>1. TAKE i \in 1..(Len(T) - Len(Tail(ini.todo)))
  <2>2. i \in 1..n \/ i = n + 1
    BY <1>2, <1>3, <1>4
  <2>3. T[i] \in Intact => T[i] \in Intact'
    BY <1>6, <1>7 DEF Intact, Exists
  <2>4. T[n + 1] \in Intact'
    BY <1>5, <1>6, <1>7 DEF Intact, Exists
  <2> QED BY <1>4, <2>2, <2>3, <2>4
<1>10. \A i \in 1..Len(Tail(ini.todo)) : Tail(ini.todo)[i] = T[Len(T) - Len(Tail(ini.todo)) + i]
  <2>1. TAKE i \in 1..Len(Tail(ini.todo))
  <2> DEFINE m == Len(ini.todo)
             l == Len(T)
  <2>2. /\ m \in Nat \ {0} /\ l \in Nat /\ Len(Tail(ini.todo)) = m - 1
        /\ i \in 1..(m - 1)
    BY <1>2, <1>3
  <2> HIDE DEF m, l
  <2>3. i + 1 \in 1..m /\ (l - m) + (i + 1) = l - (m - 1) + i
    BY <2>2
  <2>4. ini.todo[i + 1] = T[(l - m) + (i + 1)] /\ Tail(ini.todo)[i] = ini.todo[i + 1]
    BY <1>3, <1>4, <2>2, <2>3 DEF m, l
  <2> USE DEF m, l
  <2> QED BY <2>2, <2>3, <2>4
<1>11. ini'.found \subseteq ManagedFiles \cap DOMAIN disk'
  BY <1>1, <1>6, <1>7 DEF CopyInv
<1>12. Len(Tail(ini.todo)) <= Len(T)
  BY <1>2, <1>3, <1>4
<1> HIDE DEF h, n
<1> QED BY <1>1, <1>3, <1>6, <1>7, <1>8, <1>9, <1>10, <1>11, <1>12 DEF CopyInv

\* The walk is over.
LEMMA EndKeeps ==
    ASSUME CopyInv, CopyEnds
    PROVE  CopyInv'
<1>1. /\ ini.tmpl \in DOMAIN Templates /\ ini.todo = <<>> /\ ini.st = "copy"
      /\ ~ TornManaged /\ disk' = disk
  BY DEF CopyInv, CopyEnds
<1>2. Len(T) \in Nat /\ Len(ini.todo) = 0
  BY <1>1, TemplateFacts DEF T
<1>3. \A i \in 1..Len(T) : T[i] \in Intact
  BY <1>1, <1>2 DEF CopyInv
<1>4. /\ DOMAIN ini' = DOMAIN NoInit /\ ini'.tmpl = ini.tmpl /\ ini'.conn = ini.conn
      /\ ini'.todo = <<>> /\ ini'.found = ini.found /\ T' = T
      /\ \/ ini.conn = "configured" /\ ini'.st = "save"
         \/ ini'.st = "done"
  BY <1>1 DEF CopyEnds, EndInit, CopyInv, NoInit, T
<1>5. \A i \in 1..Len(T) : T[i] \in Intact'
  BY <1>1, <1>3, <1>4 DEF Intact, Exists
<1>6. ~ TornManaged'
  BY <1>1 DEF TornManaged, Exists
<1>7. InitSuccessIsWhole'
  BY <1>4, <1>5 DEF InitSuccessIsWhole, Intact, T, Exists
<1>8. ini'.todo \in Seq(TemplateFiles)
  BY <1>4
<1> QED BY <1>1, <1>4, <1>5, <1>6, <1>7, <1>8 DEF CopyInv

\* The rewrite of pgmi.yaml: at worst it is torn, and only it.
LEMMA SaveKeeps ==
    ASSUME CopyInv, SaveConnection
    PROVE  CopyInv'
<1>1. /\ ini.tmpl \in DOMAIN Templates /\ ini.st = "save" /\ ini.conn = "configured"
      /\ \A i \in 1..Len(T) : T[i] \in Intact
  BY DEF CopyInv, SaveConnection
<1>2. /\ DOMAIN ini' = DOMAIN NoInit /\ ini'.tmpl = ini.tmpl /\ ini'.conn = ini.conn
      /\ ini'.todo = ini.todo /\ T' = T /\ ini'.st = "done"
  BY <1>1 DEF SaveConnection, EndInit, CopyInv, NoInit, T
<1>3. /\ \A p \in DOMAIN disk : p \in DOMAIN disk'
      /\ \A p \in DOMAIN disk : p # Yaml => disk'[p] = disk[p]
  <2>1. CASE disk' = disk
    BY <2>1
  <2>2. ASSUME NEW c, disk' = Written(Yaml, c)
        PROVE  /\ \A p \in DOMAIN disk : p \in DOMAIN disk'
               /\ \A p \in DOMAIN disk : p # Yaml => disk'[p] = disk[p]
    BY <2>2, WrittenFacts
  <2> QED BY <2>1, <2>2 DEF SaveConnection
<1>4. \A i \in 1..Len(T) : /\ T[i] \in DOMAIN disk'
                           /\ T[i] = Yaml \/ disk'[T[i]] # Torn
  BY <1>1, <1>3 DEF Intact, Exists
<1>5. InitSuccessIsWhole'
  BY <1>1, <1>2, <1>4 DEF InitSuccessIsWhole, T, Exists
<1>6. Len(T) \in Nat \ {0}
  BY <1>1, TemplateFacts DEF T
<1>7. \E t \in DOMAIN Templates : Exists(Templates[t][1])'
  BY <1>1, <1>4, <1>6 DEF T, Exists
<1> QED BY <1>1, <1>2, <1>5, <1>7 DEF CopyInv

LEMMA InitKeeps ==
    ASSUME CopyInv, InitStep
    PROVE  CopyInv'
<1>1. CASE \/ UpdateDirectory \/ UpdateTemplate \/ UpdateSetupChoice \/ AbortWizard
           \/ EndConnection \/ ValidateTemplate
  <2>1. DOMAIN ini = {"st", "tmpl", "idx", "conn", "todo", "found", "exit"}
    BY DEF CopyInv, NoInit
  <2>2. /\ disk' = disk /\ DOMAIN ini' = DOMAIN NoInit /\ ini'.todo = ini.todo
        /\ ini'.st \notin {"copy", "save"}
        /\ ini'.st = "create" => ini'.tmpl \in DOMAIN Templates
        /\ ~ (ini'.st = "done" /\ ini'.exit = ExitSuccess)
    <3>1. ExitError # ExitSuccess /\ ExitUsage # ExitSuccess
      BY DEF ExitSuccess, ExitError, ExitUsage
    <3>2. CASE UpdateDirectory
      BY <2>1, <3>2 DEF UpdateDirectory, Cancel, NoInit
    <3>3. CASE UpdateTemplate
      BY <2>1, <3>3 DEF UpdateTemplate, NoInit
    <3>4. CASE UpdateSetupChoice
      BY <2>1, <3>4 DEF UpdateSetupChoice, NoInit
    <3>5. CASE AbortWizard
      BY <2>1, <3>1, <3>5 DEF AbortWizard, Cancel, EndInit, NoInit
    <3>6. CASE EndConnection
      BY <2>1, <3>6 DEF EndConnection, NoInit
    <3>7. CASE ValidateTemplate
      BY <2>1, <3>1, <3>7 DEF ValidateTemplate, EndInit, NoInit
    <3> QED BY <1>1, <3>2, <3>3, <3>4, <3>5, <3>6, <3>7
  <2> QED BY <2>2, AskKeeps DEF CopyInv
<1>2. CASE CreateProject
  BY <1>2, CreateKeeps
<1>3. CASE CopyTemplateFile
  BY <1>3, CopyKeeps
<1>4. CASE CopyFails
  BY <1>4, FailKeeps DEF CopyFails, EndInit, CopyInv, NoInit, ExitSuccess, ExitError
<1>5. CASE CopyEnds
  BY <1>5, EndKeeps
<1>6. CASE SaveConnection
  BY <1>6, SaveKeeps
<1>7. CASE InitCrash
  <2>1. ini' = NoInit /\ NoInit.st = "idle" /\ NoInit.todo = <<>>
    BY <1>7 DEF InitCrash, NoInit
  <2>2. NoInit.todo \in Seq(TemplateFiles)
    BY <2>1
  <2>3. CASE ini.st \in {"copy", "save"}
    BY <1>7, <2>1, <2>2, <2>3, FailKeeps DEF InitCrash
  <2>4. CASE ini.st \notin {"copy", "save"}
    BY <1>7, <2>1, <2>2, <2>4, AskKeeps DEF InitCrash
  <2> QED BY <2>3, <2>4
<1> QED BY <1>1, <1>2, <1>3, <1>4, <1>5, <1>6, <1>7 DEF InitStep

\* RunInit starts from nothing.
LEMMA RunKeeps ==
    ASSUME CopyInv, RunInit
    PROVE  CopyInv'
<1>1. /\ DOMAIN NoInit = {"st", "tmpl", "idx", "conn", "todo", "found", "exit"}
      /\ NoInit.todo = <<>>
  BY DEF NoInit
<1>2. NoInit.todo \in Seq(TemplateFiles)
  BY <1>1
<1>3. ExitUsage # ExitSuccess
  BY DEF ExitUsage, ExitSuccess
<1>4. disk' = disk /\ DOMAIN ini' = DOMAIN NoInit /\ ini'.todo = NoInit.todo
  BY <1>1 DEF RunInit
<1>5. /\ ini'.st \in {"directory", "validate", "done"}
      /\ ini'.st = "done" => ini'.exit = ExitUsage
  BY <1>1 DEF RunInit
<1> QED BY <1>2, <1>3, <1>4, <1>5, AskKeeps

\* The user and ai setup leave init's files alone.
LEMMA UserSpares ==
    ASSUME DiskInv, EditFile
    PROVE  Kept
<1> DEFINE F == TemplateFiles \cup ManagedFiles
<1>1. ASSUME NEW p, disk' = UserFile(p) PROVE Kept
  BY <1>1, WrittenFacts DEF UserFile, Kept
<1>2. \A p \in Guidance : p \notin F
  BY Apart DEF Guidance, DiskInv, Allowed, Bare
<1>3. ASSUME NEW p, p \notin F,
             \A q \in F : /\ q \in DOMAIN disk <=> q \in DOMAIN disk'
                          /\ q \in DOMAIN disk => disk'[q] = disk[q]
      PROVE  Kept
  BY <1>3 DEF Kept
<1>4. ASSUME NEW p \in Guidance, disk' = [q \in DOMAIN disk \ {p} |-> disk[q]] PROVE Kept
  BY <1>2, <1>3, <1>4
<1>5. ASSUME NEW c, disk' = Written(ClaudeMd, c) PROVE Kept
  <2>1. ClaudeMd \notin F
    BY Apart
  <2> QED BY <1>5, <2>1, WrittenFacts DEF Kept
<1>6. ASSUME NEW p \in Guidance, NEW c, disk' = [disk EXCEPT ![p] = c] PROVE Kept
  <2>1. /\ DOMAIN disk' = DOMAIN disk
        /\ \A q \in DOMAIN disk : q # p => disk'[q] = disk[q]
    BY <1>6
  <2> QED BY <1>2, <2>1 DEF Kept
<1>7. ASSUME NEW p \in Guidance,
             \/ disk' = [disk EXCEPT ![p].body = "user"]
             \/ disk' = [disk EXCEPT ![p].body = disk[p].stamp.sum[1]]
             \/ disk' = [disk EXCEPT ![p].crlf = ~ disk[p].crlf]
      PROVE  Kept
  <2>1. CASE disk' = [disk EXCEPT ![p].body = "user"]
    <3>1. disk' = [disk EXCEPT ![p] = [disk[p] EXCEPT !.body = "user"]]
      BY <2>1
    <3> QED BY <1>6, <3>1
  <2>2. CASE disk' = [disk EXCEPT ![p].body = disk[p].stamp.sum[1]]
    <3>1. disk' = [disk EXCEPT ![p] = [disk[p] EXCEPT !.body = disk[p].stamp.sum[1]]]
      BY <2>2
    <3> QED BY <1>6, <3>1
  <2>3. CASE disk' = [disk EXCEPT ![p].crlf = ~ disk[p].crlf]
    <3>1. disk' = [disk EXCEPT ![p] = [disk[p] EXCEPT !.crlf = ~ disk[p].crlf]]
      BY <2>3
    <3> QED BY <1>6, <3>1
  <2> QED BY <1>7, <2>1, <2>2, <2>3
<1> QED BY <1>1, <1>4, <1>5, <1>7 DEF EditFile

LEMMA SetupSpares ==
    ASSUME AiInv, SetupStep
    PROVE  Kept
<1>1. ASSUME NEW p \in GuidancePaths \cup {ClaudeMd}, NEW c, disk' = Written(p, c) PROVE Kept
  <2>1. p \notin TemplateFiles \cup ManagedFiles
    BY Apart
  <2> QED BY <1>1, <2>1, WrittenFacts DEF Kept
<1>2. CASE disk' = disk
  BY <1>2 DEF Kept
<1>3. ai.st = "write" => Head(ai.files) \in GuidancePaths
  BY HeadTailProperties DEF AiInv
<1>4. CASE WriteFile
  BY <1>1, <1>2, <1>3, <1>4 DEF WriteFile
<1>5. CASE WriteFails
  BY <1>1, <1>2, <1>3, <1>5 DEF WriteFails
<1>6. CASE WritePointer
  BY <1>1, <1>2, <1>6 DEF WritePointer
<1>7. CASE PointerFails
  BY <1>1, <1>2, <1>7 DEF PointerFails
<1>8. CASE SetupCrash
  BY <1>1, <1>2, <1>3, <1>8 DEF SetupCrash
<1> QED
  BY <1>2, <1>4, <1>5, <1>6, <1>7, <1>8
  DEF SetupStep, NextAssistant, Classify, FilesEnd, AssistantsEnd

-----------------------------------------------------------------------------
(* The invariant *)

Inv == DiskInv /\ AiInv /\ CopyInv /\ edits \in Nat

LEMMA InvInit ==
    Init => Inv
<1> SUFFICES ASSUME Init PROVE Inv
  OBVIOUS
<1>1. DOMAIN disk = {}
  BY DEF Init
<1>2. DiskInv /\ ~ TornManaged /\ edits \in Nat
  BY <1>1 DEF DiskInv, TornManaged, Exists, Init
<1>3. NoInit.todo \in Seq(TemplateFiles) /\ NoInit.st = "idle"
  <2>1. NoInit.todo = <<>> /\ NoInit.st = "idle"
    BY DEF NoInit
  <2> QED BY <2>1
<1>4. CopyInv
  BY <1>2, <1>3 DEF CopyInv, InitSuccessIsWhole, Init
<1>5. AiInv
  <2>1. NoSetup.all = <<>> /\ NoSetup.names = <<>> /\ NoSetup.files = <<>>
    BY DEF NoSetup
  <2>2. /\ NoSetup.all \in Seq(DOMAIN Adapter) /\ NoSetup.names \in Seq(DOMAIN Adapter)
        /\ NoSetup.files \in Seq(GuidancePaths)
    BY <2>1
  <2>3. /\ NoSetup.ver = 1 /\ NoSetup.global \in BOOLEAN /\ NoSetup.conflicts = 0
        /\ NoSetup.st = "idle"
    BY DEF NoSetup
  <2> QED BY <2>2, <2>3, BodiesAssumption DEF AiInv, Init
<1> QED BY <1>2, <1>4, <1>5 DEF Inv

LEMMA InvNext ==
    Inv /\ [Next]_pvars => Inv'
<1> SUFFICES ASSUME Inv, [Next]_pvars PROVE Inv'
  OBVIOUS
<1> USE DEF Inv
<1>1. ASSUME ai' = ai, bin' = bin PROVE AiInv'
  BY <1>1 DEF AiInv, Decided
<1>2. ASSUME disk' = disk PROVE DiskInv' /\ Kept
  BY <1>2 DEF DiskInv, Kept
<1>3. CASE User
  BY <1>1, <1>3, EditKeeps, UserSpares, OthersKeep DEF User
<1>4. CASE Upgrade
  <2>1. AiInv'
    BY <1>4 DEF Upgrade, AiInv, Decided
  <2> QED BY <1>2, <1>4, <2>1, OthersKeep DEF Upgrade
<1>5. CASE StartInit
  BY <1>1, <1>2, <1>5, RunKeeps DEF StartInit, RunInit
<1>6. CASE StartAISetup
  BY <1>2, <1>6, StartKeeps, OthersKeep DEF StartAISetup, RunAISetup
<1>7. CASE InitSteps
  BY <1>1, <1>7, InitKeeps, InitKeepsDisk DEF InitSteps
<1>8. CASE SetupSteps
  BY <1>8, SetupKeeps, SetupSpares, OthersKeep DEF SetupSteps
<1>9. CASE UNCHANGED pvars
  BY <1>1, <1>2, <1>9, OthersKeep DEF pvars
<1> QED BY <1>3, <1>4, <1>5, <1>6, <1>7, <1>8, <1>9 DEF Next

\* Whatever ends, fails, dies or is edited in between, what is on disk is what
\* pgmi or its user wrote whole, or torn by an interrupted write of pgmi's.
THEOREM DiskIsSound ==
    Spec => []Inv
BY InvInit, InvNext, PTL DEF Spec

\* An init that ends with exit 0 has put every file of its template on disk,
\* none of them torn but for pgmi.yaml (copyTemplateFiles ends its walk at the
\* first error; saveConnectionToConfig's failure is only a warning).
THEOREM SuccessIsWhole ==
    Spec => []InitSuccessIsWhole
<1>1. Inv => InitSuccessIsWhole
  BY DEF Inv, CopyInv
<1> QED BY <1>1, DiskIsSound, PTL

\* What was there when the scaffolder looked is not replaced, only pgmi.yaml
\* by its own text with the connection (CreateProject, copyTemplateFiles).
THEOREM FoundIsKept ==
    Spec => InitKeepsFiles
<1> DEFINE A == \A p \in ini.found :
                  ini.st \in {"copy", "save"} /\ ini' # ini =>
                     \/ disk'[p] = disk[p]
                     \/ p = Yaml /\ ini.st = "save" /\ ini.conn = "configured"
<1>1. ASSUME Inv, [Next]_pvars PROVE A
  <2> SUFFICES ASSUME NEW p \in ini.found, ini.st \in {"copy", "save"}, ini' # ini
               PROVE  \/ disk'[p] = disk[p]
                      \/ p = Yaml /\ ini.st = "save" /\ ini.conn = "configured"
    OBVIOUS
  <2>1. p \in ManagedFiles /\ p \in DOMAIN disk
    BY <1>1 DEF Inv, CopyInv
  <2>2. InitStep
    BY <1>1 DEF Next, User, Upgrade, StartAISetup, SetupSteps, StartInit, RunInit,
       Ended,
                InitSteps, pvars
  <2>3. CASE disk' = disk
    BY <2>3
  <2>4. ASSUME NEW q, NEW c, disk' = Written(q, c), q # p PROVE disk'[p] = disk[p]
    BY <2>1, <2>4 DEF Written
  <2>5. ini.st = "save" => ini.conn = "configured"
    BY <1>1 DEF Inv, CopyInv
  <2>6. CASE CopyTemplateFile \/ CopyFails
    <3>1. \/ disk' = disk
          \/ /\ ~ (Head(ini.todo) \in ManagedFiles /\ Exists(Head(ini.todo)))
             /\ \E c : disk' = Written(Head(ini.todo), c)
      BY <2>6 DEF CopyTemplateFile, CopyFails
    <3> QED BY <2>1, <2>3, <2>4, <3>1 DEF Exists
  <2>7. CASE SaveConnection
    <3>1. /\ ini.st = "save"
          /\ disk' = disk \/ \E c : disk' = Written(Yaml, c)
      BY <2>7 DEF SaveConnection
    <3> QED BY <2>3, <2>4, <2>5, <3>1
  <2>8. CASE InitCrash
    <3>1. \/ disk' = disk
          \/ /\ ~ (Head(ini.todo) \in ManagedFiles /\ Exists(Head(ini.todo)))
             /\ \E c : disk' = Written(Head(ini.todo), c)
          \/ ini.st = "save" /\ \E c : disk' = Written(Yaml, c)
      BY <2>8 DEF InitCrash
    <3> QED BY <2>1, <2>3, <2>4, <2>5, <3>1 DEF Exists
  <2> QED
    BY <2>2, <2>3, <2>6, <2>7, <2>8
    DEF InitStep, UpdateDirectory, UpdateTemplate, UpdateSetupChoice, AbortWizard,
        EndConnection, ValidateTemplate, CreateProject, CopyEnds
<1> QED BY <1>1, DiskIsSound, PTL DEF Spec, InitKeepsFiles

\* Text of a user is never taken for pgmi's own, and pgmi's own never for a
\* user's.
LEMMA Recognised ==
    ASSUME NEW c, Own(c)
    PROVE  /\ c.body = "user" => Edited(ParseManaged(c))
           /\ Edited(ParseManaged(c)) => c.body \in {"user", "torn"}
<1> DEFINE m == ParseManaged(c)
<1>1. m.body = c.body /\ m.stamp = c.stamp /\ m.crlf = FALSE
  BY DEF ParseManaged, Own, Sound
<1>2. CASE c.stamp = NoStamp
  BY <1>1, <1>2 DEF Own, Edited
<1>3. CASE c.stamp # NoStamp
  <2>1. PICK v \in DOMAIN BodyOf : c.stamp = [version |-> v, sum |-> Checksum(BodyOf[v], v)]
    BY <1>3 DEF Own, Sound, Stamps
  <2>2. c.stamp.version = v /\ c.stamp.sum = <<BodyOf[v], v>> /\ c.stamp.sum[1] = BodyOf[v]
    BY <2>1 DEF Checksum
  <2>3. Edited(m) <=> <<BodyOf[v], v>> # <<c.body, v>>
    BY <1>1, <1>3, <2>2 DEF Edited, Checksum
  <2>4. BodyOf[v] # "user"
    BY BodiesAssumption
  <2> QED BY <1>3, <2>2, <2>3, <2>4 DEF Own
<1> QED BY <1>2, <1>3

\* A setup without --force destroys a hand-edited guidance file only if it was
\* saved after setup had read it, and it counts no file as hand-edited that
\* neither a user nor an interrupted write has touched (runAISetup,
\* classifyFile, ParseManaged).
THEOREM EditsKept ==
    Spec => HandEditsKept
<1> DEFINE Spared == \A p \in DOMAIN disk \ {ClaudeMd} :
                        ai.st = "write" /\ disk' # disk /\ edits' = edits /\ ini' = ini
                           /\ HandWritten(disk[p]) =>
                              \/ p \in DOMAIN disk' /\ disk'[p] = disk[p]
                              \/ ai.force
                              \/ ai.seen # disk[p]
           Blamed == ai'.conflicts > ai.conflicts => ai.seen.body \in {"user", "torn"}
<1>1. ASSUME Inv, [Next]_pvars PROVE Spared
  <2> SUFFICES ASSUME NEW p \in DOMAIN disk \ {ClaudeMd},
                      ai.st = "write", disk' # disk, edits' = edits, ini' = ini,
                      disk[p].body = "user", ~ ai.force, ai.seen = disk[p]
               PROVE  p \in DOMAIN disk' /\ disk'[p] = disk[p]
    BY DEF HandWritten
  <2>1. SetupStep
    <3>1. ~ User
      BY <1>1 DEF Inv, User
    <3>2. ~ InitSteps
      <4>1. ASSUME CopyTemplateFile PROVE FALSE
        <5>1. /\ Len(ini.todo) \in Nat \ {0} /\ Len(Tail(ini.todo)) = Len(ini.todo) - 1
          BY <1>1, <4>1, HeadTailProperties, EmptySeq, LenProperties
             DEF Inv, CopyInv, CopyTemplateFile
        <5>2. ini'.todo = Tail(ini.todo)
          BY <1>1, <4>1 DEF Inv, CopyInv, CopyTemplateFile, NoInit
        <5> DEFINE t == Tail(ini.todo)
        <5>3. Len(t) # Len(ini.todo)
          BY <5>1
        <5> HIDE DEF t
        <5> QED BY <5>2, <5>3 DEF t
      <4>2. DOMAIN ini = {"st", "tmpl", "idx", "conn", "todo", "found", "exit"}
        BY <1>1 DEF Inv, CopyInv, NoInit
      <4>3. ASSUME CopyFails \/ SaveConnection PROVE FALSE
        <5>1. ini'.st = "done" /\ ini.st # "done"
          BY <4>2, <4>3 DEF CopyFails, SaveConnection, EndInit
        <5> QED BY <5>1
      <4>4. ASSUME InitCrash PROVE FALSE
        <5>1. ini'.st = "idle" /\ ini.st # "idle"
          <6>1. NoInit.st = "idle"
            BY DEF NoInit
          <6> QED BY <4>4, <6>1 DEF InitCrash, Ended
        <5> QED BY <5>1
      <4> QED
        BY <4>1, <4>3, <4>4
        DEF InitSteps, InitStep, UpdateDirectory, UpdateTemplate, UpdateSetupChoice,
            AbortWizard, EndConnection, ValidateTemplate, CreateProject, CopyEnds
    <3> QED BY <1>1, <3>1, <3>2
            DEF Next, Upgrade, StartInit, RunInit, StartAISetup, RunAISetup, SetupSteps, pvars
  <2>2. ~ Writes \/ p # Head(ai.files)
    <3> SUFFICES ASSUME Writes, p = Head(ai.files) PROVE FALSE
      OBVIOUS
    <3>1. p \in GuidancePaths
      BY <1>1, HeadTailProperties DEF Inv, AiInv
    <3>2. Own(disk[p])
      BY <1>1, <3>1 DEF Inv, DiskInv, Allowed
    <3>3. Edited(ParseManaged(ai.seen))
      BY <3>2, Recognised
    <3>4. ai.action \in {"create", "update"}
      BY DEF Writes
    <3>5. Decided
      BY <1>1 DEF Inv, AiInv
    <3>6. Plain("none").body = "none"
      BY DEF Plain
    <3> QED BY <3>3, <3>4, <3>5, <3>6 DEF Decided
  <2>3. \/ disk' = disk
        \/ Writes /\ \E c : disk' = Written(Head(ai.files), c)
    BY <2>1 DEF SetupStep, NextAssistant, Classify, WriteFile, WriteFails, FilesEnd,
                AssistantsEnd, WritePointer, PointerFails, SetupCrash
  <2> QED BY <2>2, <2>3, WrittenFacts
<1>2. ASSUME Inv, [Next]_pvars PROVE Blamed
  <2> SUFFICES ASSUME ai'.conflicts > ai.conflicts PROVE ai.seen.body \in {"user", "torn"}
    OBVIOUS
  <2>1. ai.conflicts \in Nat /\ DOMAIN ai = DOMAIN NoSetup
    BY <1>2 DEF Inv, AiInv
  <2>2. ~ StartAISetup
    <3>1. ASSUME StartAISetup PROVE ai'.conflicts = 0
      <4>1. ASSUME NEW names, NEW global, StartSetup(names, global) PROVE ai'.conflicts = 0
        BY <4>1 DEF StartSetup, NoSetup
      <4>2. ASSUME NEW e, ai' = [NoSetup EXCEPT !.st = "done", !.exit = e] PROVE ai'.conflicts = 0
        BY <4>2 DEF NoSetup
      <4> QED BY <3>1, <4>1, <4>2 DEF StartAISetup, RunAISetup
    <3> QED BY <2>1, <3>1
  <2>3. SetupStep
    BY <1>2, <2>1, <2>2 DEF Next, User, Upgrade, StartInit, InitSteps, SetupSteps, pvars
  <2>4. ASSUME NEW e, EndSetup(e) PROVE FALSE
    BY <2>1, <2>4 DEF EndSetup, NoSetup
  <2>5. ~ SetupCrash
    <3>1. NoSetup.conflicts = 0
      BY DEF NoSetup
    <3> QED BY <2>1, <3>1 DEF SetupCrash
  <2>6. ~ NextAssistant /\ ~ Classify /\ ~ FilesEnd /\ ~ AssistantsEnd
    <3>1. "conflicts" \in DOMAIN ai
      BY <2>1 DEF NoSetup
    <3>2. ASSUME NEW a, ai' = [ai EXCEPT !.st = a] PROVE FALSE
      BY <2>1, <3>1, <3>2
    <3>3. ASSUME NEW a, NEW b, NEW c, ai' = [ai EXCEPT !.st = a, !.names = b, !.files = c]
          PROVE  FALSE
      BY <2>1, <3>1, <3>3
    <3>4. ASSUME NEW a, NEW b, NEW c, ai' = [ai EXCEPT !.st = a, !.seen = b, !.action = c]
          PROVE  FALSE
      BY <2>1, <3>1, <3>4
    <3>5. ~ NextAssistant
      BY <2>4, <3>3 DEF NextAssistant
    <3>6. ~ Classify
      <4>1. Classify => \E b, c : ai' = [ai EXCEPT !.st = "write", !.seen = b, !.action = c]
        BY Zenon DEF Classify
      <4> QED BY <3>4, <4>1
    <3>7. ~ FilesEnd /\ ~ AssistantsEnd
      BY <3>2 DEF FilesEnd, AssistantsEnd
    <3> QED BY <3>5, <3>6, <3>7
  <2>7. WriteFile
    BY <2>3, <2>4, <2>5, <2>6 DEF SetupStep, WriteFails, WritePointer, PointerFails
  <2>8. ai.action = "conflict" /\ ai.st = "write"
    BY <2>1, <2>7 DEF WriteFile, Advance, NoSetup
  <2>9. Own(ai.seen) /\ Edited(ParseManaged(ai.seen))
    BY <1>2, <2>8 DEF Inv, AiInv, Decided
  <2> QED BY <2>9, Recognised
<1>3. Inv /\ [Next]_pvars => [Spared /\ Blamed]_pvars
  BY <1>1, <1>2
<1> QED BY <1>3, DiskIsSound, PTL DEF Spec, HandEditsKept

-----------------------------------------------------------------------------
(* A setup that succeeds leaves what check calls current *)

\* `pgmi ai check` calls the file current.
Current(p) == /\ p \in DOMAIN disk
              /\ ~ Edited(ParseManaged(disk[p]))
              /\ ParseManaged(disk[p]).body = BodyOf[bin]

\* Assistants the loop has reached, and the files of the last of them that
\* it has not.
Visited == Len(ai.all) - Len(ai.names)
Awaited == {ai.files[i] : i \in 1..Len(ai.files)}

\* The command runs, or has ended with exit 0.
Going == ai.st # "idle" /\ (ai.st = "done" => ai.exit = 0)

Walk ==
    /\ Len(ai.names) <= Len(ai.all)
    /\ \A i \in 1..Len(ai.names) : ai.names[i] = ai.all[Visited + i]
    /\ \A i \in 1..Visited : ai.all[i] \in DOMAIN SkillsRoot(ai.global)
    /\ ai.st \in {"assistant", "pointer", "done"} => ai.files = <<>>
    /\ ai.st \in {"pointer", "done"} => ai.names = <<>>
    /\ ai.st = "done" => ai.conflicts = 0

\* Nobody else at work, no conflict so far: every file the loop has left
\* behind is current, and so is one about to be left as it is.
AllCurrent ==
    /\ bin = ai.ver
    /\ ~ ai.dry /\ ai.conflicts = 0 =>
         \A i \in 1..Visited :
            \A j \in 1..Len(Planned(ai.all[i], ai.global)) :
               \/ Planned(ai.all[i], ai.global)[j] \in Awaited
               \/ Current(Planned(ai.all[i], ai.global)[j])
    /\ ai.st = "write" /\ ai.action = "unchanged" => Current(Head(ai.files))

WalkInv == Going => Walk /\ (quiet => AllCurrent)

LEMMA SeqFacts ==
    ASSUME AiInv
    PROVE  /\ Len(ai.all) \in Nat /\ Len(ai.names) \in Nat
           /\ \A i \in 1..Len(ai.all) : ai.all[i] \in DOMAIN Adapter
BY LenProperties, ElementOfSeq DEF AiInv

\* An assistant's files are guidance files.
LEMMA PlannedIn ==
    ASSUME NEW g \in BOOLEAN, NEW a \in DOMAIN SkillsRoot(g),
           NEW j \in 1..Len(Planned(a, g))
    PROVE  Planned(a, g)[j] \in GuidancePaths
BY PlannedType, ElementOfSeq

\* Nobody but the loop and the user touches a guidance file.
Untouched == \A p \in GuidancePaths :
                /\ p \in DOMAIN disk => p \in DOMAIN disk'
                /\ p \in DOMAIN disk => disk'[p] = disk[p]

LEMMA StillCurrent ==
    ASSUME NEW p \in GuidancePaths, Untouched, bin' = bin, Current(p)
    PROVE  p \in DOMAIN disk' /\ ~ Edited(ParseManaged(disk'[p]))
             /\ ParseManaged(disk'[p]).body = BodyOf[bin']
BY DEF Untouched, Current

\* The other actors keep it.
LEMMA WalkStays ==
    ASSUME WalkInv, AiInv, ai' = ai,
           quiet' => quiet /\ bin' = bin /\ Untouched
    PROVE  WalkInv'
<1> SUFFICES ASSUME Going PROVE Walk' /\ (quiet' => AllCurrent')
  BY DEF WalkInv, Going
<1>1. Walk'
  BY DEF WalkInv, Walk, Visited
<1>2. ASSUME quiet' PROVE AllCurrent'
  <2>1. AllCurrent /\ Walk /\ bin' = bin /\ Untouched /\ ai.global \in BOOLEAN
    BY <1>2 DEF WalkInv, AiInv
  <2>2. ai.st = "write" => Head(ai.files) \in GuidancePaths
    BY HeadTailProperties DEF AiInv
  <2>3. \A i \in 1..Visited : \A j \in 1..Len(Planned(ai.all[i], ai.global)) :
           Planned(ai.all[i], ai.global)[j] \in GuidancePaths
    BY <2>1, PlannedIn DEF Walk
  <2>4. Awaited' = Awaited /\ Visited' = Visited
    BY DEF Awaited, Visited
  <2>5. bin' = ai'.ver
    BY <2>1 DEF AllCurrent
  <2>6. ASSUME ~ ai.dry, ai.conflicts = 0, NEW i \in 1..Visited,
               NEW j \in 1..Len(Planned(ai.all[i], ai.global))
        PROVE  \/ Planned(ai.all[i], ai.global)[j] \in Awaited
               \/ /\ Planned(ai.all[i], ai.global)[j] \in DOMAIN disk'
                  /\ ~ Edited(ParseManaged(disk'[Planned(ai.all[i], ai.global)[j]]))
                  /\ ParseManaged(disk'[Planned(ai.all[i], ai.global)[j]]).body = BodyOf[bin']
    BY <2>1, <2>3, <2>6, StillCurrent DEF AllCurrent
  <2>7. ai.st = "write" /\ ai.action = "unchanged" =>
           /\ Head(ai.files) \in DOMAIN disk'
           /\ ~ Edited(ParseManaged(disk'[Head(ai.files)]))
           /\ ParseManaged(disk'[Head(ai.files)]).body = BodyOf[bin']
    BY <2>1, <2>2, StillCurrent DEF AllCurrent
  <2> QED BY <2>4, <2>5, <2>6, <2>7 DEF AllCurrent, Current
<1> QED BY <1>1, <1>2

\* One assistant more.
LEMMA NextWalks ==
    ASSUME WalkInv, AiInv, NextAssistant, quiet' = quiet
    PROVE  WalkInv'
<1> DEFINE a == Head(ai.names)
<1>1. /\ ai.st = "assistant" /\ ai.names # <<>> /\ Going /\ Walk /\ ai.global \in BOOLEAN
      /\ disk' = disk /\ bin' = bin
  BY DEF NextAssistant, WalkInv, AiInv, Going
<1>2. DOMAIN ai = {"st", "names", "all", "files", "global", "dry", "force", "claudeMd",
                   "ver", "action", "seen", "conflicts", "exit"}
  BY DEF AiInv, NoSetup
<1>3. CASE a \notin DOMAIN SkillsRoot(ai.global)
  <2>1. ai' = [ai EXCEPT !.st = "done", !.exit = 1]
    BY <1>3 DEF NextAssistant, EndSetup
  <2>2. ai'.st = "done" /\ ai'.exit # 0
    BY <1>2, <2>1
  <2> QED BY <2>2 DEF WalkInv, Going
<1>4. CASE a \in DOMAIN SkillsRoot(ai.global)
  <2> DEFINE n == Len(ai.names)
             v == Visited
  <2>1. /\ ai'.st = "classify" /\ ai'.names = Tail(ai.names)
        /\ ai'.files = Planned(a, ai.global) /\ ai'.all = ai.all /\ ai'.global = ai.global
        /\ ai'.dry = ai.dry /\ ai'.conflicts = ai.conflicts /\ ai'.ver = ai.ver
    BY <1>2, <1>4 DEF NextAssistant
  <2>2. /\ n \in Nat \ {0} /\ Len(Tail(ai.names)) = n - 1 /\ a = ai.names[1]
        /\ \A i \in 1..(n - 1) : Tail(ai.names)[i] = ai.names[i + 1]
    BY <1>1, HeadTailProperties, EmptySeq, LenProperties DEF AiInv
  <2>3. Len(ai.all) \in Nat /\ n <= Len(ai.all) /\ v = Len(ai.all) - n
    BY <1>1, SeqFacts DEF Walk, Visited
  <2>4. Visited' = v + 1 /\ v \in Nat
    <3> DEFINE l == Len(ai.all)
    <3>1. Visited' = l - (n - 1)
      BY <2>1, <2>2 DEF Visited
    <3> HIDE DEF n, l, v
    <3>2. l \in Nat /\ n \in Nat /\ n <= l /\ v = l - n
      BY <2>2, <2>3 DEF l
    <3> QED BY <3>1, <3>2
  <2>5. ai.all[v + 1] = a
    <3>1. 1 \in 1..n
      BY <2>2
    <3> QED BY <1>1, <2>2, <3>1 DEF Walk
  <2>6. \A i \in 1..(n - 1) : Tail(ai.names)[i] = ai.all[(v + 1) + i]
    <3>1. TAKE i \in 1..(n - 1)
    <3> HIDE DEF n, v
    <3>2. i + 1 \in 1..n /\ v + (i + 1) = (v + 1) + i
      BY <2>2, <2>4
    <3> QED BY <1>1, <2>2, <3>2 DEF Walk, n, v
  <2>7. \A i \in 1..(v + 1) : i \in 1..v \/ i = v + 1
    BY <2>2, <2>3
  <2>8. Walk'
    <3>1. \A i \in 1..Visited' : ai'.all[i] \in DOMAIN SkillsRoot(ai'.global)
      BY <1>1, <1>4, <2>1, <2>4, <2>5, <2>7 DEF Walk
    <3>2. Len(ai'.names) <= Len(ai'.all)
      BY <2>1, <2>2, <2>3
    <3>3. \A i \in 1..Len(ai'.names) : ai'.names[i] = ai'.all[Visited' + i]
      BY <2>1, <2>2, <2>4, <2>6
    <3> QED BY <2>1, <3>1, <3>2, <3>3 DEF Walk
  <2>9. ASSUME quiet PROVE AllCurrent'
    <3>1. AllCurrent /\ Awaited = {}
      <4>1. ai.files = <<>>
        BY <1>1 DEF Walk
      <4> QED BY <1>1, <2>9, <4>1 DEF WalkInv, Awaited
    <3>2. \A j \in 1..Len(Planned(a, ai.global)) : Planned(a, ai.global)[j] \in Awaited'
      BY <2>1 DEF Awaited
    <3>3. \A p : Current(p) => Current(p)'
      BY <1>1 DEF Current
    <3>4. ASSUME ~ ai.dry, ai.conflicts = 0, NEW i \in 1..(v + 1),
                 NEW j \in 1..Len(Planned(ai.all[i], ai.global))
          PROVE  \/ Planned(ai.all[i], ai.global)[j] \in Awaited'
                 \/ \E p : p = Planned(ai.all[i], ai.global)[j] /\ Current(p)'
      BY <2>5, <2>7, <3>1, <3>2, <3>3, <3>4 DEF AllCurrent
    <3> QED BY <1>1, <2>1, <2>4, <3>1, <3>4 DEF AllCurrent, Current
  <2> QED BY <2>8, <2>9 DEF WalkInv
<1> QED BY <1>3, <1>4

\* Reading a file.
LEMMA ClassifyWalks ==
    ASSUME WalkInv, AiInv, Classify, quiet' = quiet
    PROVE  WalkInv'
<1> DEFINE h == Head(ai.files)
           r == RenderManaged(BodyOf[ai.ver], ai.ver)
<1>1. /\ ai.st = "classify" /\ Going /\ Walk /\ disk' = disk /\ bin' = bin
  BY DEF Classify, WalkInv, Going
<1>2. DOMAIN ai = {"st", "names", "all", "files", "global", "dry", "force", "claudeMd",
                   "ver", "action", "seen", "conflicts", "exit"}
  BY DEF AiInv, NoSetup
<1>3. PICK s, x : ai' = [ai EXCEPT !.st = "write", !.seen = s, !.action = x]
  BY Zenon DEF Classify
<1>4. /\ ai'.st = "write" /\ ai'.names = ai.names /\ ai'.files = ai.files
      /\ ai'.all = ai.all /\ ai'.global = ai.global /\ ai'.dry = ai.dry
      /\ ai'.conflicts = ai.conflicts /\ ai'.ver = ai.ver
  BY <1>2, <1>3
<1>5. ai'.action = "unchanged" =>
         /\ h \in DOMAIN disk /\ ~ Edited(ParseManaged(disk[h]))
         /\ ParseManaged(disk[h]).body = BodyOf[ai.ver]
  <2>1. ParseManaged(r).body = BodyOf[ai.ver]
    BY DEF ParseManaged, RenderManaged
  <2>2. ai'.action = IF Exists(h) THEN ClassifyFile(disk[h], r) ELSE "create"
    BY <1>2 DEF Classify
  <2> HIDE DEF r, h
  <2>3. ASSUME ai'.action = "unchanged"
        PROVE  Exists(h) /\ ClassifyFile(disk[h], r) = "unchanged"
    BY <2>2, <2>3
  <2> QED BY <2>1, <2>3 DEF ClassifyFile, Exists
<1>6. Walk'
  BY <1>1, <1>4 DEF Walk, Visited
<1>7. ASSUME quiet PROVE AllCurrent'
  <2>1. AllCurrent
    BY <1>1, <1>7 DEF WalkInv
  <2>2. Visited' = Visited /\ Awaited' = Awaited
    BY <1>4 DEF Visited, Awaited
  <2>3. \A p : Current(p) => Current(p)'
    BY <1>1 DEF Current
  <2>4. ai'.action = "unchanged" => \E p : p = h /\ Current(p)'
    BY <1>1, <1>5, <2>1 DEF AllCurrent, Current
  <2>5. ASSUME ~ ai.dry, ai.conflicts = 0, NEW i \in 1..Visited,
               NEW j \in 1..Len(Planned(ai.all[i], ai.global))
        PROVE  \/ Planned(ai.all[i], ai.global)[j] \in Awaited'
               \/ \E p : p = Planned(ai.all[i], ai.global)[j] /\ Current(p)'
    BY <2>1, <2>2, <2>3, <2>5 DEF AllCurrent
  <2> QED BY <1>1, <1>4, <2>1, <2>2, <2>4, <2>5 DEF AllCurrent, Current
<1> QED BY <1>6, <1>7 DEF WalkInv

\* Acting on the decision.
LEMMA WriteWalks ==
    ASSUME WalkInv, AiInv, WriteFile, quiet' = quiet
    PROVE  WalkInv'
<1> DEFINE h == Head(ai.files)
           r == RenderManaged(BodyOf[ai.ver], ai.ver)
           x == IF ai.action = "conflict" /\ ~ ai.force THEN 1 ELSE 0
<1>1. /\ ai.st = "write" /\ Going /\ Walk /\ bin' = bin /\ ai.files # <<>> /\ Decided
      /\ ai.global \in BOOLEAN
  BY DEF WriteFile, WalkInv, Going, AiInv
<1>2. DOMAIN ai = {"st", "names", "all", "files", "global", "dry", "force", "claudeMd",
                   "ver", "action", "seen", "conflicts", "exit"}
  BY DEF AiInv, NoSetup
<1>3. /\ ai'.st = "classify" /\ ai'.names = ai.names /\ ai'.files = Tail(ai.files)
      /\ ai'.all = ai.all /\ ai'.global = ai.global /\ ai'.dry = ai.dry
      /\ ai'.conflicts = ai.conflicts + x /\ ai'.ver = ai.ver
  BY <1>2 DEF WriteFile, Advance
<1>4. /\ h \in GuidancePaths /\ ai.files \in Seq(GuidancePaths)
      /\ Len(ai.files) \in Nat \ {0} /\ h = ai.files[1]
      /\ Len(Tail(ai.files)) = Len(ai.files) - 1
      /\ \A i \in 1..(Len(ai.files) - 1) : Tail(ai.files)[i] = ai.files[i + 1]
  BY <1>1, HeadTailProperties, EmptySeq, LenProperties DEF AiInv
<1>5. \A p \in Awaited : p = h \/ p \in Awaited'
  <2>1. TAKE p \in Awaited
  <2> DEFINE m == Len(ai.files)
  <2>2. PICK i \in 1..m : p = ai.files[i]
    BY DEF Awaited
  <2>3. CASE i = 1
    BY <1>4, <2>2, <2>3
  <2>4. CASE i # 1
    <3>1. i - 1 \in 1..(m - 1) /\ (i - 1) + 1 = i
      <4>1. m \in Nat /\ i \in 1..m
        BY <1>4
      <4> HIDE DEF m
      <4> QED BY <2>4, <4>1
    <3>2. p = Tail(ai.files)[i - 1] /\ i - 1 \in 1..Len(Tail(ai.files))
      BY <1>4, <2>2, <3>1
    <3> QED BY <1>3, <3>2 DEF Awaited
  <2> QED BY <2>3, <2>4
<1>6. Walk'
  BY <1>1, <1>3 DEF Walk, Visited
<1>7. ASSUME quiet PROVE AllCurrent'
  <2>1. AllCurrent
    BY <1>1, <1>7 DEF WalkInv
  <2>2. Visited' = Visited
    BY <1>3 DEF Visited
  <2>3. \A i \in 1..Visited : \A j \in 1..Len(Planned(ai.all[i], ai.global)) :
           Planned(ai.all[i], ai.global)[j] \in GuidancePaths
    BY <1>1, PlannedIn DEF Walk
  <2>4. ASSUME ~ ai.dry, ai.conflicts + x = 0
        PROVE  /\ ai.conflicts = 0
               /\ \A p : Current(p) => Current(p)'
               /\ \E p : p = h /\ Current(p)'
    <3>1. ai.conflicts = 0 /\ x = 0
      BY <2>4 DEF AiInv
    <3>2. CASE Writes
      <4>1. disk' = Written(h, r)
        BY <2>4, <3>2 DEF WriteFile
      <4>2. ~ Edited(ParseManaged(r)) /\ ParseManaged(r).body = BodyOf[ai.ver]
        <5>1. DOMAIN NoStamp = {}
          BY DEF NoStamp
        <5>2. /\ ParseManaged(r).body = BodyOf[ai.ver] /\ ParseManaged(r).crlf = FALSE
              /\ ParseManaged(r).stamp = [version |-> ai.ver, sum |-> Checksum(BodyOf[ai.ver], ai.ver)]
          BY DEF ParseManaged, RenderManaged
        <5>3. DOMAIN ParseManaged(r).stamp = {"version", "sum"}
          BY <5>2
        <5> HIDE DEF r
        <5> QED BY <5>1, <5>2, <5>3 DEF Edited
      <4>3. /\ DOMAIN disk' = DOMAIN disk \cup {h} /\ disk'[h] = r
            /\ \A q \in DOMAIN disk : q # h => disk'[q] = disk[q]
        BY <4>1, WrittenFacts
      <4>4. bin' = ai.ver /\ bin = ai.ver
        BY <1>1, <2>1 DEF AllCurrent
      <4> HIDE DEF r, h
      <4>5. \E p : p = h /\ Current(p)'
        BY <4>2, <4>3, <4>4 DEF Current
      <4>6. \A p : Current(p) => Current(p)'
        BY <4>2, <4>3, <4>4 DEF Current
      <4> QED BY <3>1, <4>5, <4>6
    <3>3. CASE ~ Writes
      <4>1. disk' = disk /\ ai.action = "unchanged"
        BY <1>1, <3>1, <3>3 DEF WriteFile, Writes, Decided
      <4>2. Current(h)
        BY <1>1, <2>1, <4>1 DEF AllCurrent
      <4>3. \A p : Current(p) => Current(p)'
        BY <1>1, <4>1 DEF Current
      <4> QED BY <3>1, <4>2, <4>3
    <3> QED BY <3>2, <3>3
  <2>5. ASSUME ~ ai.dry, ai.conflicts + x = 0, NEW i \in 1..Visited,
               NEW j \in 1..Len(Planned(ai.all[i], ai.global))
        PROVE  \/ Planned(ai.all[i], ai.global)[j] \in Awaited'
               \/ \E p : p = Planned(ai.all[i], ai.global)[j] /\ Current(p)'
    <3> HIDE DEF h, x
    <3> QED BY <1>5, <2>1, <2>4, <2>5 DEF AllCurrent
  <2> HIDE DEF x
  <2> QED BY <1>1, <1>3, <2>1, <2>2, <2>5 DEF AllCurrent, Current
<1> QED BY <1>6, <1>7 DEF WalkInv

\* The ends of the loops and of the command.
LEMMA EndWalks ==
    ASSUME WalkInv, AiInv, quiet' = quiet,
           WriteFails \/ FilesEnd \/ AssistantsEnd \/ WritePointer \/ PointerFails \/ SetupCrash
    PROVE  WalkInv'
<1>1. DOMAIN ai = {"st", "names", "all", "files", "global", "dry", "force", "claudeMd",
                   "ver", "action", "seen", "conflicts", "exit"}
  BY DEF AiInv, NoSetup
<1>2. CASE EndSetup(1) \/ ai' = NoSetup
  <2>1. ~ Going'
    <3>1. NoSetup.st = "idle"
      BY DEF NoSetup
    <3>2. CASE EndSetup(1)
      <4>1. ai'.st = "done" /\ ai'.exit = 1
        BY <1>1, <3>2 DEF EndSetup
      <4> QED BY <4>1 DEF Going
    <3>3. CASE ai' = NoSetup
      BY <3>1, <3>3 DEF Going
    <3> QED BY <1>2, <3>2, <3>3
  <2> QED BY <2>1 DEF WalkInv
<1>3. CASE FilesEnd \/ AssistantsEnd
  <2>1. /\ Going /\ Walk /\ disk' = disk /\ bin' = bin
        /\ ai'.names = ai.names /\ ai'.files = ai.files
        /\ ai'.all = ai.all /\ ai'.global = ai.global /\ ai'.dry = ai.dry
        /\ ai'.conflicts = ai.conflicts /\ ai'.ver = ai.ver
    BY <1>1, <1>3 DEF FilesEnd, AssistantsEnd, WalkInv, Going
  <2>2. \/ ai'.st = "assistant" /\ ai.files = <<>>
        \/ ai'.st = "pointer" /\ ai.files = <<>> /\ ai.names = <<>>
    BY <1>1, <1>3, <2>1 DEF FilesEnd, AssistantsEnd, Walk
  <2>3. Walk'
    BY <2>1, <2>2 DEF Walk, Visited
  <2>4. ASSUME quiet PROVE AllCurrent'
    <3>1. AllCurrent
      BY <2>1, <2>4 DEF WalkInv
    <3>2. CASE ai'.st = "assistant" /\ ai.files = <<>>
      BY <2>1, <3>1, <3>2 DEF AllCurrent, Current, Visited, Awaited
    <3>3. CASE ai'.st = "pointer" /\ ai.files = <<>> /\ ai.names = <<>>
      BY <2>1, <3>1, <3>3 DEF AllCurrent, Current, Visited, Awaited
    <3> QED BY <2>2, <3>2, <3>3
  <2> QED BY <2>3, <2>4 DEF WalkInv
<1>4. CASE WritePointer
  <2>1. ai' = [ai EXCEPT !.st = "done", !.exit = IF ai.conflicts > 0 THEN 1 ELSE 0]
    BY <1>4 DEF WritePointer, EndSetup
  <2>2. /\ Going /\ Walk /\ bin' = bin /\ ai'.st = "done"
        /\ ai'.names = ai.names /\ ai'.files = ai.files
        /\ ai'.all = ai.all /\ ai'.global = ai.global /\ ai'.dry = ai.dry
        /\ ai'.conflicts = ai.conflicts /\ ai'.ver = ai.ver
        /\ ai.files = <<>> /\ ai.names = <<>>
        /\ ai'.exit = IF ai.conflicts > 0 THEN 1 ELSE 0
    BY <1>1, <1>4, <2>1 DEF WritePointer, WalkInv, Going, Walk
  <2>3. SUFFICES ASSUME ai'.exit = 0 PROVE WalkInv'
    BY <2>2 DEF WalkInv, Going
  <2>4. ai.conflicts = 0
    BY <2>2, <2>3 DEF AiInv
  <2>5. Walk'
    BY <2>2, <2>4 DEF Walk, Visited
  <2>6. ASSUME quiet PROVE AllCurrent'
    <3>1. Untouched
      <4>1. disk' = disk \/ \E c : disk' = Written(ClaudeMd, c)
        BY <1>4 DEF WritePointer
      <4>2. ClaudeMd \notin GuidancePaths
        BY Apart
      <4> QED BY <4>1, <4>2, WrittenFacts DEF Untouched
    <3>2. AllCurrent /\ ai.global \in BOOLEAN
      BY <2>2, <2>6 DEF WalkInv, AiInv
    <3>3. \A i \in 1..Visited : \A j \in 1..Len(Planned(ai.all[i], ai.global)) :
             Planned(ai.all[i], ai.global)[j] \in GuidancePaths
      BY <2>2, <3>2, PlannedIn DEF Walk
    <3>4. \A p \in GuidancePaths : Current(p) => Current(p)'
      BY <2>2, <3>1, StillCurrent DEF Current
    <3>5. Visited' = Visited /\ Awaited' = Awaited
      BY <2>2 DEF Visited, Awaited
    <3>6. ASSUME ~ ai.dry, ai.conflicts = 0, NEW i \in 1..Visited,
                 NEW j \in 1..Len(Planned(ai.all[i], ai.global))
          PROVE  \/ Planned(ai.all[i], ai.global)[j] \in Awaited
                 \/ \E p : p = Planned(ai.all[i], ai.global)[j] /\ Current(p)'
      BY <3>2, <3>3, <3>4, <3>6 DEF AllCurrent
    <3> QED BY <2>2, <3>2, <3>5, <3>6 DEF AllCurrent, Current
  <2> QED BY <2>5, <2>6 DEF WalkInv
<1> QED BY <1>2, <1>3, <1>4 DEF WriteFails, PointerFails, SetupCrash

\* A command starts with all its assistants before it, or ends at once.
LEMMA StartWalks ==
    ASSUME AiInv, RunAISetup
    PROVE  WalkInv'
<1>1. ASSUME NEW e \in {1, 2}, ai' = [NoSetup EXCEPT !.st = "done", !.exit = e]
      PROVE  WalkInv'
  <2>1. ai'.st = "done" /\ ai'.exit # 0
    BY <1>1 DEF NoSetup
  <2> QED BY <2>1 DEF WalkInv, Going
<1>2. ASSUME NEW names \in Seq(DOMAIN Adapter), NEW global \in BOOLEAN, StartSetup(names, global)
      PROVE  WalkInv'
  <2>1. /\ ai'.st = "assistant" /\ ai'.ver = bin /\ ai'.names = names /\ ai'.all = names
        /\ ai'.files = <<>>
    BY <1>2 DEF StartSetup, NoSetup
  <2>2. Len(names) \in Nat /\ bin' = bin
    BY LenProperties DEF RunAISetup
  <2>3. Visited' = 0
    BY <2>1, <2>2 DEF Visited
  <2>4. Walk'
    <3>1. \A i \in 1..Len(names) : names[i] = names[0 + i]
      BY <2>2
    <3>2. ~ \E i \in 1..0 : TRUE
      OBVIOUS
    <3> QED BY <2>1, <2>2, <2>3, <3>1, <3>2 DEF Walk
  <2>5. AllCurrent'
    <3>1. ~ \E i \in 1..0 : TRUE
      OBVIOUS
    <3> QED BY <2>1, <2>2, <2>3, <3>1 DEF AllCurrent
  <2> QED BY <2>4, <2>5 DEF WalkInv
<1>3. <<"claude">> \in Seq(DOMAIN Adapter)
  <2>1. "claude" \in DOMAIN Adapter
    BY DEF Adapter, SkillAdapters
  <2> QED BY <2>1
<1>4. \A name \in DOMAIN Adapter : <<name>> \in Seq(DOMAIN Adapter)
  OBVIOUS
<1> QED BY <1>1, <1>2, <1>3, <1>4, CanonicalAssumption DEF RunAISetup

LEMMA WalkNext ==
    Inv /\ WalkInv /\ [Next]_pvars => WalkInv'
<1> SUFFICES ASSUME Inv, WalkInv, [Next]_pvars PROVE WalkInv'
  OBVIOUS
<1> USE DEF Inv
<1>1. disk' = disk => Untouched
  BY DEF Untouched
<1>2. CASE User
  BY <1>2, WalkStays DEF User
<1>3. CASE Upgrade
  BY <1>3, WalkStays DEF Upgrade
<1>4. CASE StartInit
  BY <1>1, <1>4, WalkStays DEF StartInit, RunInit
<1>5. CASE StartAISetup
  BY <1>5, StartWalks DEF StartAISetup
<1>6. CASE InitSteps
  <2>1. Untouched
    <3>1. \/ disk' = disk
          \/ \E p \in TemplateFiles \cup {Yaml} : \E c : disk' = Written(p, c)
      BY <1>6, InitWrites DEF InitSteps
    <3>2. \A p \in TemplateFiles \cup {Yaml} : p \notin GuidancePaths
      BY Apart
    <3> QED BY <1>1, <3>1, <3>2, WrittenFacts DEF Untouched
  <2> QED BY <1>6, <2>1, WalkStays DEF InitSteps
<1>7. CASE SetupSteps
  BY <1>7, NextWalks, ClassifyWalks, WriteWalks, EndWalks DEF SetupSteps, SetupStep
<1>8. CASE UNCHANGED pvars
  BY <1>1, <1>8, WalkStays DEF pvars
<1> QED BY <1>2, <1>3, <1>4, <1>5, <1>6, <1>7, <1>8 DEF Next

\* After a setup that exits 0, and while nobody else touches the files, check
\* calls every file it was asked for current, whatever other versions of pgmi
\* had written there before (runAISetup, runAICheck).
THEOREM ThenCurrent ==
    Spec => []SetupThenCurrent
<1>1. Init => WalkInv
  <2>1. NoSetup.st = "idle"
    BY DEF NoSetup
  <2> QED BY <2>1 DEF Init, WalkInv, Going
<1>2. Inv /\ WalkInv => SetupThenCurrent
  <2> SUFFICES ASSUME Inv, WalkInv, ai.st = "done", ai.exit = 0, ~ ai.dry, quiet,
                      NEW i \in 1..Len(ai.all)
               PROVE  CheckExit(ai.all[i], ai.global) = 0
    BY DEF SetupThenCurrent
  <2> DEFINE a == ai.all[i]
  <2>1. Going /\ Walk /\ AllCurrent
    BY DEF WalkInv, Going
  <2>2. ai.names = <<>> /\ ai.files = <<>> /\ ai.conflicts = 0
    BY <2>1 DEF Walk
  <2>3. Visited = Len(ai.all) /\ Awaited = {}
    BY <2>2, SeqFacts DEF Visited, Awaited, Inv
  <2>4. a \in DOMAIN SkillsRoot(ai.global) /\ a \in DOMAIN Adapter
    BY <2>1, <2>3, SeqFacts DEF Walk, Inv
  <2>5. \A j \in 1..Len(Planned(a, ai.global)) : Current(Planned(a, ai.global)[j])
    BY <2>1, <2>2, <2>3 DEF AllCurrent
  <2>6. \A p : Current(p) => CheckFile(p) = "current"
    BY DEF Current, CheckFile, Exists
  <2> HIDE DEF a
  <2> QED BY <2>4, <2>5, <2>6 DEF CheckExit, a
<1> QED BY <1>1, <1>2, WalkNext, DiskIsSound, PTL DEF Spec

-----------------------------------------------------------------------------
(* The pointer in CLAUDE.md *)

\* FirstAt finds the first line of its kind, or there is none.
LEMMA FirstAtIs ==
    ASSUME NEW s, NEW l, NEW from \in Nat, NEW i \in from..Len(s), Len(s) \in Nat,
           s[i] = l, \A j \in from..(i - 1) : s[j] # l
    PROVE  FirstAt(s, l, from) = i
<1> DEFINE P(k) == s[k] = l /\ \A j \in from..(k - 1) : s[j] # l
           c == CHOOSE k \in from..Len(s) : P(k)
<1>1. c \in from..Len(s) /\ P(c)
  OBVIOUS
<1>2. c = i
  BY <1>1
<1>3. FirstAt(s, l, from) = c
  BY DEF FirstAt
<1> QED BY <1>2, <1>3

LEMMA FirstAtNone ==
    ASSUME NEW s, NEW l, NEW from \in Nat, Len(s) \in Nat,
           \A i \in from..Len(s) : s[i] # l
    PROVE  FirstAt(s, l, from) = 0
BY DEF FirstAt

LEMMA FirstAtExists ==
    ASSUME NEW s, NEW l, NEW from \in Nat \ {0}, Len(s) \in Nat
    PROVE  LET i == FirstAt(s, l, from)
           IN  \/ i = 0 /\ \A j \in from..Len(s) : s[j] # l
               \/ /\ i \in from..Len(s) /\ s[i] = l
                  /\ \A j \in from..(i - 1) : s[j] # l
<1> DEFINE S == {i \in from..Len(s) : s[i] = l}
<1>1. CASE S = {}
  BY <1>1, FirstAtNone
<1>2. CASE S # {}
  <2>1. S \subseteq Nat
    OBVIOUS
  <2>2. PICK i \in S : \A j \in S : ~ (<<j, i>> \in OpToRel(<, Nat))
    BY <1>2, <2>1, NatLessThanWellFounded, WFMin
  <2>3. \A j \in S : ~ (j < i)
    BY <2>1, <2>2 DEF OpToRel
  <2>4. i \in from..Len(s) /\ s[i] = l /\ \A j \in from..(i - 1) : s[j] # l
    BY <2>3
  <2>5. FirstAt(s, l, from) = i
    BY <2>4, FirstAtIs
  <2> QED BY <2>4, <2>5
<1> QED BY <1>1, <1>2

\* u is the block between p and t, line by line.
Around(u, p, t) ==
    /\ Len(u) = Len(p) + 3 + Len(t)
    /\ \A i \in 1..Len(p) : u[i] = p[i]
    /\ u[Len(p) + 1] = "begin" /\ u[Len(p) + 2] = "pointer" /\ u[Len(p) + 3] = "end"
    /\ \A i \in 1..Len(t) : u[Len(p) + 3 + i] = t[i]

LEMMA BlockLines ==
    ASSUME NEW S, {"begin", "pointer", "end"} \subseteq S,
           NEW p \in Seq(S), NEW t \in Seq(S)
    PROVE  p \o Block \o t \in Seq(S) /\ Around(p \o Block \o t, p, t)
<1> DEFINE n == Len(p)
           m == Len(t)
           B == Block
           q == p \o B
           u == q \o t
<1>1. B \in Seq(S) /\ Len(B) = 3 /\ B[1] = "begin" /\ B[2] = "pointer" /\ B[3] = "end"
  BY DEF Block
<1>2. n \in Nat /\ m \in Nat
  BY LenProperties
<1> HIDE DEF B
<1>3. /\ q \in Seq(S) /\ Len(q) = n + Len(B)
      /\ \A i \in 1..(n + Len(B)) : q[i] = IF i <= n THEN p[i] ELSE B[i - n]
  BY <1>1, ConcatProperties
<1> HIDE DEF q
<1>4. /\ u \in Seq(S) /\ Len(u) = Len(q) + m
      /\ \A i \in 1..(Len(q) + m) : u[i] = IF i <= Len(q) THEN q[i] ELSE t[i - Len(q)]
  <2>1. q \in Seq(S)
    BY <1>3
  <2> QED BY ONLY <2>1, t \in Seq(S), ConcatProperties
<1> HIDE DEF u, n, m
<1>5. Len(q) = n + 3 /\ Len(u) = n + 3 + m
  BY <1>1, <1>3, <1>4
<1>6. \A i \in 1..n : u[i] = p[i]
  BY <1>2, <1>1, <1>3, <1>4, <1>5
<1>7. \A k \in 1..3 : u[n + k] = B[k]
  <2>1. TAKE k \in 1..3
  <2>2. n + k \in 1..(n + 3) /\ ~ (n + k <= n) /\ (n + k) - n = k /\ n + k \in 1..(n + 3 + m)
        /\ n + k <= n + 3
    BY <1>2
  <2>3. q[n + k] = B[k]
    BY <1>1, <1>3, <2>2
  <2> QED BY <1>4, <1>5, <2>2, <2>3
<1>8. \A i \in 1..m : u[n + 3 + i] = t[i]
  <2>1. TAKE i \in 1..m
  <2>2. n + 3 + i \in 1..(n + 3 + m) /\ ~ (n + 3 + i <= n + 3) /\ (n + 3 + i) - (n + 3) = i
    BY <1>2
  <2> QED BY <1>4, <1>5, <2>2
<1> QED BY <1>1, <1>4, <1>5, <1>6, <1>7, <1>8 DEF Around, u, q, n, m, B

\* Where the block is found again, and what is around it.
LEMMA BlockFound ==
    ASSUME NEW S, NEW p \in Seq(S), NEW t \in Seq(S), NEW u \in Seq(S), Around(u, p, t),
           \A i \in 1..Len(p) : p[i] # "begin"
    PROVE  /\ FirstAt(u, "begin", 1) = Len(p) + 1
           /\ FirstAt(u, "end", Len(p) + 1) = Len(p) + 3
           /\ SubSeq(u, 1, Len(p)) = p
           /\ SubSeq(u, Len(p) + 4, Len(u)) = t
<1> DEFINE n == Len(p)
           m == Len(t)
<1>1. /\ n \in Nat /\ m \in Nat /\ n = Len(p) /\ m = Len(t) /\ Len(u) = n + 3 + m
      /\ \A i \in 1..n : u[i] = p[i] /\ p[i] # "begin"
      /\ u[n + 1] = "begin" /\ u[n + 2] = "pointer" /\ u[n + 3] = "end"
      /\ \A i \in 1..m : u[n + 3 + i] = t[i]
  BY LenProperties DEF Around
<1> HIDE DEF n, m
<1>2. FirstAt(u, "begin", 1) = n + 1
  <2>1. n + 1 \in 1..Len(u) /\ \A j \in 1..((n + 1) - 1) : u[j] # "begin"
    BY <1>1
  <2>2. 1 \in Nat /\ Len(u) \in Nat
    BY <1>1
  <2>3. n + 1 \in 1..Len(u) /\ u[n + 1] = "begin"
    BY <1>1
  <2> QED BY ONLY <2>1, <2>2, <2>3, FirstAtIs
<1>3. FirstAt(u, "end", n + 1) = n + 3
  <2>1. n + 3 \in (n + 1)..Len(u)
    BY <1>1
  <2>2. n + 1 \in Nat /\ Len(u) \in Nat
    BY <1>1
  <2>3. \A j \in (n + 1)..((n + 3) - 1) : u[j] # "end"
    <3>1. TAKE j \in (n + 1)..((n + 3) - 1)
    <3>2. j = n + 1 \/ j = n + 2
      BY <1>1
    <3> QED BY <1>1, <3>2
  <2> QED BY ONLY <2>1, <2>2, <2>3, <1>1, FirstAtIs
<1>4. SubSeq(u, 1, n) = p
  <2>1. \A i \in 1..n : u[i] \in S
    BY <1>1, ElementOfSeq
  <2>2. 1 \in Int /\ n \in Int
    BY <1>1
  <2>3. /\ SubSeq(u, 1, n) \in Seq(S)
        /\ Len(SubSeq(u, 1, n)) = IF 1 <= n THEN n - 1 + 1 ELSE 0
        /\ \A i \in 1..(n - 1 + 1) : SubSeq(u, 1, n)[i] = u[1 + i - 1]
    BY ONLY <2>1, <2>2, SubSeqProperties
  <2> DEFINE v == SubSeq(u, 1, n)
  <2> HIDE DEF v
  <2>4. v \in Seq(S) /\ Len(v) = Len(p) /\ \A i \in 1..Len(v) : v[i] = p[i]
    BY <1>1, <2>3 DEF v
  <2>5. v = p
    BY <2>4, SeqEqual
  <2> QED BY <2>5 DEF v
<1>5. SubSeq(u, n + 4, Len(u)) = t
  <2> DEFINE a == n + 4
             z == Len(u)
             v == SubSeq(u, a, z)
  <2>1. \A i \in a..z : u[i] \in S
    <3>1. \A i \in a..z : i \in 1..Len(u)
      BY <1>1
    <3> QED BY <3>1, ElementOfSeq
  <2>2. a \in Int /\ z \in Int /\ z = n + 3 + m
    BY <1>1
  <2> HIDE DEF a, z
  <2>3. /\ v \in Seq(S)
        /\ Len(v) = IF a <= z THEN z - a + 1 ELSE 0
        /\ \A i \in 1..(z - a + 1) : v[i] = u[a + i - 1]
    BY ONLY <2>1, <2>2, SubSeqProperties
  <2> HIDE DEF v
  <2>4. Len(v) = m
    BY <1>1, <2>2, <2>3 DEF a
  <2>5. \A i \in 1..m : v[i] = t[i]
    <3>1. TAKE i \in 1..m
    <3>2. i \in 1..(z - a + 1) /\ a + i - 1 = n + 3 + i
      BY <1>1, <2>2 DEF a
    <3>3. v[i] = u[a + i - 1]
      BY <2>3, <3>2
    <3>4. u[n + 3 + i] = t[i]
      BY <1>1
    <3> QED BY <3>2, <3>3, <3>4
  <2>6. v = t
    BY <1>1, <2>3, <2>4, <2>5, SeqEqual
  <2> QED BY <2>6 DEF v, a, z
<1> QED BY <1>2, <1>3, <1>4, <1>5 DEF n

\* What is around the block is what was around it, and replacing the block
\* changes nothing.
LEMMA BlockStays ==
    ASSUME NEW S, {"begin", "pointer", "end"} \subseteq S,
           NEW p \in Seq(S), NEW t \in Seq(S),
           \A i \in 1..Len(p) : p[i] # "begin"
    PROVE  LET u == p \o Block \o t
           IN  u \in Seq(S) /\ Outside(u) = p \o t /\ UpsertPointer(u) = u
<1> DEFINE u == p \o Block \o t
           n == Len(p)
<1>1. n \in Nat
  BY LenProperties
<1>2. u \in Seq(S) /\ Around(u, p, t)
  BY BlockLines
<1> HIDE DEF u
<1>3. /\ FirstAt(u, "begin", 1) = n + 1 /\ FirstAt(u, "end", n + 1) = n + 3
      /\ SubSeq(u, 1, n) = p /\ SubSeq(u, n + 4, Len(u)) = t
  BY <1>2, BlockFound
<1>4. (n + 1) - 1 = n /\ (n + 3) + 1 = n + 4 /\ n + 1 # 0 /\ n + 3 # 0
  BY <1>1
<1> HIDE DEF n
<1>5. Outside(u) = p \o t
  BY <1>3, <1>4 DEF Outside
<1>6. UpsertPointer(u) = p \o Block \o t
  BY <1>3, <1>4 DEF UpsertPointer, ReplaceBlock
<1> QED BY <1>2, <1>5, <1>6 DEF u

\* What upsertClaudeMdPointer does to any text.
LEMMA PointerLaw ==
    ASSUME NEW S, {"begin", "pointer", "end"} \subseteq S, NEW s \in Seq(S)
    PROVE  /\ UpsertPointer(s) \in Seq(S)
           /\ Outside(UpsertPointer(s)) = Outside(s)
           /\ UpsertPointer(UpsertPointer(s)) = UpsertPointer(s)
<1> DEFINE b == FirstAt(s, "begin", 1)
           e == FirstAt(s, "end", b)
<1>1. Len(s) \in Nat /\ Block \in Seq(S) /\ <<>> \in Seq(S)
  BY LenProperties DEF Block
<1>2. \/ b = 0 /\ \A j \in 1..Len(s) : s[j] # "begin"
      \/ b \in 1..Len(s) /\ \A j \in 1..(b - 1) : s[j] # "begin"
  BY <1>1, FirstAtExists
<1>3. SUFFICES \E p, t \in Seq(S) :
                  /\ \A i \in 1..Len(p) : p[i] # "begin"
                  /\ UpsertPointer(s) = p \o Block \o t
                  /\ Outside(s) = p \o t
  <2>1. ASSUME NEW p \in Seq(S), NEW t \in Seq(S),
               \A i \in 1..Len(p) : p[i] # "begin",
               UpsertPointer(s) = p \o Block \o t, Outside(s) = p \o t
        PROVE  /\ UpsertPointer(s) \in Seq(S)
               /\ Outside(UpsertPointer(s)) = Outside(s)
               /\ UpsertPointer(UpsertPointer(s)) = UpsertPointer(s)
    <3> DEFINE u == p \o Block \o t
    <3>1. u \in Seq(S) /\ Outside(u) = p \o t /\ UpsertPointer(u) = u
      BY <2>1, BlockStays
    <3> HIDE DEF u
    <3>2. UpsertPointer(s) = u
      BY <2>1 DEF u
    <3> QED BY <2>1, <3>1, <3>2
  <2> QED BY <2>1
<1>4. CASE b = 0 /\ \A j \in 1..Len(s) : s[j] # "begin"
  <2>1. /\ UpsertPointer(s) = s \o Block /\ Outside(s) = s
    BY <1>4 DEF UpsertPointer, Outside
  <2>2. s \o Block \in Seq(S)
    BY <1>1, ConcatProperties
  <2>3. (s \o Block) \o <<>> = s \o Block /\ s \o <<>> = s
    BY <2>2, ConcatEmptySeq
  <2> QED BY <1>1, <1>4, <2>1, <2>3
<1>5. CASE b \in 1..Len(s) /\ \A j \in 1..(b - 1) : s[j] # "begin"
  <2> DEFINE p == SubSeq(s, 1, b - 1)
             t == IF e = 0 THEN <<>> ELSE SubSeq(s, e + 1, Len(s))
  <2>1. e = 0 \/ e \in b..Len(s)
    BY <1>1, <1>5, FirstAtExists
  <2>2. /\ p \in Seq(S) /\ Len(p) = b - 1
        /\ \A i \in 1..(b - 1) : p[i] = s[i]
    <3>1. \A i \in 1..(b - 1) : s[i] \in S
      BY <1>1, <1>5, ElementOfSeq
    <3>2. /\ p \in Seq(S)
          /\ Len(p) = IF 1 <= b - 1 THEN (b - 1) - 1 + 1 ELSE 0
          /\ \A i \in 1..((b - 1) - 1 + 1) : p[i] = s[1 + i - 1]
      BY <1>1, <1>5, <3>1, SubSeqProperties
    <3> HIDE DEF p, b
    <3> QED BY <1>1, <1>5, <3>2
  <2>3. t \in Seq(S)
    <3>1. CASE e = 0
      BY <1>1, <3>1
    <3>2. CASE e # 0 /\ e \in b..Len(s)
      <4> HIDE DEF e, b
      <4>1. \A i \in (e + 1)..Len(s) : s[i] \in S
        BY <1>1, <1>5, <3>2, ElementOfSeq
      <4>2. SubSeq(s, e + 1, Len(s)) \in Seq(S)
        BY <1>1, <1>5, <3>2, <4>1, SubSeqProperties
      <4> QED BY <3>2, <4>2
    <3> QED BY <2>1, <3>1, <3>2
  <2>4. b # 0
    BY <1>1, <1>5
  <2>5. UpsertPointer(s) = p \o Block \o t
    BY <2>4 DEF UpsertPointer, ReplaceBlock
  <2>6. Outside(s) = p \o t
    BY <2>4 DEF Outside
  <2>7. \A i \in 1..Len(p) : p[i] # "begin"
    BY <1>5, <2>2
  <2> HIDE DEF p, t
  <2> QED BY <2>2, <2>3, <2>5, <2>6, <2>7
<1> QED BY <1>2, <1>4, <1>5

\* CLAUDE.md is text, and the command has an exit code only at its end.
PointerInv ==
    /\ ClaudeMd \in DOMAIN disk => disk[ClaudeMd].lines \in Seq(LineValues)
    /\ ai.st # "done" => ai.exit = SetupRunning

LEMMA PointerLinesType ==
    ASSUME PointerInv
    PROVE  PointerLines \in Seq(LineValues)
<1>1. <<>> \in Seq(LineValues)
  OBVIOUS
<1> QED BY <1>1 DEF PointerInv, PointerLines, Exists

\* A new text of CLAUDE.md.
LEMMA DocKept ==
    ASSUME PointerInv,
           ai'.st # "done" => ai'.exit = SetupRunning,
           \/ ClaudeMd \in DOMAIN disk' => ClaudeMd \in DOMAIN disk /\ disk'[ClaudeMd] = disk[ClaudeMd]
           \/ \E l \in Seq(LineValues) : disk' = Written(ClaudeMd, [lines |-> l])
    PROVE  PointerInv'
<1>1. ASSUME NEW l \in Seq(LineValues), disk' = Written(ClaudeMd, [lines |-> l])
      PROVE  disk'[ClaudeMd].lines \in Seq(LineValues)
  <2>1. disk'[ClaudeMd] = [lines |-> l]
    BY <1>1, WrittenFacts
  <2> QED BY <2>1
<1> QED BY <1>1 DEF PointerInv

\* Other files.
LEMMA OtherFile ==
    ASSUME NEW p, p # ClaudeMd, NEW c, disk' = Written(p, c)
    PROVE  ClaudeMd \in DOMAIN disk' =>
              ClaudeMd \in DOMAIN disk /\ disk'[ClaudeMd] = disk[ClaudeMd]
BY DEF Written

LEMMA PointerNext ==
    Inv /\ PointerInv /\ [Next]_pvars => PointerInv'
<1> SUFFICES ASSUME Inv, PointerInv, [Next]_pvars PROVE PointerInv'
  OBVIOUS
<1> USE DEF Inv
<1>1. ASSUME disk' = disk, ai'.st # "done" => ai'.exit = SetupRunning PROVE PointerInv'
  BY <1>1, DocKept
<1>2. ai' = ai => (ai'.st # "done" => ai'.exit = SetupRunning)
  BY DEF PointerInv
<1>3. CASE User
  <2>1. \/ ClaudeMd \in DOMAIN disk' => ClaudeMd \in DOMAIN disk /\ disk'[ClaudeMd] = disk[ClaudeMd]
        \/ \E l \in Seq(LineValues) : disk' = Written(ClaudeMd, [lines |-> l])
    <3>1. ASSUME NEW p \in ManagedFiles \cup {<<".", "deploy.sql">>, <<".", "AGENTS.md">>},
                 disk' = UserFile(p)
          PROVE  ClaudeMd \in DOMAIN disk' =>
                    ClaudeMd \in DOMAIN disk /\ disk'[ClaudeMd] = disk[ClaudeMd]
      <4>1. p # ClaudeMd
        BY DEF ManagedFiles, ClaudeMd
      <4> QED BY <3>1, <4>1, OtherFile DEF UserFile
    <3>2. ASSUME NEW p \in Guidance,
                 \/ disk' = [disk EXCEPT ![p].body = "user"]
                 \/ disk' = [disk EXCEPT ![p].body = disk[p].stamp.sum[1]]
                 \/ disk' = [disk EXCEPT ![p].crlf = ~ disk[p].crlf]
                 \/ disk' = [q \in DOMAIN disk \ {p} |-> disk[q]]
          PROVE  ClaudeMd \in DOMAIN disk' =>
                    ClaudeMd \in DOMAIN disk /\ disk'[ClaudeMd] = disk[ClaudeMd]
      <4>1. p # ClaudeMd
        BY DEF Guidance
      <4>2. CASE disk' = [disk EXCEPT ![p].body = "user"]
        BY <4>1, <4>2
      <4>3. CASE disk' = [disk EXCEPT ![p].body = disk[p].stamp.sum[1]]
        BY <4>1, <4>3
      <4>4. CASE disk' = [disk EXCEPT ![p].crlf = ~ disk[p].crlf]
        BY <4>1, <4>4
      <4>5. CASE disk' = [q \in DOMAIN disk \ {p} |-> disk[q]]
        BY <4>5
      <4> QED BY <3>2, <4>2, <4>3, <4>4, <4>5
    <3> QED BY <1>3, <3>1, <3>2, DocsAssumption DEF User, EditFile
  <2> QED BY <1>2, <1>3, <2>1, DocKept DEF User
<1>4. CASE Upgrade
  BY <1>1, <1>2, <1>4 DEF Upgrade
<1>5. CASE StartInit
  BY <1>1, <1>2, <1>5 DEF StartInit, RunInit
<1>6. CASE StartAISetup
  <2>1. ASSUME NEW e, ai' = [NoSetup EXCEPT !.st = "done", !.exit = e] PROVE ai'.st = "done"
    BY <2>1 DEF NoSetup
  <2>2. ASSUME NEW names, NEW global, StartSetup(names, global) PROVE ai'.exit = SetupRunning
    BY <2>2 DEF StartSetup, NoSetup
  <2>3. disk' = disk
    BY <1>6 DEF StartAISetup, RunAISetup
  <2>4. ai'.st # "done" => ai'.exit = SetupRunning
    BY <1>6, <2>1, <2>2 DEF StartAISetup, RunAISetup
  <2> QED BY <1>1, <2>3, <2>4
<1>7. CASE InitSteps
  <2>1. ClaudeMd \in DOMAIN disk' => ClaudeMd \in DOMAIN disk /\ disk'[ClaudeMd] = disk[ClaudeMd]
    <3>1. \/ disk' = disk
          \/ \E p \in TemplateFiles \cup {Yaml} : \E c : disk' = Written(p, c)
      BY <1>7, InitWrites DEF InitSteps
    <3>2. \A p \in TemplateFiles \cup {Yaml} : p # ClaudeMd
      BY Apart
    <3> QED BY <3>1, <3>2, OtherFile
  <2> QED BY <1>2, <1>7, <2>1, DocKept DEF InitSteps
<1>8. CASE SetupSteps
  <2> DEFINE N == {"st", "names", "all", "files", "global", "dry", "force", "claudeMd",
                   "ver", "action", "seen", "conflicts", "exit"}
  <2>1. DOMAIN ai = N
    BY DEF AiInv, NoSetup
  <2>2. SetupStep
    BY <1>8 DEF SetupSteps
  <2>3. ai'.st # "done" => ai'.exit = SetupRunning
    <3>1. ASSUME NEW e, EndSetup(e) PROVE ai'.st = "done"
      BY <2>1, <3>1 DEF EndSetup
    <3>2. ai' = NoSetup => ai'.exit = SetupRunning
      <4>1. NoSetup.exit = SetupRunning
        BY DEF NoSetup
      <4> QED BY <4>1
    <3>3. ASSUME ai.st # "done", ai'.exit = ai.exit PROVE ai'.exit = SetupRunning
      BY <3>3 DEF PointerInv
    <3>4. CASE NextAssistant
      BY <2>1, <3>1, <3>3, <3>4 DEF NextAssistant
    <3>5. CASE Classify
      <4>1. PICK b, c : ai' = [ai EXCEPT !.st = "write", !.seen = b, !.action = c]
        BY <3>5, Zenon DEF Classify
      <4>2. ai'.exit = ai.exit
        BY <2>1, <4>1
      <4> QED BY <3>3, <3>5, <4>2 DEF Classify
    <3>6. CASE WriteFile
      <4>1. PICK c : Advance(c)
        BY <3>6 DEF WriteFile
      <4>2. ai'.exit = ai.exit
        BY <2>1, <4>1 DEF Advance
      <4> QED BY <3>3, <3>6, <4>2 DEF WriteFile
    <3>7. CASE FilesEnd \/ AssistantsEnd
      BY <2>1, <3>3, <3>7 DEF FilesEnd, AssistantsEnd
    <3>8. CASE WriteFails \/ WritePointer \/ PointerFails \/ SetupCrash
      BY <3>1, <3>2, <3>8 DEF WriteFails, WritePointer, PointerFails, SetupCrash
    <3> QED BY <2>2, <3>4, <3>5, <3>6, <3>7, <3>8 DEF SetupStep
  <2>4. \/ ClaudeMd \in DOMAIN disk' => ClaudeMd \in DOMAIN disk /\ disk'[ClaudeMd] = disk[ClaudeMd]
        \/ \E l \in Seq(LineValues) : disk' = Written(ClaudeMd, [lines |-> l])
    <3>1. UpsertPointer(PointerLines) \in Seq(LineValues) /\ <<>> \in Seq(LineValues)
      BY PointerLinesType, PointerLaw DEF LineValues
    <3>2. ai.st = "write" => Head(ai.files) # ClaudeMd
      BY Apart, HeadTailProperties DEF AiInv
    <3>3. \/ disk' = disk
          \/ ai.st = "write" /\ \E c : disk' = Written(Head(ai.files), c)
          \/ disk' = Written(ClaudeMd, [lines |-> UpsertPointer(PointerLines)])
          \/ disk' = Written(ClaudeMd, [lines |-> <<>>])
      BY <2>2 DEF SetupStep, NextAssistant, Classify, WriteFile, WriteFails, FilesEnd,
                  AssistantsEnd, WritePointer, PointerFails, SetupCrash
    <3> QED BY <3>1, <3>2, <3>3, OtherFile
  <2> QED BY <2>3, <2>4, DocKept
<1>9. CASE UNCHANGED pvars
  BY <1>1, <1>2, <1>9 DEF pvars
<1> QED BY <1>3, <1>4, <1>5, <1>6, <1>7, <1>8, <1>9 DEF Next

\* However a user has mixed up the markers in CLAUDE.md, writing the pointer
\* keeps every line outside the managed block, and writing it once more would
\* change nothing (upsertClaudeMdPointer).
THEOREM TextKept ==
    Spec => PointerKeepsText
<1> DEFINE A == ai.st = "pointer" /\ ai'.exit \in {0, 1} /\ ClaudeMd \in DOMAIN disk'
                  /\ disk'[ClaudeMd].lines # PointerLines /\ disk'[ClaudeMd].lines # <<>> =>
                     /\ Outside(disk'[ClaudeMd].lines) = Outside(PointerLines)
                     /\ UpsertPointer(disk'[ClaudeMd].lines) = disk'[ClaudeMd].lines
<1>1. Init => PointerInv
  <2>1. NoSetup.exit = SetupRunning
    BY DEF NoSetup
  <2> QED BY <2>1 DEF Init, PointerInv
<1>2. ASSUME Inv, PointerInv, [Next]_pvars PROVE A
  <2> SUFFICES ASSUME ai.st = "pointer", ai'.exit \in {0, 1}, ClaudeMd \in DOMAIN disk',
                      disk'[ClaudeMd].lines # PointerLines, disk'[ClaudeMd].lines # <<>>
               PROVE  /\ Outside(disk'[ClaudeMd].lines) = Outside(PointerLines)
                      /\ UpsertPointer(disk'[ClaudeMd].lines) = disk'[ClaudeMd].lines
    OBVIOUS
  <2>1. ai.exit \notin {0, 1} /\ NoSetup.exit \notin {0, 1}
    BY <1>2 DEF PointerInv, SetupRunning, NoSetup
  <2>2. ai' # ai /\ ai' # NoSetup
    BY <2>1
  <2>3. WritePointer \/ PointerFails
    BY <1>2, <2>2 DEF Next, User, Upgrade, StartInit, StartAISetup, RunAISetup,
       InitSteps,
                      SetupSteps, pvars, SetupStep, NextAssistant, Classify, WriteFile,
                      WriteFails, FilesEnd, AssistantsEnd, SetupCrash
  <2>4. disk' # disk
    BY DEF PointerLines, Exists
  <2>5. ASSUME NEW l, disk' = Written(ClaudeMd, [lines |-> l])
        PROVE  disk'[ClaudeMd].lines = l
    <3>1. disk'[ClaudeMd] = [lines |-> l]
      BY <2>5, WrittenFacts
    <3> QED BY <3>1
  <2>6. disk'[ClaudeMd].lines = UpsertPointer(PointerLines)
    BY <2>3, <2>4, <2>5 DEF WritePointer, PointerFails
  <2>7. PointerLines \in Seq(LineValues)
    BY <1>2, PointerLinesType
  <2> QED BY <2>6, <2>7, PointerLaw DEF LineValues
<1>3. Inv /\ PointerInv /\ [Next]_pvars => [A]_pvars
  BY <1>2
<1> QED BY <1>1, <1>3, PointerNext, DiskIsSound, PTL DEF Spec, PointerKeepsText

-----------------------------------------------------------------------------
(* Types *)

\* Two files at most for every assistant the loop has reached: each was a
\* conflict, or something else, or is still to come.
CountInv ==
    /\ Len(ai.names) <= Len(ai.all)
    /\ Len(ai.all) <= Len(AllCanonicalAssistants)
    /\ ai.conflicts + Len(ai.files) <= 2 * (Len(ai.all) - Len(ai.names))

TypeInv == InitTypeOK /\ SetupTypeOK /\ CountInv /\ quiet \in BOOLEAN

\* The counts of a command that starts.
LEMMA CountStarts ==
    ASSUME ai'.names = ai'.all, ai'.files = <<>>, ai'.conflicts = 0,
           ai'.all \in Seq(DOMAIN Adapter),
           Len(ai'.all) <= 1 \/ ai'.all = AllCanonicalAssistants
    PROVE  CountInv'
<1>1. Len(ai'.all) \in Nat /\ Len(AllCanonicalAssistants) \in Nat \ {0}
  BY LenProperties, CanonicalAssumption
<1> QED BY <1>1 DEF CountInv

\* The loop.
LEMMA CountSteps ==
    ASSUME AiInv, CountInv, SetupStep
    PROVE  CountInv'
<1> DEFINE N == {"st", "names", "all", "files", "global", "dry", "force", "claudeMd",
                 "ver", "action", "seen", "conflicts", "exit"}
           a == Len(ai.all)
           n == Len(ai.names)
           f == Len(ai.files)
<1>1. DOMAIN ai = N
  BY DEF AiInv, NoSetup
<1>2. /\ a \in Nat /\ n \in Nat /\ f \in Nat /\ ai.conflicts \in Nat /\ ai.global \in BOOLEAN
      /\ n <= a /\ a <= Len(AllCanonicalAssistants) /\ ai.conflicts + f <= 2 * (a - n)
  BY LenProperties DEF AiInv, CountInv
<1>3. ASSUME ai'.names = ai.names, ai'.all = ai.all, ai'.files = ai.files,
             ai'.conflicts = ai.conflicts
      PROVE  CountInv'
  BY <1>3 DEF CountInv
<1>4. ASSUME NEW e, EndSetup(e) PROVE CountInv'
  BY <1>1, <1>3, <1>4 DEF EndSetup
<1>5. CASE NextAssistant
  <2>1. CASE Head(ai.names) \in DOMAIN SkillsRoot(ai.global)
    <3> DEFINE q == Planned(Head(ai.names), ai.global)
    <3>1. /\ ai'.names = Tail(ai.names) /\ ai'.all = ai.all
          /\ ai'.files = q /\ ai'.conflicts = ai.conflicts
      BY <1>1, <1>5, <2>1 DEF NextAssistant
    <3>2. n > 0 /\ Len(Tail(ai.names)) = n - 1
      BY <1>5, HeadTailProperties, EmptySeq DEF NextAssistant, AiInv
    <3>3. Len(q) \in 1..2
      BY <1>2, <2>1, PlannedType
    <3>4. ai.conflicts + Len(q) <= 2 * (a - (n - 1))
      <4> DEFINE k == Len(q)
      <4>1. k = 1 \/ k = 2
        BY <3>3
      <4> HIDE DEF a, n, f, k
      <4>2. 2 * (a - (n - 1)) = 2 * (a - n) + 2
        BY <1>2
      <4>3. ai.conflicts + k <= 2 * (a - (n - 1))
        BY <1>2, <4>1, <4>2
      <4> QED BY <4>3 DEF k
    <3>5. n - 1 <= a
      BY <1>2
    <3> HIDE DEF q
    <3> QED BY <1>2, <3>1, <3>2, <3>4, <3>5 DEF CountInv
  <2>2. CASE Head(ai.names) \notin DOMAIN SkillsRoot(ai.global)
    BY <1>4, <1>5, <2>2 DEF NextAssistant
  <2> QED BY <2>1, <2>2
<1>6. CASE Classify
  <2>1. PICK b, c : ai' = [ai EXCEPT !.st = "write", !.seen = b, !.action = c]
    BY <1>6, Zenon DEF Classify
  <2> QED BY <1>1, <1>3, <2>1
<1>7. CASE WriteFile
  <2>1. PICK x \in {0, 1} : Advance(ai.conflicts + x)
    BY <1>7 DEF WriteFile
  <2>2. /\ ai'.names = ai.names /\ ai'.all = ai.all
        /\ ai'.files = Tail(ai.files) /\ ai'.conflicts = ai.conflicts + x
    BY <1>1, <2>1 DEF Advance
  <2>3. f > 0 /\ Len(Tail(ai.files)) = f - 1
    BY <1>7, HeadTailProperties, EmptySeq DEF WriteFile, AiInv
  <2>4. (ai.conflicts + x) + (f - 1) <= 2 * (a - n)
    <3> HIDE DEF a, n, f
    <3> QED BY <1>2, <2>3
  <2> QED BY <1>2, <2>2, <2>3, <2>4 DEF CountInv
<1>8. CASE FilesEnd \/ AssistantsEnd
  BY <1>1, <1>3, <1>8 DEF FilesEnd, AssistantsEnd
<1>9. CASE SetupCrash
  <2>1. NoSetup.all = <<>> /\ NoSetup.names = <<>> /\ NoSetup.files = <<>> /\ NoSetup.conflicts = 0
    BY DEF NoSetup
  <2>2. <<>> \in Seq(DOMAIN Adapter) /\ Len(<<>>) = 0
    OBVIOUS
  <2>3. ai' = NoSetup
    BY <1>9 DEF SetupCrash
  <2>4. /\ ai'.all = <<>> /\ ai'.names = <<>> /\ ai'.files = <<>> /\ ai'.conflicts = 0
        /\ ai'.all \in Seq(DOMAIN Adapter) /\ Len(ai'.all) = 0
    BY <2>1, <2>2, <2>3
  <2> QED BY <2>4, CountStarts
<1> QED
  BY <1>4, <1>5, <1>6, <1>7, <1>8, <1>9
  DEF SetupStep, WriteFails, WritePointer, PointerFails

LEMMA InitTypes ==
    ASSUME InitTypeOK, DOMAIN ini = DOMAIN NoInit, InitStep \/ RunInit
    PROVE  InitTypeOK'
<1>1. DOMAIN ini = {"st", "tmpl", "idx", "conn", "todo", "found", "exit"}
  BY DEF NoInit
<1>2. /\ Len(TemplateOrder) \in Nat \ {0}
      /\ \A i \in 1..Len(TemplateOrder) : TemplateOrder[i] \in DOMAIN Templates
  BY TemplatesAssumption, LenProperties, ElementOfSeq
<1> DEFINE Sts == {"idle", "directory", "template", "choice", "connection",
                   "validate", "create", "copy", "save", "done", "cancelled"}
           Conns == {"none", "wanted", "configured", "cancelled"}
           Exits == {ExitSuccess, ExitError, ExitUsage, Running}
           Tmpls == {""} \cup DOMAIN Templates \cup AskedTemplates
           OK == /\ ini'.st \in Sts /\ ini'.tmpl \in Tmpls
                 /\ ini'.idx \in 1..Len(TemplateOrder)
                 /\ ini'.conn \in Conns /\ ini'.exit \in Exits
<1>3. SUFFICES OK
  BY DEF InitTypeOK
<1>4. /\ ini.st \in Sts /\ ini.tmpl \in Tmpls /\ ini.idx \in 1..Len(TemplateOrder)
      /\ ini.conn \in Conns /\ ini.exit \in Exits
  BY DEF InitTypeOK
<1>5. /\ CursorUp(ini.idx) \in 1..Len(TemplateOrder)
      /\ CursorDown(ini.idx) \in 1..Len(TemplateOrder)
  <2> DEFINE l == Len(TemplateOrder)
             x == ini.idx
  <2>1. l \in Nat \ {0} /\ x \in 1..l
    BY <1>2, <1>4
  <2> HIDE DEF l, x
  <2>2. /\ (IF x > 1 THEN x - 1 ELSE x) \in 1..l
        /\ (IF x < l THEN x + 1 ELSE x) \in 1..l
    BY <2>1
  <2> QED BY <2>2 DEF CursorUp, CursorDown, l, x
<1> HIDE DEF Exits, Tmpls
<1>6. /\ ExitSuccess \in Exits /\ ExitError \in Exits /\ ExitUsage \in Exits /\ Running \in Exits
  BY DEF Exits
<1>7. /\ \A t \in DOMAIN Templates \cup AskedTemplates : t \in Tmpls
      /\ "" \in Tmpls /\ TemplateOrder[ini.idx] \in Tmpls
  BY <1>2, <1>4 DEF Tmpls
<1>8. ASSUME NEW e \in Exits, EndInit(e) PROVE OK
  BY <1>1, <1>4, <1>8 DEF EndInit
<1>9. ASSUME Cancel PROVE OK
  BY <1>1, <1>4, <1>6, <1>9 DEF Cancel
<1>10. ASSUME NEW x \in Sts, ini' = [ini EXCEPT !.st = x] PROVE OK
  BY <1>1, <1>4, <1>10
<1>11. CASE UpdateDirectory
  BY <1>9, <1>10, <1>11 DEF UpdateDirectory
<1>12. CASE UpdateTemplate
  <2>1. ASSUME NEW i \in 1..Len(TemplateOrder), ini' = [ini EXCEPT !.idx = i] PROVE OK
    BY <1>1, <1>4, <2>1
  <2>2. ASSUME NEW t \in Tmpls, ini' = [ini EXCEPT !.tmpl = t, !.st = "choice"] PROVE OK
    BY <1>1, <1>4, <2>2
  <2> QED BY <1>5, <1>7, <1>10, <1>12, <2>1, <2>2 DEF UpdateTemplate
<1>13. CASE UpdateSetupChoice
  <2>1. ASSUME NEW c \in Conns, ini' = [ini EXCEPT !.conn = c] PROVE OK
    BY <1>1, <1>4, <2>1
  <2> QED BY <1>10, <1>13, <2>1 DEF UpdateSetupChoice
<1>14. CASE AbortWizard
  BY <1>6, <1>8, <1>9, <1>14 DEF AbortWizard
<1>15. CASE EndConnection
  <2>1. ASSUME NEW c \in Conns, ini' = [ini EXCEPT !.conn = c, !.st = "validate"] PROVE OK
    BY <1>1, <1>4, <2>1
  <2> QED BY <1>15, <2>1 DEF EndConnection
<1>16. CASE ValidateTemplate
  BY <1>6, <1>8, <1>10, <1>16 DEF ValidateTemplate
<1>17. CASE CreateProject
  <2>1. ASSUME NEW d, NEW f, ini' = [ini EXCEPT !.st = "copy", !.todo = d, !.found = f] PROVE OK
    BY <1>1, <1>4, <2>1
  <2> QED BY <1>6, <1>8, <1>17, <2>1 DEF CreateProject
<1>18. CASE CopyTemplateFile
  <2>1. ASSUME NEW d, ini' = [ini EXCEPT !.todo = d] PROVE OK
    BY <1>1, <1>4, <2>1
  <2> QED BY <1>18, <2>1 DEF CopyTemplateFile
<1>19. CASE CopyFails \/ SaveConnection
  BY <1>6, <1>8, <1>19 DEF CopyFails, SaveConnection
<1>20. CASE CopyEnds
  BY <1>6, <1>8, <1>10, <1>20 DEF CopyEnds
<1>21. /\ NoInit.st = "idle" /\ NoInit.tmpl = "" /\ NoInit.idx = 1 /\ NoInit.conn = "none"
       /\ NoInit.exit = Running
       /\ DOMAIN NoInit = {"st", "tmpl", "idx", "conn", "todo", "found", "exit"}
  BY DEF NoInit
<1>22. /\ NoInit.st \in Sts /\ NoInit.tmpl \in Tmpls /\ NoInit.idx \in 1..Len(TemplateOrder)
       /\ NoInit.conn \in Conns /\ NoInit.exit \in Exits
  <2>1. 1 \in 1..Len(TemplateOrder)
    BY <1>2
  <2> QED BY <1>6, <1>7, <1>21, <2>1
<1>23. CASE InitCrash
  <2>1. ini' = NoInit
    BY <1>23 DEF InitCrash
  <2> QED BY <1>22, <2>1
<1>24. CASE RunInit
  <2>1. CASE ini' = [NoInit EXCEPT !.st = "directory"]
    BY <1>21, <1>22, <2>1
  <2>2. ASSUME NEW t \in AskedTemplates, NEW x \in Sts, NEW e \in Exits,
               ini' = [NoInit EXCEPT !.tmpl = t, !.st = x, !.exit = e]
        PROVE  OK
    BY <1>7, <1>21, <1>22, <2>2
  <2> QED BY <1>6, <1>24, <2>1, <2>2 DEF RunInit
<1> QED
  BY <1>11, <1>12, <1>13, <1>14, <1>15, <1>16, <1>17, <1>18, <1>19, <1>20, <1>23, <1>24
  DEF InitStep

LEMMA SetupTypes ==
    ASSUME AiInv, AiInv', CountInv', SetupTypeOK, SetupStep \/ RunAISetup
    PROVE  SetupTypeOK'
<1>1. /\ DOMAIN ai = {"st", "names", "all", "files", "global", "dry", "force", "claudeMd",
                      "ver", "action", "seen", "conflicts", "exit"}
      /\ DOMAIN ai = DOMAIN NoSetup
  BY DEF AiInv, NoSetup
<1>2. NoSetup.st = "idle" /\ NoSetup.action = "" /\ NoSetup.exit = SetupRunning
  BY DEF NoSetup
<1> DEFINE Sts == {"idle", "assistant", "classify", "write", "pointer", "done"}
           Acts == {"", "create", "update", "unchanged", "conflict"}
           Exits == {0, 1, 2, SetupRunning}
           OK == ai'.st \in Sts /\ ai'.action \in Acts /\ ai'.exit \in Exits
<1>3. ai'.conflicts \in 0..(2 * Len(AllCanonicalAssistants)) /\ bin' \in DOMAIN BodyOf
  <2> DEFINE a == Len(ai'.all)
             n == Len(ai'.names)
             f == Len(ai'.files)
             c == Len(AllCanonicalAssistants)
             k == ai'.conflicts
  <2>1. a \in Nat /\ n \in Nat /\ f \in Nat /\ c \in Nat /\ k \in Nat /\ bin' \in DOMAIN BodyOf
    BY LenProperties, CanonicalAssumption DEF AiInv
  <2>2. a <= c /\ k + f <= 2 * (a - n)
    BY DEF CountInv
  <2> HIDE DEF a, n, f, c, k
  <2>3. k \in 0..(2 * c)
    BY <2>1, <2>2
  <2> QED BY <2>1, <2>3 DEF k, c
<1>4. SUFFICES OK
  BY <1>3 DEF SetupTypeOK
<1>5. ai.st \in Sts /\ ai.action \in Acts /\ ai.exit \in Exits
  BY DEF SetupTypeOK
<1>6. 0 \in Exits /\ 1 \in Exits /\ 2 \in Exits /\ SetupRunning \in Exits
  OBVIOUS
<1> HIDE DEF Exits
<1>7. ASSUME NEW e \in Exits, EndSetup(e) PROVE OK
  BY <1>1, <1>5, <1>7 DEF EndSetup
<1>8. CASE ai' = NoSetup
  BY <1>2, <1>8, <1>6
<1>9. CASE NextAssistant
  <2>1. ASSUME NEW b, NEW c, ai' = [ai EXCEPT !.st = "classify", !.names = b, !.files = c]
        PROVE  OK
    BY <1>1, <1>5, <2>1
  <2> QED BY <1>7, <1>9, <1>6, <2>1 DEF NextAssistant
<1>10. CASE Classify
  <2> DEFINE x == ClassifyFile(disk[Head(ai.files)], RenderManaged(BodyOf[ai.ver], ai.ver))
  <2>1. x \in Acts
    BY DEF ClassifyFile
  <2> HIDE DEF x
  <2>2. PICK b, c : /\ ai' = [ai EXCEPT !.st = "write", !.seen = b, !.action = c]
                    /\ c = x \/ c = "create"
    BY <1>10 DEF Classify, x
  <2> QED BY <1>1, <1>5, <2>1, <2>2
<1>11. CASE WriteFile
  <2>1. ASSUME NEW c, Advance(c) PROVE OK
    BY <1>1, <1>5, <2>1 DEF Advance
  <2> QED BY <1>11, <2>1 DEF WriteFile
<1>12. CASE FilesEnd \/ AssistantsEnd
  BY <1>1, <1>5, <1>12 DEF FilesEnd, AssistantsEnd
<1>13. CASE WriteFails \/ WritePointer \/ PointerFails
  BY <1>7, <1>13, <1>6 DEF WriteFails, WritePointer, PointerFails
<1>14. CASE SetupCrash
  BY <1>8, <1>14 DEF SetupCrash
<1>15. CASE RunAISetup
  <2>1. ASSUME NEW names, NEW global, StartSetup(names, global) PROVE OK
    <3>1. /\ ai'.st = "assistant" /\ ai'.action = NoSetup.action /\ ai'.exit = NoSetup.exit
      BY <1>1, <2>1 DEF StartSetup
    <3> QED BY <1>2, <1>6, <3>1
  <2>2. ASSUME NEW e \in Exits, ai' = [NoSetup EXCEPT !.st = "done", !.exit = e] PROVE OK
    BY <1>1, <1>2, <2>2
  <2> QED BY <1>15, <1>6, <2>1, <2>2 DEF RunAISetup
<1> QED
  BY <1>9, <1>10, <1>11, <1>12, <1>13, <1>14, <1>15 DEF SetupStep

LEMMA TypeNext ==
    Inv /\ Inv' /\ TypeInv /\ [Next]_pvars => TypeInv'
<1> SUFFICES ASSUME Inv, Inv', TypeInv, [Next]_pvars PROVE TypeInv'
  OBVIOUS
<1> USE DEF Inv, TypeInv
<1>1. ini' = ini => InitTypeOK'
  BY DEF InitTypeOK
<1>2. ai' = ai => CountInv'
  BY DEF CountInv
<1>3. ai' = ai /\ bin' \in DOMAIN BodyOf => SetupTypeOK'
  BY DEF SetupTypeOK
<1>4. bin' \in DOMAIN BodyOf
  BY DEF AiInv
<1>5. CASE User
  BY <1>1, <1>2, <1>3, <1>4, <1>5 DEF User
<1>6. CASE Upgrade
  BY <1>1, <1>2, <1>3, <1>4, <1>6 DEF Upgrade
<1>7. CASE StartInit
  BY <1>2, <1>3, <1>4, <1>7, InitTypes DEF StartInit, CopyInv
<1>8. CASE InitSteps
  BY <1>2, <1>3, <1>4, <1>8, InitTypes DEF InitSteps, CopyInv
<1>9. CASE StartAISetup
  <2>1. CountInv'
    <3>1. NoSetup.names = <<>> /\ NoSetup.all = <<>> /\ NoSetup.files = <<>>
          /\ NoSetup.conflicts = 0
      BY DEF NoSetup
    <3>2. /\ ai'.all \in Seq(DOMAIN Adapter) /\ Len(<<>>) = 0
          /\ \A name : Len(<<name>>) = 1
      BY DEF AiInv
    <3>3. ASSUME NEW names, NEW global, StartSetup(names, global)
          PROVE  ai'.names = names /\ ai'.all = names /\ ai'.files = <<>> /\ ai'.conflicts = 0
      BY <3>3 DEF StartSetup, NoSetup
    <3>4. ASSUME NEW e, ai' = [NoSetup EXCEPT !.st = "done", !.exit = e]
          PROVE  ai'.names = <<>> /\ ai'.all = <<>> /\ ai'.files = <<>> /\ ai'.conflicts = 0
      BY <3>4 DEF NoSetup
    <3>5. /\ ai'.names = ai'.all /\ ai'.files = <<>> /\ ai'.conflicts = 0
          /\ Len(ai'.all) <= 1 \/ ai'.all = AllCanonicalAssistants
      <4>1. ASSUME NEW e, ai' = [NoSetup EXCEPT !.st = "done", !.exit = e]
            PROVE  /\ ai'.names = ai'.all /\ ai'.files = <<>> /\ ai'.conflicts = 0
                   /\ Len(ai'.all) <= 1
        <5>1. ai'.all = <<>> /\ ai'.names = <<>> /\ ai'.files = <<>> /\ ai'.conflicts = 0
          BY <3>4, <4>1
        <5> QED BY <3>2, <5>1
      <4>2. ASSUME NEW name, NEW global, StartSetup(<<name>>, global)
            PROVE  /\ ai'.names = ai'.all /\ ai'.files = <<>> /\ ai'.conflicts = 0
                   /\ Len(ai'.all) <= 1
        <5>1. ai'.all = <<name>> /\ ai'.names = <<name>> /\ ai'.files = <<>> /\ ai'.conflicts = 0
          BY <3>3, <4>2
        <5> QED BY <3>2, <5>1
      <4>3. ASSUME NEW global, StartSetup(AllCanonicalAssistants, global)
            PROVE  /\ ai'.names = ai'.all /\ ai'.files = <<>> /\ ai'.conflicts = 0
                   /\ ai'.all = AllCanonicalAssistants
        BY <3>3, <4>3
      <4> QED BY <1>9, <4>1, <4>2, <4>3 DEF StartAISetup, RunAISetup
    <3> QED BY <3>2, <3>5, CountStarts
  <2> QED BY <1>1, <1>9, <2>1, SetupTypes DEF StartAISetup
<1>10. CASE SetupSteps
  BY <1>1, <1>10, CountSteps, SetupTypes DEF SetupSteps
<1>11. CASE UNCHANGED pvars
  BY <1>1, <1>2, <1>3, <1>4, <1>11 DEF pvars
<1> QED BY <1>5, <1>6, <1>7, <1>8, <1>9, <1>10, <1>11 DEF Next

\* The type invariant; a setup never counts more conflicts than it has files.
THEOREM TypeCorrect ==
    Spec => []TypeOK
<1>1. Init => TypeInv
  <2> SUFFICES ASSUME Init PROVE TypeInv
    OBVIOUS
  <2>1. InitTypeOK
    <3>1. /\ NoInit.st = "idle" /\ NoInit.tmpl = "" /\ NoInit.idx = 1 /\ NoInit.conn = "none"
          /\ NoInit.exit = Running
      BY DEF NoInit
    <3>2. 1 \in 1..Len(TemplateOrder)
      BY TemplatesAssumption, LenProperties
    <3> HIDE DEF NoInit
    <3> QED BY <3>1, <3>2 DEF Init, InitTypeOK
  <2>2. SetupTypeOK /\ CountInv
    <3>1. /\ NoSetup.st = "idle" /\ NoSetup.action = "" /\ NoSetup.exit = SetupRunning
          /\ NoSetup.names = <<>> /\ NoSetup.all = <<>> /\ NoSetup.files = <<>>
          /\ NoSetup.conflicts = 0
      BY DEF NoSetup
    <3>2. Len(AllCanonicalAssistants) \in Nat /\ Len(<<>>) = 0
      BY CanonicalAssumption, LenProperties
    <3> HIDE DEF NoSetup
    <3>3. ai.conflicts = 0 /\ Len(ai.files) = 0 /\ Len(ai.all) = 0 /\ Len(ai.names) = 0
      BY <3>1, <3>2 DEF Init
    <3>4. CountInv /\ ai.conflicts \in 0..(2 * Len(AllCanonicalAssistants))
      BY <3>2, <3>3 DEF CountInv
    <3> QED BY <3>1, <3>4, BodiesAssumption DEF Init, SetupTypeOK
  <2> QED BY <2>1, <2>2 DEF Init, TypeInv
<1>2. TypeInv => TypeOK
  BY DEF TypeInv, TypeOK
<1> QED BY <1>1, <1>2, TypeNext, DiskIsSound, PTL DEF Spec
=============================================================================
