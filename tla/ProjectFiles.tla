---------------------------- MODULE ProjectFiles ----------------------------
(***************************************************************************)
(* A project directory with everyone who writes to it: `pgmi init`, `pgmi  *)
(* ai setup`, and the user, who edits, deletes and checks out files and    *)
(* upgrades pgmi between any two steps of the commands.                    *)
(***************************************************************************)
EXTENDS ProjectInit, AIGuidance

CONSTANTS
    UserDocs,       \* what a user may make of CLAUDE.md: sequences of lines
    MaxEdits,       \* the user's changes
    MaxCommands     \* commands started

\* The files ai setup may write.
GuidancePaths ==
    UNION {UNION {{Planned(a, g)[i] : i \in 1..Len(Planned(a, g))} :
                     a \in DOMAIN SkillsRoot(g)} : g \in BOOLEAN}

\* No template holds one of them.
ASSUME ApartAssumption == TemplateFiles \cap (GuidancePaths \cup {ClaudeMd}) = {}

\* CLAUDE.md is text, line after line.
LineValues ==
    {"begin", "pointer", "end"} \cup UNION {{d[i] : i \in 1..Len(d)} : d \in UserDocs}

ASSUME DocsAssumption == \A d \in UserDocs : d \in Seq(LineValues)

VARIABLES
    edits, commands,    \* counters of the bounds
    quiet               \* nobody else changed a file since the last setup began

pvars == <<disk, ini, bin, ai, edits, commands, quiet>>

TypeOK ==
    /\ InitTypeOK
    /\ SetupTypeOK
    /\ quiet \in BOOLEAN

Init ==
    /\ disk = <<>>
    /\ ini = NoInit /\ ai = NoSetup /\ bin = 1
    /\ edits = 0 /\ commands = 0 /\ quiet = TRUE

-----------------------------------------------------------------------------
(* The user *)

\* Files a user may have written there before, or while, pgmi runs.
UserFile(path) == Written(path, Plain("user"))

\* Guidance files on disk.
Guidance == {p \in DOMAIN disk : p # ClaudeMd /\ disk[p].stamp # NoStamp}

EditFile ==
    \/ \E p \in ManagedFiles \cup {<<".", "deploy.sql">>, <<".", "AGENTS.md">>} :
          disk' = UserFile(p)
    \/ \E p \in Guidance : disk' = [disk EXCEPT ![p].body = "user"]
    \/ \E p \in Guidance :
          disk' = [disk EXCEPT ![p].body = disk[p].stamp.sum[1]]    \* undo
    \/ \E p \in Guidance : disk' = [disk EXCEPT ![p].crlf = ~ disk[p].crlf]
    \/ \E p \in Guidance : disk' = [q \in DOMAIN disk \ {p} |-> disk[q]]
    \/ \E d \in UserDocs : disk' = Written(ClaudeMd, [lines |-> d])

User ==
    /\ edits < MaxEdits
    /\ edits' = edits + 1
    /\ EditFile /\ disk' # disk
    /\ quiet' = FALSE
    /\ UNCHANGED <<ini, bin, ai, commands>>

Upgrade ==
    /\ edits < MaxEdits /\ bin + 1 \in DOMAIN BodyOf
    /\ edits' = edits + 1
    /\ bin' = bin + 1
    /\ quiet' = FALSE
    /\ UNCHANGED <<disk, ini, ai, commands>>

-----------------------------------------------------------------------------
(* The commands *)

StartInit ==
    /\ commands < MaxCommands
    /\ commands' = commands + 1
    /\ RunInit
    /\ UNCHANGED <<bin, ai, edits, quiet>>

StartAISetup ==
    /\ commands < MaxCommands
    /\ commands' = commands + 1
    /\ RunAISetup
    /\ quiet' = TRUE
    /\ UNCHANGED <<ini, edits>>

\* The exit code of `pgmi ai check`: every file of the assistant is current.
CheckExit(name, global) ==
    CASE name \notin DOMAIN Adapter -> 2
      [] name \in DOMAIN Adapter /\ name \notin DOMAIN SkillsRoot(global) -> 1
      [] OTHER -> IF \A i \in 1..Len(Planned(name, global)) :
                        CheckFile(Planned(name, global)[i]) = "current"
                  THEN 0 ELSE 1

InitSteps == InitStep /\ UNCHANGED <<bin, ai, edits, commands, quiet>>

SetupSteps == SetupStep /\ UNCHANGED <<ini, edits, commands, quiet>>

Next == User \/ Upgrade \/ StartInit \/ StartAISetup \/ InitSteps \/ SetupSteps

Spec == Init /\ [][Next]_pvars

-----------------------------------------------------------------------------
(* Properties *)

\* The file holds text of a user.
HandWritten(content) == content.body = "user"

\* A setup without --force destroys a hand-edited guidance file only if the
\* edit was saved after setup had read and classified that file
\* (ai_setup.go runAISetup, classifyFile), and what it reports as hand-edited
\* was changed by a user or torn by an interrupted write: neither another pgmi
\* version nor a checkout with other line endings makes a conflict
\* (ai/setup.go ParseManaged).
HandEditsKept ==
    [][/\ \A p \in DOMAIN disk \ {ClaudeMd} :
            ai.st = "write" /\ disk' # disk /\ edits' = edits /\ ini' = ini
               /\ HandWritten(disk[p]) =>
                  \/ p \in DOMAIN disk' /\ disk'[p] = disk[p]
                  \/ ai.force
                  \/ ai.seen # disk[p]
       /\ ai'.conflicts > ai.conflicts => ai.seen.body \in {"user", "torn"}]_pvars

\* A setup that exits 0 leaves every file it was asked for in a state that
\* `pgmi ai check` of the same binary calls current, and that a second setup
\* would leave alone, as long as nobody else touched the files.
SetupThenCurrent ==
    ai.st = "done" /\ ai.exit = 0 /\ ~ ai.dry /\ quiet =>
        \A i \in 1..Len(ai.all) : CheckExit(ai.all[i], ai.global) = 0

\* The user's lines outside the first managed block.
Outside(lines) ==
    IF FirstAt(lines, "begin", 1) = 0 THEN lines
    ELSE SubSeq(lines, 1, FirstAt(lines, "begin", 1) - 1) \o
         (IF FirstAt(lines, "end", FirstAt(lines, "begin", 1)) = 0 THEN <<>>
          ELSE SubSeq(lines, FirstAt(lines, "end", FirstAt(lines, "begin", 1)) + 1,
                      Len(lines)))

\* Writing the pointer into CLAUDE.md keeps every line outside the managed
\* block, in order, and writing it again would change nothing, whatever the
\* user made of the markers (ai_setup.go upsertClaudeMdPointer).
PointerKeepsText ==
    [][ai.st = "pointer" /\ ai'.exit \in {0, 1} /\ ClaudeMd \in DOMAIN disk'
         /\ disk'[ClaudeMd].lines # PointerLines /\ disk'[ClaudeMd].lines # <<>> =>
            /\ Outside(disk'[ClaudeMd].lines) = Outside(PointerLines)
            /\ UpsertPointer(disk'[ClaudeMd].lines) = disk'[ClaudeMd].lines]_pvars

\* pgmi init never replaces a file that was there when the scaffolder looked,
\* however long the wizard took; only a configured connection is put into a
\* pgmi.yaml that exists (scaffold.go CreateProject, copyTemplateFiles).
InitKeepsFiles ==
    [][\A p \in ini.found :
          ini.st \in {"copy", "save"} /\ ini' # ini =>
             \/ disk'[p] = disk[p]
             \/ p = Yaml /\ ini.st = "save" /\ ini.conn = "configured"]_pvars

\* An init that ends with exit 0, other than by a cancelled wizard, has put
\* every file of its template on disk, none of them torn (scaffold.go
\* copyTemplateFiles ends the walk at the first error); only the rewrite of
\* pgmi.yaml with a configured connection may fail with a mere warning.
InitSuccessIsWhole ==
    ini.st = "done" /\ ini.exit = ExitSuccess =>
        \A i \in 1..Len(Templates[ini.tmpl]) :
            /\ Exists(Templates[ini.tmpl][i])
            /\ \/ disk[Templates[ini.tmpl][i]] # Torn
               \/ Templates[ini.tmpl][i] = Yaml /\ ini.conn = "configured"
=============================================================================
