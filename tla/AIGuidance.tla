----------------------------- MODULE AIGuidance -----------------------------
(***************************************************************************)
(* `pgmi ai setup` and `pgmi ai check`: the guidance files pgmi writes for *)
(* coding assistants, each with a managed stamp by which a later run can   *)
(* tell its own work from a user's, and the pointer block in CLAUDE.md.    *)
(* A file is read and classified in one step and written in the next; the  *)
(* user may save it in between.                                            *)
(***************************************************************************)
EXTENDS ProjectDisk, FiniteSets

CONSTANTS
    BodyOf,                  \* version -> the body that binary generates
    AllCanonicalAssistants,  \* what --all writes for, in order
    Assistants               \* the names given to --assistant

VARIABLES
    bin,    \* the version of the installed binary
    ai      \* the setup command

SetupRunning == 99
ClaudeMd == <<".", "CLAUDE.md">>
SkillAdapters == {"claude", "codex-skills", "antigravity"}
AgentsAliases == {"agents", "codex", "opencode"}

\* The files of an assistant, below its root: a skill with its depth file, or
\* a single file.  codex and opencode are other names of agents.
Adapter ==
    [a \in SkillAdapters \cup AgentsAliases
             \cup {"cursor", "copilot", "windsurf", "cline", "gemini"} |->
        CASE a \in SkillAdapters -> <<"pgmi/SKILL.md", "pgmi/depth.md">>
          [] a \in AgentsAliases -> <<"AGENTS.md">>
          [] a = "cursor"   -> <<"rules/pgmi.mdc">>
          [] a = "copilot"  -> <<"copilot-instructions.md">>
          [] a = "windsurf" -> <<"rules/pgmi.md">>
          [] a = "cline"    -> <<"pgmi.md">>
          [] a = "gemini"   -> <<"GEMINI.md">>]

GlobalRoot ==
    [a \in {"claude", "codex-skills", "gemini"} \cup AgentsAliases |->
        CASE a = "claude"       -> "~/.claude/skills"
          [] a = "codex-skills" -> "~/.codex/skills"
          [] a = "gemini"       -> "~/.gemini"
          [] a = "codex"        -> "~/.codex"
          [] a = "opencode"     -> "~/.config/opencode"
          [] a = "agents"       -> "~"]

ProjectRoot ==
    [a \in DOMAIN Adapter |->
        CASE a \in AgentsAliases \cup {"gemini"} -> "."
          [] a = "claude"       -> ".claude/skills"
          [] a = "codex-skills" -> ".codex/skills"
          [] a = "antigravity"  -> ".agents/skills"
          [] a = "cursor"       -> ".cursor"
          [] a = "copilot"      -> ".github"
          [] a = "windsurf"     -> ".windsurf"
          [] a = "cline"        -> ".clinerules"]

SkillsRoot(global) == IF global THEN GlobalRoot ELSE ProjectRoot

\* GenerateSetup: the paths an assistant's files go to.
Planned(name, global) ==
    [i \in 1..Len(Adapter[name]) |-> <<SkillsRoot(global)[name], Adapter[name][i]>>]

\* --all names known assistants, and no two of them share a file, so it
\* writes each once.
ASSUME CanonicalAssumption ==
    /\ AllCanonicalAssistants \in Seq(DOMAIN Adapter)
    /\ Len(AllCanonicalAssistants) > 0
    /\ \A i, j \in 1..Len(AllCanonicalAssistants) : i # j =>
         \/ ProjectRoot[AllCanonicalAssistants[i]] # ProjectRoot[AllCanonicalAssistants[j]]
         \/ Adapter[AllCanonicalAssistants[i]] # Adapter[AllCanonicalAssistants[j]]

\* Every version generates a text of its own making.
ASSUME BodiesAssumption ==
    /\ 1 \in DOMAIN BodyOf
    /\ \A v \in DOMAIN BodyOf : BodyOf[v] \notin {"user", "torn"}

-----------------------------------------------------------------------------
(* What setup and check make of one file *)

\* Slip: a body that differs is taken for an older generated one.
ClassifyFile_ByBody(content, intended) ==
    IF ParseManaged(content).body = ParseManaged(intended).body
    THEN "unchanged" ELSE "update"

\* classifyFile
ClassifyFile(content, intended) ==
    IF Edited(ParseManaged(content)) THEN "conflict"
    ELSE IF ParseManaged(content).body = ParseManaged(intended).body THEN "unchanged"
    ELSE "update"

\* runAICheck on one file of an assistant, by the installed binary.
CheckFile(path) ==
    CASE ~ Exists(path) -> "missing"
      [] Exists(path) /\ Edited(ParseManaged(disk[path])) -> "edited"
      [] Exists(path) /\ ~ Edited(ParseManaged(disk[path]))
           /\ ParseManaged(disk[path]).body # BodyOf[bin] -> "stale"
      [] OTHER -> "current"

-----------------------------------------------------------------------------
(* The pointer block in CLAUDE.md: a sequence of lines *)

Block == <<"begin", "pointer", "end">>

\* The first position at or after from that holds the line, 0 if none.
FirstAt(lines, line, from) ==
    IF \E i \in from..Len(lines) : lines[i] = line
    THEN CHOOSE i \in from..Len(lines) :
            lines[i] = line /\ \A j \in from..(i - 1) : lines[j] # line
    ELSE 0

\* Replace the managed block that starts at b and ends at e; without an end
\* it takes the rest of the file.
ReplaceBlock(lines, b, e) ==
    SubSeq(lines, 1, b - 1) \o Block
        \o (IF e = 0 THEN <<>> ELSE SubSeq(lines, e + 1, Len(lines)))

\* Slip: the end tag is searched from the start of the file.
UpsertPointer_EndAnywhere(lines) ==
    IF FirstAt(lines, "begin", 1) = 0 THEN lines \o Block
    ELSE ReplaceBlock(lines, FirstAt(lines, "begin", 1), FirstAt(lines, "end", 1))

\* upsertClaudeMdPointer
UpsertPointer(lines) ==
    IF FirstAt(lines, "begin", 1) = 0 THEN lines \o Block
    ELSE ReplaceBlock(lines, FirstAt(lines, "begin", 1),
                      FirstAt(lines, "end", FirstAt(lines, "begin", 1)))

PointerLines == IF Exists(ClaudeMd) THEN disk[ClaudeMd].lines ELSE <<>>

-----------------------------------------------------------------------------
(* The setup command *)

NoSetup == [st |-> "idle", names |-> <<>>, all |-> <<>>, files |-> <<>>,
            global |-> FALSE, dry |-> FALSE, force |-> FALSE, claudeMd |-> FALSE,
            ver |-> 1, action |-> "", seen |-> Plain("none"), conflicts |-> 0,
            exit |-> SetupRunning]

SetupTypeOK ==
    /\ bin \in DOMAIN BodyOf
    /\ ai.st \in {"idle", "assistant", "classify", "write", "pointer", "done"}
    /\ ai.action \in {"", "create", "update", "unchanged", "conflict"}
    /\ ai.conflicts \in 0..(2 * Len(AllCanonicalAssistants))
    /\ ai.exit \in {0, 1, 2, SetupRunning}

EndSetup(code) == ai' = [ai EXCEPT !.st = "done", !.exit = code]

IsPgmiProject == Exists(<<".", "deploy.sql">>) \/ Exists(<<".", "pgmi.yaml">>)

\* Is the pointer wanted: --claude-md, or a yes at the prompt of a terminal
\* (a dry run never asks); only after Claude's own files, in the project.
StartSetup(names, global) ==
    \E dry, force, want \in BOOLEAN :
        ai' = [NoSetup EXCEPT !.st = "assistant", !.names = names, !.all = names,
                   !.global = global, !.dry = dry, !.force = force, !.ver = bin,
                   !.claudeMd = /\ want /\ ~ dry /\ ~ global
                                /\ \E i \in 1..Len(names) : names[i] = "claude"]

\* runAISetup up to its loop.  --all excludes --global.  Without a name a
\* terminal means claude, a script is refused like an unknown name.
RunAISetup ==
    /\ ai.st \in {"idle", "done"}
    /\ \/ IsPgmiProject /\ StartSetup(AllCanonicalAssistants, FALSE)
       \/ \E name \in Assistants, global \in BOOLEAN :
            /\ global \/ IsPgmiProject
            /\ \/ name \in DOMAIN Adapter /\ StartSetup(<<name>>, global)
               \/ name = "" /\ StartSetup(<<"claude">>, global)
               \/ /\ name \notin DOMAIN Adapter
                  /\ ai' = [NoSetup EXCEPT !.st = "done", !.exit = 2]
       \/ /\ ~ IsPgmiProject
          /\ ai' = [NoSetup EXCEPT !.st = "done", !.exit = 1]
    /\ UNCHANGED <<disk, bin>>

\* The next assistant's files; --global is not supported by every one.
NextAssistant ==
    /\ ai.st = "assistant" /\ ai.names # <<>>
    /\ IF Head(ai.names) \in DOMAIN SkillsRoot(ai.global)
       THEN ai' = [ai EXCEPT !.st = "classify", !.names = Tail(ai.names),
                             !.files = Planned(Head(ai.names), ai.global)]
       ELSE EndSetup(1)
    /\ UNCHANGED <<disk, bin>>

\* Read the next file and decide.
Classify ==
    /\ ai.st = "classify" /\ ai.files # <<>>
    /\ ai' = [ai EXCEPT !.st = "write",
                 !.seen = IF Exists(Head(ai.files)) THEN disk[Head(ai.files)] ELSE Plain("none"),
                 !.action = IF Exists(Head(ai.files))
                            THEN ClassifyFile(disk[Head(ai.files)],
                                              RenderManaged(BodyOf[ai.ver], ai.ver))
                            ELSE "create"]
    /\ UNCHANGED <<disk, bin>>

Writes == \/ ai.action \in {"create", "update"}
          \/ ai.action = "conflict" /\ ai.force

Advance(conflicts) == ai' = [ai EXCEPT !.st = "classify", !.files = Tail(ai.files),
                                       !.conflicts = conflicts]

\* Act on the decision: a conflict is left and counted without --force,
\* a dry run only says what it would do.
WriteFile ==
    /\ ai.st = "write"
    /\ disk' = IF Writes /\ ~ ai.dry
               THEN Written(Head(ai.files), RenderManaged(BodyOf[ai.ver], ai.ver))
               ELSE disk
    /\ Advance(ai.conflicts + IF ai.action = "conflict" /\ ~ ai.force THEN 1 ELSE 0)
    /\ UNCHANGED bin

\* Slip: a file that cannot be written is reported and skipped.
WriteFails_Continues ==
    /\ ai.st = "write" /\ Writes /\ ~ ai.dry
    /\ disk' = Written(Head(ai.files), Torn)
    /\ Advance(ai.conflicts)
    /\ UNCHANGED bin

\* A write fails: the command ends, earlier files stay.
WriteFails ==
    /\ ai.st = "write" /\ Writes /\ ~ ai.dry
    /\ disk' \in {disk, Written(Head(ai.files), Torn)}
    /\ EndSetup(1)
    /\ UNCHANGED bin

FilesEnd ==
    /\ ai.st = "classify" /\ ai.files = <<>>
    /\ ai' = [ai EXCEPT !.st = "assistant"]
    /\ UNCHANGED <<disk, bin>>

AssistantsEnd ==
    /\ ai.st = "assistant" /\ ai.names = <<>>
    /\ ai' = [ai EXCEPT !.st = "pointer"]
    /\ UNCHANGED <<disk, bin>>

\* maybeWriteClaudeMd, then the exit code: conflicts fail the command after
\* everything else was written.
WritePointer ==
    /\ ai.st = "pointer"
    /\ disk' = IF ai.claudeMd
               THEN Written(ClaudeMd, [lines |-> UpsertPointer(PointerLines)])
               ELSE disk
    /\ EndSetup(IF ai.conflicts > 0 THEN 1 ELSE 0)
    /\ UNCHANGED bin

\* CLAUDE.md is rewritten in place: a failed write may leave it empty.
PointerFails ==
    /\ ai.st = "pointer" /\ ai.claudeMd /\ UpsertPointer(PointerLines) # PointerLines
    /\ disk' \in {disk, Written(ClaudeMd, [lines |-> <<>>])}
    /\ EndSetup(1)
    /\ UNCHANGED bin

\* The process dies, at worst inside a write.
SetupCrash ==
    /\ ai.st \notin {"idle", "done"}
    /\ disk' \in {disk}
         \cup (IF ai.st = "write" /\ Writes /\ ~ ai.dry
               THEN {Written(Head(ai.files), Torn)} ELSE {})
         \cup (IF ai.st = "pointer" /\ ai.claudeMd /\ UpsertPointer(PointerLines) # PointerLines
               THEN {Written(ClaudeMd, [lines |-> <<>>])} ELSE {})
    /\ ai' = NoSetup
    /\ UNCHANGED bin

SetupStep ==
    \/ NextAssistant \/ Classify \/ WriteFile \/ WriteFails \/ FilesEnd
    \/ AssistantsEnd \/ WritePointer \/ PointerFails \/ SetupCrash
=============================================================================
