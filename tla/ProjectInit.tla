---------------------------- MODULE ProjectInit ----------------------------
(***************************************************************************)
(* `pgmi init`: the init wizard of a terminal session or the flags of a    *)
(* script, then the scaffolder, which checks the directory once more and   *)
(* copies the template file by file.  Nothing is undone when a write       *)
(* fails.  One init runs at a time; the user works on between its steps.   *)
(***************************************************************************)
EXTENDS ProjectDisk, FiniteSets

CONSTANTS
    Templates,      \* template name -> the files it holds, in walk order
    TemplateOrder,  \* the names as the wizard lists them
    AskedTemplates  \* values given to --template

VARIABLE ini        \* the init command

ExitSuccess == 0
ExitError == 1
ExitUsage == 2
Running == 99       \* no exit code yet

\* Files that pgmi itself creates and that do not block a scaffold.
ManagedFiles == {<<".", "pgmi.yaml">>, <<".", ".env">>}
Yaml == <<".", "pgmi.yaml">>

TemplateFiles ==
    UNION {{Templates[t][i] : i \in 1..Len(Templates[t])} : t \in DOMAIN Templates}

\* Every template lies in the project directory, and the walk, which goes by
\* name, meets another file of it before pgmi.yaml.
ASSUME TemplatesAssumption ==
    /\ \A t \in DOMAIN Templates :
          /\ t # "torn"
          /\ Templates[t] \in Seq(TemplateFiles)
          /\ Len(Templates[t]) > 0 /\ Templates[t][1] \notin ManagedFiles
    /\ \A p \in TemplateFiles : p[1] \notin HomeRoots
    /\ TemplateOrder \in Seq(DOMAIN Templates) /\ Len(TemplateOrder) > 0

NoInit == [st |-> "idle", tmpl |-> "", idx |-> 1, conn |-> "none",
           todo |-> <<>>, found |-> {}, exit |-> Running]

Ended == {"idle", "done", "cancelled"}

InitTypeOK ==
    /\ ini.st \in {"idle", "directory", "template", "choice", "connection",
                   "validate", "create", "copy", "save", "done", "cancelled"}
    /\ ini.tmpl \in {""} \cup DOMAIN Templates \cup AskedTemplates
    /\ ini.idx \in 1..Len(TemplateOrder)
    /\ ini.conn \in {"none", "wanted", "configured", "cancelled"}
    /\ ini.exit \in {ExitSuccess, ExitError, ExitUsage, Running}

\* Every entry of the project directory, guidance files included.
Entries == {p \in DOMAIN disk : p[1] \notin HomeRoots}

\* The entries that make pgmi refuse the directory: the same test in the
\* command, the wizard and the scaffolder.
Blocking(entries) == entries \ ManagedFiles

Cancel == ini' = [ini EXCEPT !.st = "cancelled", !.exit = ExitSuccess]

EndInit(code) == ini' = [ini EXCEPT !.st = "done", !.exit = code]

\* runInit: a terminal without --template starts the wizard, with its first
\* template under the cursor; else a blocked directory ends the command.
RunInit ==
    /\ ini.st \in Ended
    /\ \/ ini' = [NoInit EXCEPT !.st = "directory"]
       \/ \E t \in AskedTemplates :
            ini' = [NoInit EXCEPT !.tmpl = t,
                        !.st = IF Blocking(Entries) # {} THEN "done" ELSE "validate",
                        !.exit = IF Blocking(Entries) # {} THEN ExitUsage ELSE Running]
    /\ UNCHANGED disk

\* The directory step: enter refuses a blocked directory and stays, esc
\* cancels the command, which then exits 0.
UpdateDirectory ==
    /\ ini.st = "directory"
    /\ \/ /\ Blocking(Entries) = {}
          /\ ini' = [ini EXCEPT !.st = "template"]
       \/ Cancel
    /\ UNCHANGED disk

CursorDown(i) == IF i < Len(TemplateOrder) THEN i + 1 ELSE i

CursorUp(i) == IF i > 1 THEN i - 1 ELSE i

\* The template step: the cursor is clamped to the list.
UpdateTemplate ==
    /\ ini.st = "template"
    /\ \/ ini' = [ini EXCEPT !.idx = CursorUp(ini.idx)]
       \/ ini' = [ini EXCEPT !.idx = CursorDown(ini.idx)]
       \/ ini' = [ini EXCEPT !.tmpl = TemplateOrder[ini.idx], !.st = "choice"]
       \/ ini' = [ini EXCEPT !.st = "directory"]
    /\ UNCHANGED disk

\* The last step: both arrows toggle the answer, enter takes it.
UpdateSetupChoice ==
    /\ ini.st = "choice"
    /\ \/ ini' = [ini EXCEPT !.conn = IF ini.conn = "wanted" THEN "none" ELSE "wanted"]
       \/ ini' = [ini EXCEPT !.st = IF ini.conn = "wanted" THEN "connection" ELSE "validate"]
       \/ ini' = [ini EXCEPT !.st = "template"]
    /\ UNCHANGED disk

\* ctrl+c in a step of the init wizard itself cancels, with exit 0; the
\* terminal program failing is an error.
AbortWizard ==
    /\ ini.st \in {"directory", "template", "choice", "connection"}
    /\ \/ ini.st # "connection" /\ Cancel
       \/ EndInit(ExitError)
    /\ UNCHANGED disk

\* The embedded connection wizard ends (its own keys are ConnectionWizard's).
\* Cancelling it does not cancel the init: the project is still created.
EndConnection ==
    /\ ini.st = "connection"
    /\ \E c \in {"configured", "cancelled"} :
          ini' = [ini EXCEPT !.conn = c, !.st = "validate"]
    /\ UNCHANGED disk

\* IsValidTemplate, which only a --template can fail.
ValidateTemplate ==
    /\ ini.st = "validate"
    /\ IF ini.tmpl \in DOMAIN Templates
       THEN ini' = [ini EXCEPT !.st = "create"]
       ELSE EndInit(ExitUsage)
    /\ UNCHANGED disk

\* Slip: the scaffolder trusts the check made before the wizard's questions.
CreateProject_Unchecked ==
    /\ ini.st = "create"
    /\ ini' = [ini EXCEPT !.st = "copy", !.todo = Templates[ini.tmpl],
                          !.found = Entries]
    /\ UNCHANGED disk

\* CreateProject looks at the directory again.  found keeps what was there.
CreateProject ==
    /\ ini.st = "create"
    /\ IF Blocking(Entries) # {}
       THEN EndInit(ExitUsage)
       ELSE ini' = [ini EXCEPT !.st = "copy", !.todo = Templates[ini.tmpl],
                               !.found = Entries]
    /\ UNCHANGED disk

\* One file of the walk: a managed file that exists is left alone, any other
\* is written over whatever is there now.
CopyTemplateFile ==
    /\ ini.st = "copy" /\ ini.todo # <<>>
    /\ disk' = IF Head(ini.todo) \in ManagedFiles /\ Exists(Head(ini.todo))
               THEN disk
               ELSE Written(Head(ini.todo), Plain(ini.tmpl))
    /\ ini' = [ini EXCEPT !.todo = Tail(ini.todo)]

\* Slip: a file that cannot be written is skipped.
CopyFails_Continues ==
    /\ ini.st = "copy" /\ ini.todo # <<>>
    /\ ini' = [ini EXCEPT !.todo = Tail(ini.todo)]
    /\ UNCHANGED disk

\* A write fails: the walk and the command end, the files copied so far and
\* the torn one stay.
CopyFails ==
    /\ ini.st = "copy" /\ ini.todo # <<>>
    /\ ~ (Head(ini.todo) \in ManagedFiles /\ Exists(Head(ini.todo)))
    /\ disk' \in {disk, Written(Head(ini.todo), Torn)}
    /\ EndInit(ExitError)

CopyEnds ==
    /\ ini.st = "copy" /\ ini.todo = <<>>
    /\ IF ini.conn = "configured"
       THEN ini' = [ini EXCEPT !.st = "save"]
       ELSE EndInit(ExitSuccess)
    /\ UNCHANGED disk

\* saveConnectionToConfig rewrites pgmi.yaml in place; a failure, also one in
\* the middle of the write, is only a warning.  The password that may go to
\* .pgpass then is ConnectionSetup's.
SaveConnection ==
    /\ ini.st = "save"
    /\ disk' \in {disk, Written(Yaml, Plain("connected")), Written(Yaml, Torn)}
    /\ EndInit(ExitSuccess)

\* The process dies between or inside its writes.
InitCrash ==
    /\ ini.st \notin Ended
    /\ \/ UNCHANGED disk
       \/ /\ ini.st = "copy" /\ ini.todo # <<>>
          /\ ~ (Head(ini.todo) \in ManagedFiles /\ Exists(Head(ini.todo)))
          /\ disk' = Written(Head(ini.todo), Torn)
       \/ ini.st = "save" /\ disk' = Written(Yaml, Torn)
    /\ ini' = NoInit

InitStep ==
    \/ UpdateDirectory \/ UpdateTemplate \/ UpdateSetupChoice \/ AbortWizard
    \/ EndConnection \/ ValidateTemplate \/ CreateProject \/ CopyTemplateFile
    \/ CopyFails \/ CopyEnds \/ SaveConnection \/ InitCrash
=============================================================================
