---------------------------- MODULE ProjectDisk ----------------------------
(***************************************************************************)
(* The files that `pgmi init` and `pgmi ai setup` write, and what pgmi can *)
(* tell about one of them.  A file is a path <<root, name>>; the project   *)
(* directory is every root that is not below the user's home.  A file is   *)
(* reduced to its body, the managed stamp at its end and its line endings. *)
(* The stamp records the version that rendered the file and a checksum;    *)
(* SHA-256 is taken to be injective, so the checksum IS what it covers.    *)
(***************************************************************************)
EXTENDS Naturals, Sequences

VARIABLE disk       \* the existing files: path -> content

NoStamp == <<>>
HomeRoots == {"~", "~/.claude/skills", "~/.codex", "~/.codex/skills",
              "~/.config/opencode", "~/.gemini"}

\* A file without a stamp: a template's file, or one a user wrote.
Plain(body) == [body |-> body, stamp |-> NoStamp, crlf |-> FALSE]

\* os.WriteFile truncates before it writes; an interrupted one leaves this.
Torn == Plain("torn")

\* The checksum covers body and version line.
Checksum(body, version) == <<body, version>>

\* A guidance file as pgmi renders it.
RenderManaged(body, version) ==
    [body |-> body,
     stamp |-> [version |-> version, sum |-> Checksum(body, version)],
     crlf |-> FALSE]

\* Line endings are normalised before anything is compared.
ParseManaged(content) == [content EXCEPT !.crlf = FALSE]

\* No stamp, or a checksum that no longer covers the file; text with CRLF
\* line ends would not have the checksum of the text with LF.
Edited(managed) ==
    \/ managed.stamp = NoStamp
    \/ managed.crlf
    \/ managed.stamp.sum # Checksum(managed.body, managed.stamp.version)

Exists(path) == path \in DOMAIN disk

\* The file system after a whole write of path, creating what is missing.
Written(path, content) ==
    [p \in DOMAIN disk \cup {path} |-> IF p = path THEN content ELSE disk[p]]
=============================================================================
