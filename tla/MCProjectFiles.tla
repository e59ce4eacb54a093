--------------------------- MODULE MCProjectFiles ---------------------------
(* Two small templates, three versions of pgmi of which the second changes *)
(* nothing but its number, and a CLAUDE.md with its markers mixed up.      *)
EXTENDS ProjectFiles, TLC

MCTemplates ==
    "basic" :> <<<<".", "README.md">>, <<".", "deploy.sql">>, <<".", "pgmi.yaml">>>> @@
    "advanced" :> <<<<".", "deploy.sql">>, <<".", "pgmi.yaml">>>>
MCTemplateOrder == <<"basic", "advanced">>
MCAskedTemplates == {"basic", "nosuch"}
MCBodyOf == <<"b1", "b1", "b2">>
MCCanonical == <<"claude", "agents">>
MCAssistants == {"", "claude", "codex", "cursor", "nosuch"}
MCUserDocs == {<<"u">>, <<"begin", "u", "v">>, <<"end", "u", "begin", "v", "end", "w">>,
               <<"u", "begin", "end", "v", "begin", "w">>}
=============================================================================
