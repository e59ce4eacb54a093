----------------------------- MODULE MCMcpServer -----------------------------
EXTENDS McpServer

MCLines ==
  { Blank, Garbage,
    Message("ok", "initialize", "version"),
    Message("ok", "initialize", "noVersion"),
    Message("malformed", "ping", ""),
    Message("absent", "notifications/initialized", ""),
    [Message("ok", "tools/list", "") EXCEPT !.v2 = FALSE],
    Message("ok", "resources/list", ""),
    Message("ok", "tools/call", "otherTool"),
    Message("ok", "tools/call", "unknownTool"),
    Message("ok", "tools/call", "plain"),
    Message("ok", "tools/call", "unlimited"),
    Message("ok", "tools/call", "confirmed"),
    Message("ok", "tools/call", "unconfirmed"),
    Message("ok", "notifications/initialized", ""),
    Message("absent", "tools/call", "confirmed") }
=============================================================================
