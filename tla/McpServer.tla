------------------------------ MODULE McpServer ------------------------------
(* `pgmi serve`: the stdio loop of internal/mcp/server.go and the tools of *)
(* internal/cli/serve.go.  A client writes lines and closes its side when  *)
(* it likes; a signal may end the session at any point; the loop takes one *)
(* message at a time.                                                      *)
EXTENDS Naturals, Sequences

CONSTANTS
  Lines,        \* what a client may send; see Message below
  BufferMax,    \* noticeBuffer.max (200 in the code)
  MaxLines,     \* bound on lines sent
  MaxNotices    \* bound on the notices of one deploy

ASSUME BufferAssumption == BufferMax \in Nat \ {0}
ASSUME BoundsAssumption == MaxLines \in Nat /\ MaxNotices \in Nat

(* A line is blank, not JSON, or a message: its jsonrpc member is "2.0" or *)
(* not, its id absent, malformed (null, say) or well formed, and a method  *)
(* with what the method looks at.                                          *)
Blank   == [form |-> "blank", v2 |-> FALSE, id |-> "absent", method |-> "", arg |-> ""]
Garbage == [Blank EXCEPT !.form = "garbage"]
Message(id, method, arg) ==
  [form |-> "message", v2 |-> TRUE, id |-> id, method |-> method, arg |-> arg]

ASSUME LinesAssumption == \A l \in Lines : l \in {Blank, Garbage} \/ l.form = "message"

(* Arguments of tools/call: which tool, and for deploy how overwrite was   *)
(* asked for, or that its timeout is "0", no limit.  Every other tool is   *)
(* its outcome: they read, but for init, whose files are ProjectInit's     *)
(* CreateProject.                                                          *)
DeployArgs == {"plain", "unlimited", "confirmed", "unconfirmed", "mismatch", "badTimeout"}
ToolArgs   == DeployArgs \cup {"otherTool", "unknownTool", "badParams"}

VARIABLES
  in,        \* lines the client has written
  open,      \* the client has not closed its side
  cut,       \* it closed without a newline after its last line
  reader,    \* of our output: it reads, has stalled (the pipe is full), or is gone
  ctx,       \* the context is cancelled
  closed,    \* stdin was closed by runServe's goroutine
  pollable,  \* stdin is a descriptor Go can wait for: closing it ends a read
  pc,
  taken,     \* lines read so far; the current one is in[taken]
  resp,      \* the response about to be written
  out,       \* responses written
  handler,   \* db.NoticeHandler
  buf, total,\* the noticeBuffer of the running deploy
  raised,    \* history: line |-> notices its deploy raised
  dropped,   \* history: lines whose deploy dropped its database
  ret        \* what Serve returned

vars == <<in, open, cut, reader, ctx, closed, pollable, pc, taken, resp, out, handler,
          buf, total, raised, dropped, ret>>

(* A response; `line` is history, the line it answers.                     *)
NoResp == [line |-> 0, id |-> 0, kind |-> "none", notices |-> <<>>, truncated |-> 0]

Init ==
  /\ in = <<>> /\ open = TRUE /\ cut = FALSE /\ reader = "reads"
  /\ ctx = FALSE /\ closed = FALSE /\ pollable \in BOOLEAN
  /\ pc = "loop" /\ taken = 0 /\ resp = NoResp /\ out = <<>>
  /\ handler = "default" /\ buf = <<>> /\ total = 0
  /\ raised = [i \in 1..MaxLines |-> 0] /\ dropped = {}
  /\ ret = "none"

----------------------------------------------------------------------------
(* The client, the signal and the goroutine that unblocks the read         *)

SendLine ==
  /\ open /\ Len(in) < MaxLines
  /\ \E l \in Lines : in' = Append(in, l)
  /\ UNCHANGED <<open, cut, reader, ctx, closed, pollable, pc, taken, resp, out, handler,
                 buf, total, raised, dropped, ret>>

(* The last line may lack its newline, if the server has not read it yet.  *)
CloseInput ==
  /\ open
  /\ open' = FALSE
  /\ cut' \in {FALSE, taken < Len(in)}
  /\ UNCHANGED <<in, reader, ctx, closed, pollable, pc, taken, resp, out, handler, buf,
                 total, raised, dropped, ret>>

(* The client stops reading, goes on, or is gone for good.  All of that    *)
(* shows only when a response is to be written.                            *)
StallOutput ==
  /\ reader = "reads" /\ pc = "write"
  /\ reader' = "stalled"
  /\ UNCHANGED <<in, open, cut, ctx, closed, pollable, pc, taken, resp, out,
                 handler, buf, total, raised, dropped, ret>>

ResumeOutput ==
  /\ reader = "stalled"
  /\ reader' = "reads"
  /\ UNCHANGED <<in, open, cut, ctx, closed, pollable, pc, taken, resp, out,
                 handler, buf, total, raised, dropped, ret>>

BreakOutput ==
  /\ reader # "gone" /\ pc = "write"
  /\ reader' = "gone"
  /\ UNCHANGED <<in, open, cut, ctx, closed, pollable, pc, taken, resp, out,
                 handler, buf, total, raised, dropped, ret>>

Signal ==
  /\ ~ctx /\ pc # "done"
  /\ ctx' = TRUE
  /\ UNCHANGED <<in, open, cut, reader, closed, pollable, pc, taken, resp, out, handler,
                 buf, total, raised, dropped, ret>>

CloseStdin_Never == FALSE /\ UNCHANGED vars

CloseStdin ==
  /\ ctx /\ ~closed
  /\ closed' = TRUE
  /\ UNCHANGED <<in, open, cut, reader, ctx, pollable, pc, taken, resp, out, handler, buf,
                 total, raised, dropped, ret>>

----------------------------------------------------------------------------
(* Serve                                                                   *)

Return(r) == pc' = "done" /\ ret' = r

CheckContext ==
  /\ pc = "loop"
  /\ IF ctx THEN Return("ctx") ELSE pc' = "read" /\ UNCHANGED ret
  /\ UNCHANGED <<in, open, cut, reader, ctx, closed, pollable, taken, resp, out, handler,
                 buf, total, raised, dropped>>

ReadLine_Terminated ==
  /\ pc \in {"read", "pending"} /\ taken < Len(in)
  /\ cut => taken + 1 < Len(in)
  /\ taken' = taken + 1
  /\ pc' = "handle"
  /\ UNCHANGED <<in, open, cut, reader, ctx, closed, pollable, resp, out,
                 handler, buf, total, raised, dropped, ret>>

(* ReadString finds a line in its buffer, also one read before stdin was   *)
(* closed, or gets one from the read that is pending.                      *)
ReadLine ==
  /\ pc \in {"read", "pending"} /\ taken < Len(in)
  /\ taken' = taken + 1
  /\ pc' = "handle"
  /\ UNCHANGED <<in, open, cut, reader, ctx, closed, pollable, resp, out,
                 handler, buf, total, raised, dropped, ret>>

(* It finds none and enters the read of the descriptor.                    *)
EnterRead ==
  /\ pc = "read" /\ ~closed
  /\ pc' = "pending"
  /\ UNCHANGED <<in, open, cut, reader, ctx, closed, pollable, taken, resp, out,
                 handler, buf, total, raised, dropped, ret>>

ReadEOF ==
  /\ pc = "pending" /\ taken = Len(in) /\ ~open
  /\ Return("nil")
  /\ UNCHANGED <<in, open, cut, reader, ctx, closed, pollable, taken, resp, out,
                 handler, buf, total, raised, dropped>>

(* A read on a stdin that our goroutine closed: ctx.Err() is set by then.  *)
(* Go refuses a new read; one that is pending it ends only on a descriptor *)
(* it polls, and os.Stdin is one only if it was non-blocking from the      *)
(* start: a pipe or a terminal handed to the process usually is not.       *)
ReadFails ==
  /\ closed
  /\ pc = "read" \/ (pc = "pending" /\ pollable)
  /\ Return("ctx")
  /\ UNCHANGED <<in, open, cut, reader, ctx, closed, pollable, taken, resp, out,
                 handler, buf, total, raised, dropped>>

AtEOF == cut /\ taken = Len(in)

(* The end of a turn: a line that came with EOF was the last one.          *)
Turn == IF AtEOF THEN Return("nil") ELSE pc' = "loop" /\ UNCHANGED ret

HandleBlank ==
  /\ pc = "handle" /\ in[taken].form = "blank"
  /\ Turn
  /\ UNCHANGED <<in, open, cut, reader, ctx, closed, pollable, taken, resp, out, handler,
                 buf, total, raised, dropped>>

Answer(id, kind) ==
  /\ resp' = [NoResp EXCEPT !.line = taken, !.id = id, !.kind = kind]
  /\ pc' = "write"

HandleGarbage ==
  /\ pc = "handle" /\ in[taken].form = "garbage"
  /\ IF ctx
     THEN Return("ctx") /\ UNCHANGED resp
     ELSE Answer(0, "parseError") /\ UNCHANGED ret
  /\ UNCHANGED <<in, open, cut, reader, ctx, closed, pollable, taken, out, handler, buf,
                 total, raised, dropped>>

ResponseID_Echo(m) == IF m.id = "absent" THEN 0 ELSE taken

(* The id a response carries: null (0) unless the request's is well formed. *)
ResponseID(m) == IF m.id = "ok" THEN taken ELSE 0

IsNotification(m) == m.id = "absent"

(* callTool, for what does not deploy.                                     *)
CallTool(arg) ==
  CASE arg \in {"unknownTool", "badParams"} -> {"invalidParams"}
    [] arg = "otherTool"                    -> {"result", "isError"}
    [] OTHER                                -> {"isError"}

(* dispatch's cases that answer at once; a tool or method that needs no    *)
(* state of the server is its outcome.                                     *)
Outcomes(m) ==
  IF ~m.v2 \/ m.id = "malformed" THEN {"invalidRequest"}
  ELSE CASE m.method = "initialize"             -> {IF m.arg = "version" THEN "result" ELSE "invalidParams"}
         [] m.method \in {"ping", "tools/list"} -> {"result"}
         [] m.method = "tools/call"             -> CallTool(m.arg)
         [] OTHER                               -> {"methodNotFound"}

(* Whether dispatch reports a message as one to leave unanswered.          *)
Silent(m) ==
  \/ IsNotification(m)
  \/ m.v2 /\ m.id = "ok" /\ m.method = "notifications/initialized"

ConfirmOverwrite_EmptyPasses(m) ==
  m.arg \in {"plain", "unlimited", "confirmed", "unconfirmed"}

(* confirmOverwrite and the timeout, before anything connects.             *)
ConfirmOverwrite(m) == m.arg \in {"plain", "unlimited", "confirmed"}

(* A deploy that runs; tools/call as a notification is not executed.       *)
RunsDeploy(m) ==
  /\ m.v2 /\ m.id = "ok" /\ m.method = "tools/call"
  /\ m.arg \in DeployArgs /\ ConfirmOverwrite(m)

(* dispatch, with callTool's recover: a tool that panics is "isError".     *)
Dispatch ==
  /\ pc = "handle" /\ in[taken].form = "message" /\ ~RunsDeploy(in[taken])
  /\ IF Silent(in[taken])
     THEN Turn /\ UNCHANGED resp
     ELSE /\ \E k \in Outcomes(in[taken]) : Answer(ResponseID(in[taken]), k)
          /\ UNCHANGED ret
  /\ UNCHANGED <<in, open, cut, reader, ctx, closed, pollable, taken, out, handler, buf,
                 total, raised, dropped>>

----------------------------------------------------------------------------
(* mcpDeployHandler                                                        *)

StartDeploy ==
  /\ pc = "handle" /\ in[taken].form = "message" /\ RunsDeploy(in[taken])
  /\ handler' = "buffer" /\ buf' = <<>> /\ total' = 0
  /\ pc' = "deploy"
  /\ UNCHANGED <<in, open, cut, reader, ctx, closed, pollable, taken, resp, out, raised,
                 dropped, ret>>

BufferAdd_DropsNewest(n) == IF Len(buf) >= BufferMax THEN buf ELSE Append(buf, n)

(* noticeBuffer.add                                                        *)
BufferAdd(n) ==
  IF Len(buf) + 1 > BufferMax THEN Append(Tail(buf), n) ELSE Append(buf, n)

(* The server raises a notice: the handler in place gets it.  Its name is  *)
(* its line and its place in that deploy.                                  *)
Notice ==
  /\ pc = "deploy" /\ raised[taken] < MaxNotices
  /\ raised' = [raised EXCEPT ![taken] = @ + 1]
  /\ buf' = BufferAdd(<<taken, raised[taken] + 1>>)
  /\ total' = total + 1
  /\ UNCHANGED <<in, open, cut, reader, ctx, closed, pollable, pc, taken, resp, out,
                 handler, dropped, ret>>

Drop ==
  /\ pc = "deploy" /\ in[taken].arg \notin {"plain", "unlimited"} /\ taken \notin dropped
  /\ dropped' = dropped \cup {taken}
  /\ UNCHANGED <<in, open, cut, reader, ctx, closed, pollable, pc, taken, resp, out,
                 handler, buf, total, raised, ret>>

(* The deploy returns, fails or panics; the deferred restore runs in each  *)
(* case.  A panic's error carries a stack in place of the notices.         *)
EndDeploy ==
  /\ pc = "deploy"
  /\ \/ resp' = [line |-> taken, id |-> ResponseID(in[taken]), kind |-> "panicked",
                 notices |-> <<>>, truncated |-> 0]
     \/ \E k \in {"result", "isError"} :
          resp' = [line |-> taken, id |-> ResponseID(in[taken]), kind |-> k,
                   notices |-> buf, truncated |-> total - Len(buf)]
  /\ handler' = "default"
  /\ pc' = "write"
  /\ UNCHANGED <<in, open, cut, reader, ctx, closed, pollable, taken, out, buf, total,
                 raised, dropped, ret>>

(* A deploy's context ends with the tool's timeout, if it has one, or with *)
(* the signal.                                                             *)
Deadline == in[taken].arg # "unlimited" \/ ctx

(* write: Encode waits for a pipe that is full.                            *)
Write ==
  /\ pc = "write" /\ reader # "stalled"
  /\ IF reader = "gone"
     THEN Return("writeError") /\ UNCHANGED <<out, resp>>
     ELSE out' = Append(out, resp) /\ resp' = NoResp /\ Turn
  /\ UNCHANGED <<in, open, cut, reader, ctx, closed, pollable, taken, handler,
                 buf, total, raised, dropped>>

Serve ==
  \/ CheckContext \/ ReadLine \/ EnterRead \/ ReadEOF \/ ReadFails
  \/ HandleBlank \/ HandleGarbage \/ Dispatch
  \/ StartDeploy \/ Write

Next ==
  \/ SendLine \/ CloseInput \/ StallOutput \/ ResumeOutput \/ BreakOutput
  \/ Signal \/ CloseStdin
  \/ Serve \/ EndDeploy \/ Notice \/ Drop

(* The loop is one goroutine that has its turn whenever it is not waiting, *)
(* the one that closes stdin likewise; a client that goes on reading makes *)
(* room for the response that waits; and a deploy ends once its context    *)
(* has.  Clients, signals and notices owe nothing, a deploy without a      *)
(* limit neither.                                                          *)
Spec ==
  /\ Init /\ [][Next]_vars
  /\ WF_vars(Serve) /\ WF_vars(CloseStdin) /\ SF_vars(Write)
  /\ WF_vars(EndDeploy /\ Deadline)

----------------------------------------------------------------------------
Kinds == {"none", "parseError", "invalidRequest", "invalidParams",
          "methodNotFound", "result", "isError", "panicked"}

Response == [line : Nat, id : Nat, kind : Kinds, notices : Seq(Nat \X Nat),
             truncated : Nat]

(* Every variable has its type; a line in hand is one that was sent, the   *)
(* buffer stays within its limit and counts what it lost, and Serve has    *)
(* returned something exactly when it is done.                             *)
TypeOK ==
  /\ in \in Seq(Lines) /\ Len(in) <= MaxLines
  /\ open \in BOOLEAN /\ cut \in BOOLEAN /\ reader \in {"reads", "stalled", "gone"}
  /\ ctx \in BOOLEAN /\ closed \in BOOLEAN /\ pollable \in BOOLEAN
  /\ pc \in {"loop", "read", "pending", "handle", "deploy", "write", "done"}
  /\ taken \in 0..Len(in)
  /\ pc \in {"handle", "deploy", "write"} => taken > 0
  /\ resp \in Response /\ out \in Seq(Response)
  /\ handler \in {"default", "buffer"}
  /\ buf \in Seq(Nat \X Nat) /\ total \in Nat
  /\ Len(buf) <= BufferMax /\ Len(buf) <= total
  /\ raised \in [1..MaxLines -> 0..MaxNotices] /\ dropped \subseteq 1..MaxLines
  /\ ret \in {"none", "nil", "ctx", "writeError"}
  /\ ret # "none" <=> pc = "done"

(* What is owed an answer: a line that does not parse, and any message     *)
(* with an id.  The code leaves unanswered, and so does this, a message    *)
(* with an id whose method is one of the protocol's notifications; JSON-RPC *)
(* would call it a request.                                                *)
NeedsAnswer(l) ==
  \/ l.form = "garbage"
  \/ /\ l.form = "message" /\ l.id # "absent"
     /\ l.v2 /\ l.id = "ok" => l.method # "notifications/initialized"

Owed(n)  == {i \in 1..n : NeedsAnswer(in[i])}
Answered == {out[j].line : j \in DOMAIN out}

(* Every line the loop took is answered exactly once, in order, under its  *)
(* own id (null when it has none to echo), a bad line, a failing tool or a *)
(* panic among them or not; notifications are not answered (Serve,         *)
(* dispatch, callTool).  A session that ends cleanly left nothing unread   *)
(* or unanswered, also when the last line came without its newline         *)
(* (Serve's atEOF).  Whether a line that does not parse may end the        *)
(* session is left open, since the sources disagree: the loop goes on, as  *)
(* its comment says (server.go:104-110), and the command's help says it    *)
(* ends (serve.go:53-55).                                                  *)
AnswersInOrder ==
  /\ \A i, j \in DOMAIN out : i < j => out[i].line < out[j].line
  /\ \A j \in DOMAIN out :
       out[j].id = IF in[out[j].line].id = "ok" THEN out[j].line ELSE 0
  /\ \/ Answered = Owed(taken)
     \/ /\ pc \in {"handle", "deploy", "write"} \/ ret \in {"ctx", "writeError"}
        /\ taken > 0 /\ Answered = Owed(taken - 1)
  /\ ret = "nil" =>
       /\ Answered = Owed(taken)
       /\ taken = Len(in) \/ (taken > 0 /\ in[taken].form = "garbage")

(* What is left of a deploy's n notices.                                   *)
Kept(n) == IF n < BufferMax THEN n ELSE BufferMax
LastNotices(k, n) == [i \in 1..Kept(n) |-> <<k, n - Kept(n) + i>>]

CarriesNotices(r) ==
  r.kind \in {"result", "isError"} /\ RunsDeploy(in[r.line]) =>
    /\ r.notices = LastNotices(r.line, raised[r.line])
    /\ r.truncated = raised[r.line] - Kept(raised[r.line])

(* A deploy's response carries the last notices of that very deploy, in    *)
(* order, and the number of those that did not fit (noticeBuffer).         *)
(* Outside a deploy notices go to stderr: the swap of the package-level    *)
(* handler is undone on every way out, a panic included                    *)
(* (mcpDeployHandler's defer).                                             *)
NoticesBelong ==
  /\ \A j \in DOMAIN out : CarriesNotices(out[j])
  /\ handler = "buffer" <=> pc = "deploy"

(* A database is dropped only for a request that can be answered and that  *)
(* repeated the database's name (confirmOverwrite, dispatch).              *)
DropsAreConfirmed ==
  \A i \in dropped : in[i].id = "ok" /\ in[i].arg = "confirmed"

(* What the loop may wait for without end: a line on a stdin whose pending *)
(* read closing it does not end, from a client that neither writes nor     *)
(* closes; a client that does not take what it asked for; a deploy that    *)
(* was given no limit and has had no signal.                               *)
Stuck ==
  \/ pc = "pending" /\ taken = Len(in) /\ open /\ ~pollable
  \/ pc = "write" /\ reader = "stalled"
  \/ pc = "deploy" /\ ~Deadline

(* A signal ends the session whatever the loop is doing, a deploy without  *)
(* a limit included (runServe's goroutine, the checks of ctx.Err()); the   *)
(* exceptions are a read and a write that stay stuck for good.             *)
SignalEndsSession == ctx ~> (pc = "done" \/ []Stuck)

(* A line that arrived is dealt with sooner or later, unless the session   *)
(* is over, or stuck for good.                                             *)
LinesAreServed ==
  \A i \in 1..MaxLines :
    Len(in) >= i ~>
      \/ pc = "done" \/ []Stuck
      \/ taken >= i /\ pc \in {"loop", "read", "pending"}
=============================================================================
