--------------------------- MODULE McpServerProofs ---------------------------
(* Proofs about McpServer, for any messages a client may send, any         *)
(* limit of the notice buffer and any bounds on lines and notices.         *)
EXTENDS McpServer, SequenceTheorems, TLAPS

(* The buffer takes a notice within its limit, and what it drops is        *)
(* counted.                                                                *)
LEMMA BufferAddType ==
  ASSUME TypeOK, NEW n \in Nat \X Nat
  PROVE  /\ BufferAdd(n) \in Seq(Nat \X Nat)
         /\ Len(BufferAdd(n)) <= BufferMax
         /\ Len(BufferAdd(n)) <= total + 1
<1>1. buf \in Seq(Nat \X Nat) /\ Len(buf) \in Nat /\ Len(buf) <= BufferMax /\ Len(buf) <= total
  BY DEF TypeOK
<1>2. CASE Len(buf) + 1 > BufferMax
  <2>1. buf # <<>>
    BY <1>1, <1>2, BufferAssumption
  <2>2. Tail(buf) \in Seq(Nat \X Nat) /\ Len(Tail(buf)) = Len(buf) - 1
    BY <1>1, <2>1
  <2>3. Append(Tail(buf), n) \in Seq(Nat \X Nat) /\ Len(Append(Tail(buf), n)) = Len(buf)
    BY <1>1, <2>2
  <2> QED
    BY <1>1, <1>2, <2>3, BufferAssumption DEF BufferAdd, TypeOK
<1>3. CASE ~(Len(buf) + 1 > BufferMax)
  <2>1. Append(buf, n) \in Seq(Nat \X Nat) /\ Len(Append(buf, n)) = Len(buf) + 1
    BY <1>1
  <2> QED
    BY <1>1, <1>3, <2>1, BufferAssumption DEF BufferAdd, TypeOK
<1> QED
  BY <1>2, <1>3

(* What the client does about our output, and where a line is read.        *)
Output  == StallOutput \/ ResumeOutput \/ BreakOutput
Reading == pc \in {"read", "pending"}

(* The empty response is one.                                              *)
LEMMA NoRespType == NoResp \in Response
<1>1. <<>> \in Seq(Nat \X Nat)
  OBVIOUS
<1> QED
  BY <1>1 DEF NoResp, Response, Kinds

(* Every action of McpServer keeps every variable in its type.             *)
LEMMA TypeStep == TypeOK /\ [Next]_vars => TypeOK'
<1> SUFFICES ASSUME TypeOK, [Next]_vars PROVE TypeOK'
  OBVIOUS
<1> USE BoundsAssumption, BufferAssumption
<1>1. NoResp \in Response
  BY NoRespType
<1>2. CASE UNCHANGED vars
  BY <1>2 DEF vars, TypeOK
<1>3. CASE SendLine
  <2>1. in' \in Seq(Lines) /\ Len(in') = Len(in) + 1 /\ Len(in) < MaxLines
    BY <1>3 DEF SendLine, TypeOK
  <2>2. taken' \in 0..Len(in')
    BY <1>3, <2>1 DEF SendLine, TypeOK
  <2> QED
    BY <1>3, <2>1, <2>2 DEF SendLine, TypeOK
<1>4. CASE CloseInput \/ Output \/ Signal \/ CloseStdin
  <2>1. /\ open' \in BOOLEAN /\ cut' \in BOOLEAN /\ reader' \in {"reads", "stalled", "gone"}
        /\ ctx' \in BOOLEAN /\ closed' \in BOOLEAN
    <3>1. CASE CloseInput
      <4>1. (taken < Len(in)) \in BOOLEAN
        OBVIOUS
      <4>2. cut' \in BOOLEAN /\ open' \in BOOLEAN
        BY <3>1, <4>1, Zenon DEF CloseInput
      <4> QED
        BY <3>1, <4>2 DEF CloseInput, TypeOK
    <3>2. CASE Output
      BY <3>2 DEF Output, StallOutput, ResumeOutput, BreakOutput, TypeOK
    <3>3. CASE Signal
      BY <3>3 DEF Signal, TypeOK
    <3>4. CASE CloseStdin
      BY <3>4 DEF CloseStdin, TypeOK
    <3> QED
      BY <1>4, <3>1, <3>2, <3>3, <3>4
  <2>2. UNCHANGED <<in, pollable, pc, taken, resp, out, handler, buf, total, raised,
                    dropped, ret>>
    BY <1>4 DEF CloseInput, Output, StallOutput, ResumeOutput, BreakOutput, Signal,
       CloseStdin
  <2> QED
    BY <2>1, <2>2 DEF TypeOK
<1>5. CASE CheckContext \/ ReadLine \/ EnterRead \/ ReadEOF \/ ReadFails \/ HandleBlank
  <2>1. UNCHANGED <<in, open, cut, reader, ctx, closed, pollable, resp, out, handler, buf,
                    total, raised, dropped>>
    BY <1>5 DEF CheckContext, ReadLine, EnterRead, ReadEOF, ReadFails, HandleBlank
  <2>2. \/ pc' = "handle" /\ taken' = taken + 1 /\ taken < Len(in) /\ ret' = ret /\ Reading
        \/ pc' \in {"loop", "read", "pending"} /\ taken' = taken /\ ret' = ret /\ pc # "done"
        \/ pc' = "done" /\ taken' = taken /\ ret' \in {"nil", "ctx"}
    BY <1>5 DEF CheckContext, ReadLine, EnterRead, ReadEOF, ReadFails, HandleBlank, Turn, Return,
       Reading
  <2>3. CASE pc' = "handle" /\ taken' = taken + 1 /\ taken < Len(in) /\ ret' = ret /\ Reading
    BY <2>1, <2>3 DEF TypeOK, Reading
  <2>4. CASE pc' \in {"loop", "read", "pending"} /\ taken' = taken /\ ret' = ret /\ pc # "done"
    BY <2>1, <2>4 DEF TypeOK
  <2>5. CASE pc' = "done" /\ taken' = taken /\ ret' \in {"nil", "ctx"}
    BY <2>1, <2>5 DEF TypeOK
  <2> QED
    BY <2>2, <2>3, <2>4, <2>5
<1>6. ASSUME NEW k \in Kinds, NEW i \in Nat, pc = "handle", Answer(i, k),
             UNCHANGED <<in, open, cut, reader, ctx, closed, pollable, taken, out, handler, buf,
                         total, raised, dropped, ret>>
      PROVE  TypeOK'
  <2>1. resp' \in Response /\ pc' = "write"
    <3>1. resp' = [NoResp EXCEPT !.line = taken, !.id = i, !.kind = k]
      BY <1>6 DEF Answer
    <3>2. taken \in Nat
      BY DEF TypeOK
    <3> QED
      BY <1>1, <1>6, <3>1, <3>2 DEF Answer, Response
  <2> QED
    BY <1>6, <2>1 DEF TypeOK
<1>7. CASE HandleGarbage
  <2>1. CASE ctx
    BY <1>7, <2>1 DEF HandleGarbage, Return, TypeOK
  <2>2. CASE ~ctx
    BY <1>6, <1>7, <2>2 DEF HandleGarbage, Kinds
  <2> QED
    BY <2>1, <2>2
<1>8. CASE Dispatch
  <2>1. CASE Silent(in[taken])
    BY <1>8, <2>1 DEF Dispatch, Turn, Return, TypeOK
  <2>2. CASE ~Silent(in[taken])
    <3>1. PICK k \in Outcomes(in[taken]) : Answer(ResponseID(in[taken]), k)
      BY <1>8, <2>2 DEF Dispatch
    <3>2. ResponseID(in[taken]) \in Nat
      BY DEF ResponseID, TypeOK
    <3>3. k \in Kinds
      BY <3>1 DEF Outcomes, CallTool, Kinds
    <3> QED
      BY <1>6, <1>8, <2>2, <3>1, <3>2, <3>3 DEF Dispatch
  <2> QED
    BY <2>1, <2>2
<1>9. CASE StartDeploy
  <2>1. buf' \in Seq(Nat \X Nat) /\ Len(buf') = 0 /\ total' = 0
    BY <1>9 DEF StartDeploy
  <2> QED
    BY <1>9, <2>1 DEF StartDeploy, TypeOK
<1>10. CASE Notice
  <2>1. taken \in 1..MaxLines /\ raised[taken] \in Nat /\ raised[taken] < MaxNotices
    BY <1>10 DEF Notice, TypeOK
  <2>2. <<taken, raised[taken] + 1>> \in Nat \X Nat
    BY <2>1
  <2>3. /\ buf' \in Seq(Nat \X Nat)
        /\ Len(buf') <= BufferMax /\ Len(buf') <= total + 1 /\ total' = total + 1
    BY <1>10, <2>2, BufferAddType DEF Notice
  <2>4. raised' \in [1..MaxLines -> 0..MaxNotices]
    BY <1>10, <2>1 DEF Notice, TypeOK
  <2>5. total' \in Nat /\ Len(buf') <= total'
    BY <2>3 DEF TypeOK
  <2>6. UNCHANGED <<in, open, cut, reader, ctx, closed, pollable, pc, taken, resp, out, handler,
                    dropped, ret>>
    BY <1>10 DEF Notice
  <2> QED
    BY <2>3, <2>4, <2>5, <2>6 DEF TypeOK
<1>11. CASE Drop
  <2>1. taken \in 1..MaxLines
    BY <1>11 DEF Drop, TypeOK
  <2> QED
    BY <1>11, <2>1 DEF Drop, TypeOK
<1>12. CASE EndDeploy
  <2>1. ResponseID(in[taken]) \in Nat /\ taken \in Nat /\ total - Len(buf) \in Nat
        /\ buf \in Seq(Nat \X Nat) /\ <<>> \in Seq(Nat \X Nat)
    BY DEF ResponseID, TypeOK
  <2>2. resp' \in Response
    <3>1. CASE resp' = [line |-> taken, id |-> ResponseID(in[taken]), kind |-> "panicked",
                        notices |-> <<>>, truncated |-> 0]
      BY <2>1, <3>1 DEF Response, Kinds
    <3>2. ASSUME NEW k \in {"result", "isError"},
                 resp' = [line |-> taken, id |-> ResponseID(in[taken]), kind |-> k,
                          notices |-> buf, truncated |-> total - Len(buf)]
          PROVE  resp' \in Response
      BY <2>1, <3>2 DEF Response, Kinds
    <3> QED
      BY <1>12, <3>1, <3>2 DEF EndDeploy
  <2> QED
    BY <1>12, <2>2 DEF EndDeploy, TypeOK
<1>13. CASE Write
  <2>1. CASE reader = "gone"
    BY <1>13, <2>1 DEF Write, Return, TypeOK
  <2>2. CASE reader # "gone"
    <3>1. out' \in Seq(Response) /\ resp' \in Response
      <4>1. out' = Append(out, resp) /\ resp' = NoResp
        BY <1>13, <2>2 DEF Write
      <4>2. out \in Seq(Response) /\ resp \in Response
        BY DEF TypeOK
      <4> QED
        BY <1>1, <4>1, <4>2
    <3> QED
      BY <1>13, <2>2, <3>1 DEF Write, Turn, Return, TypeOK
  <2> QED
    BY <2>1, <2>2
<1> QED
  BY <1>2, <1>3, <1>4, <1>5, <1>7, <1>8, <1>9, <1>10, <1>11, <1>12, <1>13
     DEF Next, Serve, Output

(* Type correctness of the server's loop.                                  *)
THEOREM TypeCorrect == Spec => []TypeOK
<1>1. ASSUME Init PROVE TypeOK
  <2>1. in \in Seq(Lines) /\ Len(in) = 0 /\ Len(in) <= MaxLines /\ taken \in 0..Len(in)
    BY <1>1, BoundsAssumption DEF Init
  <2>2. /\ buf \in Seq(Nat \X Nat) /\ total \in Nat
        /\ Len(buf) <= BufferMax /\ Len(buf) <= total
    BY <1>1, BufferAssumption DEF Init
  <2>3. resp \in Response /\ out \in Seq(Response)
    BY <1>1, NoRespType DEF Init
  <2>4. raised \in [1..MaxLines -> 0..MaxNotices] /\ dropped \subseteq 1..MaxLines
    BY <1>1, BoundsAssumption DEF Init
  <2> QED
    BY <1>1, <2>1, <2>2, <2>3, <2>4 DEF Init, TypeOK
<1> QED
  BY <1>1, TypeStep, PTL DEF Spec

----------------------------------------------------------------------------
(* Answers                                                                 *)

(* The loop deploys only for a request that may deploy, and writes only    *)
(* what is owed, for the line in hand and under its id.                    *)
InHand ==
  /\ pc = "deploy" => in[taken].form = "message" /\ RunsDeploy(in[taken])
  /\ pc = "write" => /\ NeedsAnswer(in[taken])
                     /\ resp.line = taken
                     /\ resp.id = ResponseID(in[taken])

(* A clean end comes only after the client has closed its side, with       *)
(* everything read.                                                        *)
CleanEnd ==
  /\ cut => ~open
  /\ ret = "nil" => taken = Len(in) /\ ~open

(* Between two lines everything taken is answered; with a line in hand,    *)
(* everything before it; and a session cut short lost at most the line in  *)
(* hand.                                                                   *)
Accounted ==
  /\ pc \in {"loop", "read", "pending"} \/ ret = "nil" => Answered = Owed(taken)
  /\ pc \in {"handle", "deploy", "write"} => Answered = Owed(taken - 1)
  /\ ret \in {"ctx", "writeError"} =>
       Answered = Owed(taken) \/ (taken > 0 /\ Answered = Owed(taken - 1))

Ascending == \A i, j \in DOMAIN out : i < j => out[i].line < out[j].line

OwnIDs ==
  \A j \in DOMAIN out :
    out[j].id = IF in[out[j].line].id = "ok" THEN out[j].line ELSE 0

AnswerInv ==
  /\ InHand /\ CleanEnd /\ Accounted /\ Ascending /\ OwnIDs
  /\ DropsAreConfirmed /\ dropped \subseteq 1..taken

(* The lines taken so far keep their place when the client sends another.  *)
LEMMA SentLinesStay ==
  ASSUME TypeOK, SendLine
  PROVE  /\ Len(in') = Len(in) + 1
         /\ \A i \in 1..Len(in) : in'[i] = in[i]
BY DEF TypeOK, SendLine

(* What is owed grows with the line in hand, or not.                       *)
LEMMA OwedNext ==
  ASSUME TypeOK, taken > 0
  PROVE  Owed(taken) = IF NeedsAnswer(in[taken]) THEN Owed(taken - 1) \cup {taken}
                       ELSE Owed(taken - 1)
<1>1. taken \in Nat /\ 1..taken = (1..(taken - 1)) \cup {taken}
  BY DEF TypeOK
<1> QED
  BY <1>1 DEF Owed

(* Every response on the wire is to a line taken.                          *)
LEMMA AnsweredLines ==
  ASSUME TypeOK, Accounted
  PROVE  \A j \in DOMAIN out : out[j].line \in 1..taken
<1>1. taken \in Nat
  BY DEF TypeOK
<1>2. Answered = Owed(taken) \/ (taken > 0 /\ Answered = Owed(taken - 1))
  BY DEF Accounted, TypeOK
<1>3. Owed(taken) \subseteq 1..taken /\ Owed(taken - 1) \subseteq 1..taken
  BY <1>1 DEF Owed
<1> QED
  BY <1>2, <1>3 DEF Answered

(* With a line in hand, every response on the wire is to an earlier one.   *)
LEMMA AnsweredBefore ==
  ASSUME TypeOK, Accounted, pc \in {"handle", "deploy", "write"}
  PROVE  \A j \in DOMAIN out : out[j].line \in 1..(taken - 1)
<1>1. Answered = Owed(taken - 1)
  BY DEF Accounted
<1> QED
  BY <1>1 DEF Owed, Answered

(* Steps that read no line, write no response and drop nothing keep        *)
(* AnswerInv, if the line in hand is handled as it should be.              *)
LEMMA SettledStep ==
  ASSUME TypeOK, AnswerInv, InHand', CleanEnd', Accounted',
         UNCHANGED <<in, taken, out, dropped>>
  PROVE  AnswerInv'
BY DEF AnswerInv, Ascending, OwnIDs, DropsAreConfirmed

(* Every action of McpServer keeps AnswerInv.                              *)
LEMMA AnswerStep == TypeOK /\ AnswerInv /\ [Next]_vars => AnswerInv'
<1> SUFFICES ASSUME TypeOK, AnswerInv, [Next]_vars PROVE AnswerInv'
  OBVIOUS
<1>1. InHand /\ CleanEnd /\ Accounted
  BY DEF AnswerInv
<1>2. CASE UNCHANGED vars
  <2>1. InHand' /\ CleanEnd' /\ Accounted'
    BY <1>1, <1>2 DEF vars, InHand, CleanEnd, Accounted, Answered, Owed, ResponseID
  <2> QED
    BY <1>2, <2>1, SettledStep DEF vars
<1>3. CASE SendLine
  <2>1. /\ UNCHANGED <<open, cut, pc, taken, resp, out, dropped, ret>>
        /\ open /\ taken \in 0..Len(in) /\ Len(in) \in Nat
    BY <1>3 DEF SendLine, TypeOK
  <2>2. \A i \in 1..taken : in'[i] = in[i]
    BY <1>3, <2>1, SentLinesStay
  <2>3. Owed(taken)' = Owed(taken) /\ Owed(taken - 1)' = Owed(taken - 1)
    BY <2>1, <2>2 DEF Owed
  <2>4. Accounted'
    BY <1>1, <2>1, <2>3 DEF Accounted, Answered
  <2>5. CleanEnd'
    BY <1>1, <2>1 DEF CleanEnd
  <2>6. InHand'
    <3>1. pc \in {"deploy", "write"} => in'[taken] = in[taken]
      BY <2>1, <2>2 DEF TypeOK
    <3> QED
      BY <1>1, <2>1, <3>1 DEF InHand, ResponseID
  <2>7. OwnIDs'
    BY <1>1, <2>1, <2>2, AnsweredLines DEF AnswerInv, OwnIDs
  <2>8. DropsAreConfirmed' /\ dropped' \subseteq 1..taken'
    BY <2>1, <2>2 DEF AnswerInv, DropsAreConfirmed
  <2> QED
    BY <2>1, <2>4, <2>5, <2>6, <2>7, <2>8 DEF AnswerInv, Ascending
<1>4. CASE CloseInput \/ Output \/ Signal \/ CloseStdin
  <2>1. UNCHANGED <<in, pc, taken, resp, out, dropped, ret>>
    BY <1>4 DEF CloseInput, Output, StallOutput, ResumeOutput, BreakOutput, Signal,
       CloseStdin
  <2>2. ~open' \/ (open' = open /\ cut' = cut)
    BY <1>4 DEF CloseInput, Output, StallOutput, ResumeOutput, BreakOutput, Signal,
       CloseStdin
  <2>3. InHand' /\ Accounted'
    BY <1>1, <2>1 DEF InHand, Accounted, Answered, Owed, ResponseID
  <2>4. CleanEnd'
    BY <1>1, <2>1, <2>2 DEF CleanEnd
  <2> QED
    BY <2>1, <2>3, <2>4, SettledStep
<1>5. CASE CheckContext \/ EnterRead \/ ReadEOF \/ ReadFails
  <2>1. UNCHANGED <<in, open, cut, taken, resp, out, dropped>>
    BY <1>5 DEF CheckContext, EnterRead, ReadEOF, ReadFails
  <2>2. /\ pc \in {"loop", "read", "pending"}
        /\ \/ pc' \in {"read", "pending"} /\ ret' = ret
           \/ pc' = "done" /\ ret' = "ctx"
           \/ pc' = "done" /\ ret' = "nil" /\ taken = Len(in) /\ ~open
    BY <1>5 DEF CheckContext, EnterRead, ReadEOF, ReadFails, Return
  <2>3. Owed(taken)' = Owed(taken) /\ Answered' = Answered
    BY <2>1 DEF Owed, Answered
  <2>4. InHand' /\ CleanEnd' /\ Accounted'
    BY <1>1, <2>1, <2>2, <2>3 DEF InHand, CleanEnd, Accounted, TypeOK
  <2> QED
    BY <2>1, <2>4, SettledStep
<1>6. CASE ReadLine
  <2>1. /\ Reading /\ pc' = "handle" /\ taken' = taken + 1 /\ taken \in Nat
        /\ UNCHANGED <<in, open, cut, resp, out, dropped, ret>>
    BY <1>6 DEF ReadLine, TypeOK, Reading
  <2>2. ret = "none"
    BY <2>1 DEF TypeOK, Reading
  <2>3. Owed(taken - 1)' = Owed(taken) /\ Answered' = Answered
    <3>1. taken' - 1 = taken
      BY <2>1
    <3> QED
      BY <2>1, <3>1 DEF Owed, Answered
  <2>4. Accounted'
    BY <1>1, <2>1, <2>2, <2>3 DEF Accounted, Owed, Reading
  <2>5. InHand' /\ CleanEnd'
    BY <1>1, <2>1, <2>2 DEF InHand, CleanEnd
  <2>6. dropped' \subseteq 1..taken'
    BY <2>1 DEF AnswerInv
  <2> QED
    BY <2>1, <2>4, <2>5, <2>6 DEF AnswerInv, Ascending, OwnIDs, DropsAreConfirmed
<1>7. ASSUME pc = "handle", ~NeedsAnswer(in[taken]), Turn,
             UNCHANGED <<in, open, cut, taken, resp, out, dropped>>
      PROVE  AnswerInv'
  <2>1. taken > 0 /\ ret = "none"
    BY <1>7 DEF TypeOK
  <2>2. Answered = Owed(taken)
    BY <1>1, <1>7, <2>1, OwedNext DEF Accounted
  <2>3. Owed(taken)' = Owed(taken) /\ Answered' = Answered
    BY <1>7 DEF Owed, Answered
  <2>4. \/ pc' = "loop" /\ ret' = "none"
        \/ pc' = "done" /\ ret' = "nil" /\ cut /\ taken = Len(in)
    BY <1>7, <2>1 DEF Turn, Return, AtEOF
  <2>5. InHand' /\ CleanEnd' /\ Accounted'
    BY <1>1, <1>7, <2>2, <2>3, <2>4 DEF InHand, CleanEnd, Accounted
  <2> QED
    BY <1>7, <2>5, SettledStep
<1>8. ASSUME NEW k, pc = "handle", NeedsAnswer(in[taken]),
             Answer(ResponseID(in[taken]), k), ret' = ret,
             UNCHANGED <<in, open, cut, taken, out, dropped>>
      PROVE  AnswerInv'
  <2>1. pc' = "write" /\ resp'.line = taken /\ resp'.id = ResponseID(in[taken])
    BY <1>8 DEF Answer, NoResp
  <2>2. Owed(taken - 1)' = Owed(taken - 1) /\ Answered' = Answered
    BY <1>8 DEF Owed, Answered
  <2>3. InHand' /\ CleanEnd' /\ Accounted'
    BY <1>1, <1>8, <2>1, <2>2 DEF InHand, CleanEnd, Accounted, ResponseID, TypeOK
  <2> QED
    BY <1>8, <2>3, SettledStep
<1>9. CASE HandleBlank
  BY <1>7, <1>9 DEF HandleBlank, NeedsAnswer
<1>10. CASE HandleGarbage
  <2>1. CASE ctx
    <3>1. /\ pc = "handle" /\ pc' = "done" /\ ret' = "ctx" /\ taken > 0
          /\ UNCHANGED <<in, open, cut, taken, resp, out, dropped>>
      BY <1>10, <2>1 DEF HandleGarbage, Return, TypeOK
    <3>2. Owed(taken - 1)' = Owed(taken - 1) /\ Answered' = Answered
      BY <3>1 DEF Owed, Answered
    <3>3. InHand' /\ CleanEnd' /\ Accounted'
      BY <1>1, <3>1, <3>2 DEF InHand, CleanEnd, Accounted
    <3> QED
      BY <3>1, <3>3, SettledStep
  <2>2. CASE ~ctx
    <3>1. ResponseID(in[taken]) = 0
      <4>1. in[taken] \in Lines /\ in[taken].form = "garbage"
        BY <1>10 DEF HandleGarbage, TypeOK
      <4>2. in[taken].id = "absent"
        <5>1. Blank.form = "blank" /\ Garbage.id = "absent"
          BY DEF Garbage, Blank
        <5> QED
          BY <4>1, <5>1, LinesAssumption
      <4> QED
        BY <4>2 DEF ResponseID
    <3> QED
      BY <1>8, <1>10, <2>2, <3>1 DEF HandleGarbage, NeedsAnswer
  <2> QED
    BY <2>1, <2>2
<1>11. CASE Dispatch
  <2>1. in[taken].form = "message" => (Silent(in[taken]) <=> ~NeedsAnswer(in[taken]))
    BY DEF Silent, NeedsAnswer, IsNotification
  <2>2. CASE Silent(in[taken])
    BY <1>7, <1>11, <2>1, <2>2 DEF Dispatch
  <2>3. CASE ~Silent(in[taken])
    BY <1>8, <1>11, <2>1, <2>3 DEF Dispatch
  <2> QED
    BY <2>2, <2>3
<1>12. CASE StartDeploy \/ Notice
  <2>1. /\ pc \in {"handle", "deploy"} /\ pc' = "deploy"
        /\ UNCHANGED <<in, open, cut, taken, out, dropped, ret>>
    BY <1>12 DEF StartDeploy, Notice
  <2>2. in[taken].form = "message" /\ RunsDeploy(in[taken])
    BY <1>1, <1>12 DEF StartDeploy, Notice, InHand
  <2>3. Owed(taken - 1)' = Owed(taken - 1) /\ Answered' = Answered
    BY <2>1 DEF Owed, Answered
  <2>4. InHand' /\ CleanEnd' /\ Accounted'
    BY <1>1, <2>1, <2>2, <2>3 DEF InHand, CleanEnd, Accounted, TypeOK
  <2> QED
    BY <2>1, <2>4, SettledStep
<1>13. CASE Drop
  <2>1. /\ pc = "deploy" /\ in[taken].arg \notin {"plain", "unlimited"} /\ dropped' = dropped \cup {taken}
        /\ taken \in 1..taken
        /\ UNCHANGED <<in, open, cut, pc, taken, resp, out, ret>>
    BY <1>13 DEF Drop, TypeOK
  <2>2. in[taken].id = "ok" /\ in[taken].arg = "confirmed"
    BY <1>1, <2>1 DEF InHand, RunsDeploy, ConfirmOverwrite
  <2>3. InHand' /\ CleanEnd' /\ Accounted'
    BY <1>1, <2>1 DEF InHand, CleanEnd, Accounted, Answered, Owed, ResponseID
  <2> QED
    BY <2>1, <2>2, <2>3 DEF AnswerInv, Ascending, OwnIDs, DropsAreConfirmed
<1>14. CASE EndDeploy
  <2>1. /\ pc = "deploy" /\ pc' = "write"
        /\ resp'.line = taken /\ resp'.id = ResponseID(in[taken])
        /\ UNCHANGED <<in, open, cut, taken, out, dropped, ret>>
    BY <1>14 DEF EndDeploy
  <2>2. NeedsAnswer(in[taken])
    BY <1>1, <2>1 DEF InHand, RunsDeploy, NeedsAnswer
  <2>3. Owed(taken - 1)' = Owed(taken - 1) /\ Answered' = Answered
    BY <2>1 DEF Owed, Answered
  <2>4. InHand' /\ CleanEnd' /\ Accounted'
    BY <1>1, <2>1, <2>2, <2>3 DEF InHand, CleanEnd, Accounted, ResponseID, TypeOK
  <2> QED
    BY <2>1, <2>4, SettledStep
<1>15. CASE Write
  <2>1. CASE reader = "gone"
    <3>1. /\ pc = "write" /\ pc' = "done" /\ ret' = "writeError" /\ taken > 0
          /\ UNCHANGED <<in, open, cut, taken, resp, out, dropped>>
      BY <1>15, <2>1 DEF Write, Return, TypeOK
    <3>2. Owed(taken - 1)' = Owed(taken - 1) /\ Answered' = Answered
      BY <3>1 DEF Owed, Answered
    <3>3. InHand' /\ CleanEnd' /\ Accounted'
      BY <1>1, <3>1, <3>2 DEF InHand, CleanEnd, Accounted
    <3> QED
      BY <3>1, <3>3, SettledStep
  <2>2. CASE reader # "gone"
    <3> DEFINE n == Len(out)
    <3>1. /\ pc = "write" /\ out' = Append(out, resp) /\ Turn /\ taken > 0
          /\ ret = "none" /\ UNCHANGED <<in, open, cut, taken, dropped>>
      BY <1>15, <2>2 DEF Write, TypeOK
    <3>2. /\ DOMAIN out = 1..n /\ n \in Nat /\ DOMAIN out' = 1..(n + 1)
          /\ out'[n + 1] = resp /\ \A j \in 1..n : out'[j] = out[j]
      BY <3>1 DEF TypeOK
    <3> HIDE DEF n
    <3>3. resp.line = taken /\ resp.id = ResponseID(in[taken]) /\ NeedsAnswer(in[taken])
      BY <1>1, <3>1 DEF InHand
    <3>4. Answered' = Answered \cup {taken}
      BY <3>2, <3>3 DEF Answered
    <3>5. Owed(taken)' = Owed(taken) /\ Answered' = Owed(taken)
      BY <1>1, <3>1, <3>3, <3>4, OwedNext DEF Accounted, Owed
    <3>6. \/ pc' = "loop" /\ ret' = "none"
          \/ pc' = "done" /\ ret' = "nil" /\ cut /\ taken = Len(in)
      BY <3>1 DEF Turn, Return, AtEOF
    <3>7. InHand' /\ CleanEnd' /\ Accounted'
      BY <1>1, <3>1, <3>5, <3>6 DEF InHand, CleanEnd, Accounted
    <3>8. \A j \in 1..n : out[j].line < taken
      <4>1. \A j \in 1..n : out[j].line \in 1..(taken - 1)
        BY <1>1, <3>1, <3>2, AnsweredBefore
      <4> QED
        BY <4>1 DEF TypeOK
    <3>9. Ascending'
      BY <3>2, <3>3, <3>8 DEF AnswerInv, Ascending
    <3>10. OwnIDs'
      BY <3>1, <3>2, <3>3 DEF AnswerInv, OwnIDs, ResponseID
    <3> QED
      BY <3>1, <3>7, <3>9, <3>10 DEF AnswerInv, DropsAreConfirmed
  <2> QED
    BY <2>1, <2>2
<1> QED
  BY <1>2, <1>3, <1>4, <1>5, <1>6, <1>9, <1>10, <1>11, <1>12, <1>13, <1>14, <1>15
     DEF Next, Serve, Output

(* AnswerInv holds in every reachable state.                               *)
LEMMA AnswerInvHolds == Spec => []AnswerInv
<1>1. ASSUME Init PROVE AnswerInv
  <2>1. Answered = {} /\ Owed(taken) = {}
    BY <1>1 DEF Init, Answered, Owed
  <2> QED
    BY <1>1, <2>1 DEF Init, AnswerInv, InHand, CleanEnd, Accounted, Ascending, OwnIDs,
       DropsAreConfirmed
<1> QED
  BY <1>1, TypeCorrect, AnswerStep, PTL DEF Spec

(* Every line the loop took that is owed an answer gets exactly one, in    *)
(* order and under its own id, and a session that ends cleanly has         *)
(* answered all it was sent.                                               *)
THEOREM AnsweredInOrder == Spec => []AnswersInOrder
<1>1. TypeOK /\ AnswerInv => AnswersInOrder
  BY DEF TypeOK, AnswerInv, Accounted, CleanEnd, Ascending, OwnIDs, AnswersInOrder
<1> QED
  BY <1>1, TypeCorrect, AnswerInvHolds, PTL

(* Every drop was asked for by a request that repeated the database's name *)
(* and that is answered.                                                   *)
THEOREM DropsConfirmed == Spec => []DropsAreConfirmed
<1>1. AnswerInv => DropsAreConfirmed
  BY DEF AnswerInv
<1> QED
  BY <1>1, AnswerInvHolds, PTL

----------------------------------------------------------------------------
(* Notices                                                                 *)

(* The last notices of a deploy, as a sequence.                            *)
LEMMA LastNoticesSeq ==
  ASSUME NEW k \in Nat, NEW n \in Nat
  PROVE  /\ Kept(n) \in Nat /\ Kept(n) <= n /\ Kept(n) <= BufferMax
         /\ LastNotices(k, n) \in Seq(Nat \X Nat)
         /\ Len(LastNotices(k, n)) = Kept(n)
         /\ \A i \in 1..Kept(n) : LastNotices(k, n)[i] = <<k, n - Kept(n) + i>>
<1>1. Kept(n) \in Nat /\ Kept(n) <= n /\ Kept(n) <= BufferMax
  BY BufferAssumption DEF Kept
<1>2. \A i \in 1..Kept(n) : <<k, n - Kept(n) + i>> \in Nat \X Nat
  BY <1>1
<1>3. LastNotices(k, n) \in [1..Kept(n) -> Nat \X Nat]
  BY <1>2 DEF LastNotices
<1>4. LastNotices(k, n) \in Seq(Nat \X Nat) /\ Len(LastNotices(k, n)) = Kept(n)
  BY <1>1, <1>3
<1> QED
  BY <1>1, <1>4 DEF LastNotices

(* The buffer of a deploy's last notices, shifted by one more.             *)
LEMMA BufferAddShifts ==
  ASSUME NEW k \in Nat, NEW n \in Nat, buf = LastNotices(k, n)
  PROVE  BufferAdd(<<k, n + 1>>) = LastNotices(k, n + 1)
<1> DEFINE e == <<k, n + 1>>
           m == Kept(n)
           S == Nat \X Nat
<1>1. e \in S /\ n + 1 \in Nat
  OBVIOUS
<1>2. BufferMax \in Nat /\ BufferMax > 0
  BY BufferAssumption
<1>3. /\ m \in Nat /\ m <= n /\ m <= BufferMax
      /\ buf \in Seq(S) /\ Len(buf) = m
      /\ \A i \in 1..m : buf[i] = <<k, n - m + i>>
  BY LastNoticesSeq
<1>4. /\ LastNotices(k, n + 1) \in Seq(S)
      /\ Len(LastNotices(k, n + 1)) = Kept(n + 1)
      /\ \A i \in 1..Kept(n + 1) :
           LastNotices(k, n + 1)[i] = <<k, n + 1 - Kept(n + 1) + i>>
  <2>1. PICK x \in Nat : x = n + 1
    BY <1>1
  <2>2. /\ LastNotices(k, x) \in Seq(S)
        /\ Len(LastNotices(k, x)) = Kept(x)
        /\ \A i \in 1..Kept(x) : LastNotices(k, x)[i] = <<k, x - Kept(x) + i>>
    BY LastNoticesSeq
  <2> QED
    BY <2>1, <2>2
<1>5. m = BufferMax => Kept(n + 1) = m
  BY <1>2, <1>3 DEF Kept
<1>6. m # BufferMax => m = n /\ Kept(n + 1) = n + 1
  BY <1>2, <1>3 DEF Kept
<1>7. e = <<k, n + 1>>
  OBVIOUS
<1> HIDE DEF m, e, S
<1>8. CASE m = BufferMax
  <2> DEFINE t == Tail(buf)
             b == Append(t, e)
  <2>1. BufferAdd(e) = b
    BY <1>2, <1>3, <1>8 DEF BufferAdd
  <2>2. buf # <<>>
    BY <1>2, <1>3, <1>8
  <2>3. t \in Seq(S) /\ Len(t) = m - 1 /\ \A i \in 1..(m - 1) : t[i] = buf[i + 1]
    BY <1>3, <2>2, HeadTailProperties
  <2>4. \A i \in 1..(m - 1) : i + 1 \in 1..m /\ n - m + (i + 1) = n + 1 - m + i
    BY <1>3
  <2>5. \A i \in 1..(m - 1) : t[i] = <<k, n + 1 - m + i>>
    BY <1>3, <2>3, <2>4
  <2> HIDE DEF t
  <2>6. b \in Seq(S) /\ Len(b) = (m - 1) + 1 /\ b[(m - 1) + 1] = e
        /\ \A i \in 1..(m - 1) : b[i] = t[i]
    BY <1>1, <2>3, AppendProperties
  <2> HIDE DEF b
  <2>7. Len(b) = m /\ b[m] = e /\ n + 1 - m + m = n + 1
    BY <1>3, <2>6
  <2>8. \A i \in 1..m : b[i] = <<k, n + 1 - m + i>>
    <3>1. \A i \in 1..m : i = m \/ i \in 1..(m - 1)
      BY <1>3
    <3> QED
      BY <1>7, <2>5, <2>6, <2>7, <3>1
  <2>9. b = LastNotices(k, n + 1)
    BY <1>4, <1>5, <1>8, <2>6, <2>7, <2>8, SeqEqual
  <2> QED
    BY <1>7, <2>1, <2>9
<1>9. CASE m # BufferMax
  <2> DEFINE b == Append(buf, e)
  <2>1. BufferAdd(e) = b
    BY <1>2, <1>3, <1>9 DEF BufferAdd
  <2>2. m = n /\ Kept(n + 1) = n + 1
    BY <1>6, <1>9
  <2>3. b \in Seq(S) /\ Len(b) = n + 1 /\ b[n + 1] = e
        /\ \A i \in 1..n : b[i] = buf[i]
    BY <1>1, <1>3, <2>2, AppendProperties
  <2> HIDE DEF b
  <2>4. \A i \in 1..(n + 1) :
          /\ i = n + 1 \/ i \in 1..n
          /\ n + 1 - (n + 1) + i = i /\ n - n + i = i
    OBVIOUS
  <2>5. \A i \in 1..(n + 1) : b[i] = <<k, n + 1 - (n + 1) + i>>
    BY <1>3, <1>7, <2>2, <2>3, <2>4
  <2>6. b = LastNotices(k, n + 1)
    BY <1>4, <2>2, <2>3, <2>5, SeqEqual
  <2> QED
    BY <1>7, <2>1, <2>6
<1> QED
  BY <1>8, <1>9

(* No notice has been raised for a line that has not been deployed; while  *)
(* a deploy runs the buffer holds its last notices and counts them all;    *)
(* and the response about to be written carries them.                      *)
Fresh ==
  \A i \in 1..MaxLines : i > taken \/ (i = taken /\ pc = "handle") => raised[i] = 0

Buffered ==
  pc = "deploy" => total = raised[taken] /\ buf = LastNotices(taken, raised[taken])

NoticeInv == Fresh /\ Buffered /\ (pc = "write" => CarriesNotices(resp)) /\ NoticesBelong

(* Steps that neither raise nor write nor deploy keep NoticeInv.           *)
LEMMA QuietStep ==
  ASSUME TypeOK, AnswerInv, NoticeInv,
         \A i \in 1..taken : in'[i] = in[i],
         UNCHANGED <<out, raised, handler>>,
         (pc # "deploy" /\ pc' # "deploy") \/ UNCHANGED <<pc, taken, buf, total>>,
         pc' # "write" \/ UNCHANGED <<pc, taken, resp>>,
         \/ taken' = taken /\ (pc' = "handle" => pc = "handle")
         \/ taken' = taken + 1
  PROVE  NoticeInv'
<1>1. taken \in Nat
  BY DEF TypeOK
<1>2. Fresh'
  BY <1>1 DEF NoticeInv, Fresh
<1>3. Buffered'
  BY DEF NoticeInv, Buffered
<1>4. \A j \in DOMAIN out : CarriesNotices(out[j])'
  <2>1. \A j \in DOMAIN out : out[j].line \in 1..taken /\ CarriesNotices(out[j])
    BY AnsweredLines DEF AnswerInv, NoticeInv, NoticesBelong
  <2> QED
    BY <2>1 DEF CarriesNotices
<1>5. pc' = "write" => CarriesNotices(resp)'
  <2>1. pc = "write" => resp.line = taken /\ taken \in 1..taken /\ CarriesNotices(resp)
    BY DEF AnswerInv, InHand, NoticeInv, TypeOK
  <2> QED
    BY <2>1 DEF CarriesNotices
<1>6. handler' = "buffer" <=> pc' = "deploy"
  BY DEF NoticeInv, NoticesBelong
<1> QED
  BY <1>2, <1>3, <1>4, <1>5, <1>6 DEF NoticeInv, NoticesBelong

(* Every action of McpServer keeps NoticeInv.                              *)
LEMMA NoticeStep == TypeOK /\ AnswerInv /\ NoticeInv /\ [Next]_vars => NoticeInv'
<1> SUFFICES ASSUME TypeOK, AnswerInv, NoticeInv, [Next]_vars PROVE NoticeInv'
  OBVIOUS
<1>1. CASE UNCHANGED vars
  BY <1>1, QuietStep DEF vars
<1>2. CASE SendLine
  <2>1. \A i \in 1..taken : in'[i] = in[i]
    BY <1>2, SentLinesStay DEF TypeOK
  <2> QED
    BY <1>2, <2>1, QuietStep DEF SendLine
<1>3. CASE CloseInput \/ Output \/ Signal \/ CloseStdin
  BY <1>3, QuietStep DEF CloseInput, Output, StallOutput, ResumeOutput, BreakOutput, Signal,
       CloseStdin
<1>4. CASE CheckContext \/ ReadLine \/ EnterRead \/ ReadEOF \/ ReadFails \/ HandleBlank
  BY <1>4, QuietStep DEF CheckContext, ReadLine, EnterRead, ReadEOF, ReadFails, HandleBlank,
     Turn, Return
<1>5. ASSUME NEW k, NEW i, pc = "handle", ~RunsDeploy(in[taken]), Answer(i, k),
             UNCHANGED <<in, taken, out, handler, buf, total, raised>>
      PROVE  NoticeInv'
  <2>1. pc' = "write" /\ resp'.line = taken
    BY <1>5 DEF Answer, NoResp
  <2>2. CarriesNotices(resp)'
    BY <1>5, <2>1 DEF CarriesNotices
  <2>3. \A j \in DOMAIN out : CarriesNotices(out[j])'
    BY <1>5 DEF NoticeInv, NoticesBelong, CarriesNotices
  <2> QED
    BY <1>5, <2>1, <2>2, <2>3 DEF NoticeInv, Fresh, Buffered, NoticesBelong
<1>6. CASE HandleGarbage
  <2>1. CASE ctx
    BY <1>6, <2>1, QuietStep DEF HandleGarbage, Return
  <2>2. CASE ~ctx
    <3>1. ~RunsDeploy(in[taken])
      <4>1. in[taken] \in Lines /\ in[taken].form = "garbage"
        BY <1>6 DEF HandleGarbage, TypeOK
      <4>2. Blank.form = "blank" /\ Garbage.id = "absent"
        BY DEF Garbage, Blank
      <4>3. in[taken].id = "absent"
        BY <4>1, <4>2, LinesAssumption
      <4> QED
        BY <4>3 DEF RunsDeploy
    <3> QED
      BY <1>5, <1>6, <2>2, <3>1 DEF HandleGarbage
  <2> QED
    BY <2>1, <2>2
<1>7. CASE Dispatch
  <2>1. CASE Silent(in[taken])
    BY <1>7, <2>1, QuietStep DEF Dispatch, Turn, Return
  <2>2. CASE ~Silent(in[taken])
    BY <1>5, <1>7, <2>2 DEF Dispatch
  <2> QED
    BY <2>1, <2>2
<1>8. CASE StartDeploy
  <2>1. /\ pc = "handle" /\ pc' = "deploy" /\ buf' = <<>> /\ total' = 0
        /\ handler' = "buffer" /\ taken \in 1..MaxLines
        /\ UNCHANGED <<in, taken, out, raised>>
    BY <1>8, BoundsAssumption DEF StartDeploy, TypeOK
  <2>2. raised[taken] = 0
    BY <2>1 DEF NoticeInv, Fresh
  <2>3. LastNotices(taken, 0) = <<>>
    <3>1. Len(LastNotices(taken, 0)) = Kept(0) /\ LastNotices(taken, 0) \in Seq(Nat \X Nat)
      BY <2>1, LastNoticesSeq
    <3>2. Kept(0) = 0
      BY BufferAssumption DEF Kept
    <3> QED
      BY <3>1, <3>2, EmptySeq
  <2>4. \A j \in DOMAIN out : CarriesNotices(out[j])'
    BY <2>1 DEF NoticeInv, NoticesBelong, CarriesNotices
  <2> QED
    BY <2>1, <2>2, <2>3, <2>4 DEF NoticeInv, Fresh, Buffered, NoticesBelong
<1>9. CASE Notice
  <2>1. /\ pc = "deploy" /\ taken \in Nat /\ taken \in 1..MaxLines
        /\ raised[taken] \in Nat
        /\ UNCHANGED <<in, pc, taken, out, handler>>
    BY <1>9, BoundsAssumption DEF Notice, TypeOK
  <2>2. /\ raised' = [raised EXCEPT ![taken] = raised[taken] + 1]
        /\ raised'[taken] = raised[taken] + 1
    BY <1>9, <2>1 DEF Notice, TypeOK
  <2>3. total = raised[taken] /\ buf = LastNotices(taken, raised[taken])
    BY <2>1 DEF NoticeInv, Buffered
  <2>4. Buffered'
    BY <1>9, <2>1, <2>2, <2>3, BufferAddShifts DEF Notice, Buffered
  <2>5. \A j \in DOMAIN out : CarriesNotices(out[j])'
    <3>1. \A j \in DOMAIN out : out[j].line \in 1..(taken - 1)
      BY <2>1, AnsweredBefore DEF AnswerInv
    <3>2. \A j \in DOMAIN out : raised'[out[j].line] = raised[out[j].line]
      <4>1. \A i \in 1..(taken - 1) : i \in 1..MaxLines /\ i # taken
        BY <2>1, BoundsAssumption
      <4> QED
        BY <2>2, <3>1, <4>1 DEF TypeOK
    <3> QED
      BY <2>1, <3>2 DEF NoticeInv, NoticesBelong, CarriesNotices
  <2>6. Fresh'
    BY <2>1, <2>2 DEF NoticeInv, Fresh, TypeOK
  <2> QED
    BY <2>1, <2>4, <2>5, <2>6 DEF NoticeInv, NoticesBelong
<1>10. CASE Drop
  BY <1>10, QuietStep DEF Drop
<1>11. CASE EndDeploy
  <2>1. /\ pc = "deploy" /\ pc' = "write" /\ handler' = "default"
        /\ UNCHANGED <<in, taken, out, raised>>
        /\ taken \in Nat /\ raised[taken] \in Nat
    BY <1>11, BoundsAssumption DEF EndDeploy, TypeOK
  <2>2. /\ total = raised[taken] /\ buf = LastNotices(taken, raised[taken])
        /\ Len(buf) = Kept(raised[taken])
    BY <2>1, LastNoticesSeq DEF NoticeInv, Buffered
  <2>3. /\ resp'.line = taken
        /\ \/ resp'.kind = "panicked"
           \/ resp'.notices = buf /\ resp'.truncated = total - Len(buf)
    BY <1>11 DEF EndDeploy
  <2>4. CarriesNotices(resp)'
    BY <2>1, <2>2, <2>3 DEF CarriesNotices
  <2>5. \A j \in DOMAIN out : CarriesNotices(out[j])'
    BY <2>1 DEF NoticeInv, NoticesBelong, CarriesNotices
  <2> QED
    BY <2>1, <2>4, <2>5 DEF NoticeInv, Fresh, Buffered, NoticesBelong
<1>12. CASE Write
  <2>1. CASE reader = "gone"
    BY <1>12, <2>1, QuietStep DEF Write, Return
  <2>2. CASE reader # "gone"
    <3> DEFINE n == Len(out)
    <3>1. /\ pc = "write" /\ out' = Append(out, resp) /\ pc' \in {"loop", "done"}
          /\ UNCHANGED <<in, taken, handler, raised>>
      BY <1>12, <2>2 DEF Write, Turn, Return
    <3>2. /\ DOMAIN out = 1..n /\ n \in Nat /\ DOMAIN out' = 1..(n + 1)
          /\ out'[n + 1] = resp /\ \A j \in 1..n : out'[j] = out[j]
      BY <3>1 DEF TypeOK
    <3> HIDE DEF n
    <3>3. \A j \in DOMAIN out' : CarriesNotices(out'[j])
      BY <3>1, <3>2 DEF NoticeInv, NoticesBelong
    <3>4. \A j \in DOMAIN out' : CarriesNotices(out[j])'
      BY <3>1, <3>3 DEF CarriesNotices
    <3> QED
      BY <3>1, <3>4 DEF NoticeInv, Fresh, Buffered, NoticesBelong
  <2> QED
    BY <2>1, <2>2
<1> QED
  BY <1>1, <1>2, <1>3, <1>4, <1>6, <1>7, <1>8, <1>9, <1>10, <1>11, <1>12
     DEF Next, Serve, Output

(* A deploy's response carries the last notices of that deploy and the     *)
(* number it had no room for, and the handler is swapped exactly while a   *)
(* deploy runs.                                                            *)
THEOREM NoticesAreOwn == Spec => []NoticesBelong
<1>1. Init => NoticeInv
  BY DEF Init, NoticeInv, Fresh, Buffered, NoticesBelong
<1>2. NoticeInv => NoticesBelong
  BY DEF NoticeInv
<1> QED
  BY <1>1, <1>2, TypeCorrect, AnswerInvHolds, NoticeStep, PTL DEF Spec
=============================================================================
