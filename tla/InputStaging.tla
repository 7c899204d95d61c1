---------------------------- MODULE InputStaging ----------------------------
(***************************************************************************)
(* The files a client stages for its private server with artifact-inputs/1:*)
(* the code of artifacts/1 once more, but every file goes to one directory *)
(* of the stream under the name the client gave it, the receipt is a       *)
(* handle, and the server's side of the stream puts the path in its place  *)
(* when a call mentions it.                                                *)
(***************************************************************************)
EXTENDS ChunkedTransfer

CONSTANTS Calls   \* bound: calls with a staged input

VARIABLES
  handles,  \* stream.input_handles: transfers whose handle was minted
  used,     \* used[t]: what calls with the handle were given (history)
  calls     \* counter for the bound

vars == <<transferVars, handles, used, calls>>
inputVars == <<handles, used, calls>>

\* Type correctness of what is added to the transfer.
TypeOK ==
  /\ TransferTypeOK
  /\ handles \subseteq Transfers
  /\ used \in [Transfers -> SUBSET {"own", "other", "refused"}]
  /\ calls \in 0..Calls

Init ==
  /\ TransferInit
  /\ handles = {} /\ used = [t \in Transfers |-> {}] /\ calls = 0

\* A name that is staged already is refused.
BeginInput == Begin({t \in Transfers : place[PathOf[t]] = None}) /\ UNCHANGED inputVars

\* The chunk, the end, the worker and the abort are those of artifacts/1.
InputChunk == Chunk /\ UNCHANGED inputVars
InputEnd == End /\ UNCHANGED inputVars
InputCancel == Cancel /\ UNCHANGED inputVars
InputWorker == (\E t \in Transfers : Worker(t)) /\ UNCHANGED inputVars
InputAbort == (\E t \in Transfers : Abort(t)) /\ UNCHANGED inputVars
InputReply == Reply /\ UNCHANGED inputVars
InputSend == (\E t \in Transfers : Start(t) \/ TimesOut(t)) /\ UNCHANGED inputVars
InputStream == (StreamCloses \/ LinkBreaks \/ Close) /\ UNCHANGED inputVars

\* The handle is minted, unless the stream has gone meanwhile.
Minted(t) ==
  /\ recv[t].work = "linked"
  /\ IF recv[t].phase = "aborting" THEN CleanUp(t) /\ UNCHANGED handles
     ELSE /\ recv' = [recv EXCEPT ![t] = Idle]
          /\ handles' = IF streamR = "open" THEN handles \cup {t} ELSE handles
          /\ ToS(Frame(IF streamR = "open" THEN "ok" ELSE "error", t, 0))
          /\ UNCHANGED <<temp, place>>
  /\ UNCHANGED <<send, sent, streamS, streamR, linkUp, chanR, used, calls>>

\* The stage goes with the stream, after its receives were aborted.
StageRemoved ==
  /\ streamR = "closing" /\ \A t \in Transfers : ~recv[t].table
  /\ streamR' = "closed" /\ handles' = {}
  /\ temp' = {} /\ place' = [f \in Paths |-> None]
  /\ UNCHANGED <<send, sent, streamS, linkUp, chanR, chanS, recv, used, calls>>

\* The client calls a tool with a handle it was given.
Use(t) ==
  /\ send[t] = "ok" /\ streamS = "open" /\ calls < Calls
  /\ calls' = calls + 1
  /\ ToR(Frame("call", t, 0))
  /\ UNCHANGED <<send, sent, streamS, streamR, linkUp, chanS, recv, temp, place, handles, used>>

\* _rewrite_input_descriptor_line: a known handle becomes its path, an unknown
\* one fails the call.
Rewrite ==
  /\ Receive("call")
  /\ LET t == Head(chanR).of
         found == IF t \notin handles THEN "refused"
                  ELSE IF place[PathOf[t]] = t THEN "own" ELSE "other"
     IN used' = IF streamR = "open" THEN [used EXCEPT ![t] = @ \cup {found}] ELSE used
  /\ UNCHANGED <<send, sent, streamS, streamR, linkUp, chanS, recv, temp, place, handles, calls>>

InputFrames == BeginInput \/ InputChunk \/ InputEnd \/ InputCancel \/ Rewrite
Mints == \E t \in Transfers : Minted(t)
Uses == \E t \in Transfers : Use(t)

Next ==
  \/ InputFrames \/ InputWorker \/ InputAbort \/ InputReply \/ InputSend \/ InputStream
  \/ Mints \/ StageRemoved \/ Uses

Spec == Init /\ [][Next]_vars

\* A handle the client was given names the file it staged with it, for as long
\* as the stream is there: a call reads its own input
\* (_rewrite_input_descriptor_line, _receive_input).
HandlesHold ==
  /\ \A t \in Transfers : send[t] = "ok" /\ streamR = "open" => place[PathOf[t]] = t
  /\ \A t \in Transfers : used[t] \subseteq {"own"}
=============================================================================
