------------------------------ MODULE AgentChat ------------------------------
(***************************************************************************)
(* Chats with an agent: AgentSDKWrapperImpl of                             *)
(* src/agent-runtime/sdk/agent-sdk-wrapper.ts with its token counter, and  *)
(* the route of src/backend/routes/sessions.ts that runs a chat and pushes *)
(* its events to an SSE stream.                                            *)
(*                                                                         *)
(* Several chats of one session may be under way: nothing serialises them, *)
(* and they share the session's message history.  Each event of the model  *)
(* is an await where the others, the client's disconnect and the close of  *)
(* the session interleave.                                                 *)
(*                                                                         *)
(* A message is who said it, for which chat, and what it holds; its length *)
(* in tokens is a function of what it holds.                               *)
(***************************************************************************)
EXTENDS Integers, Sequences, FiniteSets, SequencesExt, FiniteSetsExt

CONSTANTS
  Chats,        \* requests to POST /:sessionId/chat
  UserTokens,   \* countMessage of a user's message: up to
  ToolTokens,   \* ... of an assistant's tool_use
  FrameTokens,  \* ... of a tool result, whose text the counter overlooks
  PromptTokens, \* countSystemPrompt
  Threshold,    \* contextWindowSize * compressionThreshold
  Budget,       \* floor(contextWindowSize * (1 - compressionThreshold))
  MaxMessages,  \* bound: messages ever added to the history
  MaxEvents     \* bound: events of a chat before its last

ChatAssumption ==
  /\ UserTokens \in Nat /\ ToolTokens \in Nat /\ FrameTokens \in Nat
  /\ PromptTokens \in Nat /\ Threshold \in Nat /\ Budget \in Nat
  /\ MaxMessages \in Nat /\ MaxEvents \in Nat

VARIABLES
  open,      \* is the session in the wrapper's map
  messages,  \* session.context.messages
  added,     \* history: messages added so far
  chat,      \* chat[c]: the iterator and the route's loop around it
  client     \* client[c]: what the client of the SSE stream received

vars == <<open, messages, added, chat, client>>

Kinds == {"text", "tool_use", "tool_result"}
Message == [by : {"user", "assistant"}, chat : Chats, kind : Kinds]
Text(c) == [by |-> "user", chat |-> c, kind |-> "text"]
ToolUse(c) == [by |-> "assistant", chat |-> c, kind |-> "tool_use"]
ToolResult(c) == [by |-> "user", chat |-> c, kind |-> "tool_result"]

Ended == {"not_found", "returned"}
Points == {"idle", "starting", "streaming", "closing"} \cup Ended

(* tool: is a tool_use block being accumulated; sse: is the stream in the  *)
(* SSE manager's map; last: the terminal event the loop leaves with.       *)
(* History: left, whether the stream was gone before the route closed it,  *)
(* and asked, what was sent to the gateway.                                *)
Fresh == [at |-> "idle", tool |-> FALSE, sse |-> FALSE, last |-> "none",
          left |-> FALSE, asked |-> <<>>]

Init ==
  /\ open = TRUE
  /\ messages = <<>>
  /\ added = 0
  /\ chat = [c \in Chats |-> Fresh]
  /\ client = [c \in Chats |-> <<>>]

-----------------------------------------------------------------------------
(* TokenCounter.                                                           *)
CountMessage(m) ==
  CASE m.kind = "text" -> UserTokens
    [] m.kind = "tool_use" -> ToolTokens
    [] OTHER -> FrameTokens

CountMessages(ms) == FoldSeq(LAMBDA m, total : CountMessage(m) + total, 0, ms)
CountContext(ms) == PromptTokens + CountMessages(ms)

From(ms, i) == SubSeq(ms, i, Len(ms))

(* Mutant of KeepFrom: the message that breaks the budget is kept.         *)
KeepFromOneMore(ms) ==
  LET within == {i \in 1..Len(ms) : i = Len(ms) \/ CountMessages(From(ms, i + 1)) <= Budget}
  IN Min(within \cup {Max({1, Len(ms) - 1})})

(* The loop of compressContext walks back while the budget lasts, and the  *)
(* last two messages are kept whatever they cost.                          *)
KeepFrom(ms) ==
  LET within == {i \in 1..Len(ms) : CountMessages(From(ms, i)) <= Budget}
  IN Min(within \cup {Max({1, Len(ms) - 1})})

(* compressContext: two messages or fewer are never compressed.            *)
Compressed(ms) == IF Len(ms) <= 2 THEN ms ELSE From(ms, KeepFrom(ms))

-----------------------------------------------------------------------------
Say(ms, m) == Append(ms, m)
Adding == added < MaxMessages /\ added' = added + 1

(* The route: a session that is not in the map is a 404; otherwise the SSE *)
(* stream is created and the loop over the chat's events begins.           *)
Post(c) ==
  /\ chat[c].at = "idle"
  /\ chat' = IF open THEN [chat EXCEPT ![c].at = "starting", ![c].sse = TRUE]
                     ELSE [chat EXCEPT ![c].at = "not_found"]
  /\ UNCHANGED <<open, messages, added, client>>

(* Mutant of Asked: the history is compressed before the user's message is *)
(* in it.                                                                  *)
AskedTooEarly(c) ==
  Say(IF CountContext(messages) > Threshold THEN Compressed(messages) ELSE messages, Text(c))

(* The history the gateway is asked with: the user's message added, and    *)
(* compressed if the context is over the threshold.                        *)
Asked(c) ==
  LET said == Say(messages, Text(c))
  IN IF CountContext(said) > Threshold THEN Compressed(said) ELSE said

(* initialize, on the first next.  gateway.stream throws when the tenant   *)
(* is unknown: next answers with an error event and the loop is left.      *)
(* compressContext waits for nothing, so its await is left within the      *)
(* turn: jobs of another chat are not taken to be queued before it.        *)
Initialize(c) ==
  /\ chat[c].at = "starting"
  /\ Adding
  /\ messages' = Asked(c)
  /\ \/ chat' = [chat EXCEPT ![c].at = "streaming", ![c].asked = Asked(c)]
     \/ chat' = [chat EXCEPT ![c].at = "closing", ![c].last = "error"]
  /\ UNCHANGED <<open, client>>

(* pushEvent drops what is pushed to a stream that is gone.                *)
Received(c, event) ==
  IF chat[c].sse THEN [client EXCEPT ![c] = Append(@, event)] ELSE client

TextDelta(c) ==
  /\ chat[c].at = "streaming"
  /\ Len(client[c]) < MaxEvents
  /\ client' = Received(c, "text_delta")
  /\ UNCHANGED <<open, messages, added, chat>>

(* content_block_start of a tool_use.                                      *)
ToolBegins(c) ==
  /\ chat[c].at = "streaming"
  /\ ~chat[c].tool
  /\ chat' = [chat EXCEPT ![c].tool = TRUE]
  /\ UNCHANGED <<open, messages, added, client>>

(* content_block_stop after it: the tool_use enters the history and is     *)
(* yielded.  The text of a reply never enters the history.                 *)
ToolStops(c) ==
  /\ chat[c].at = "streaming"
  /\ chat[c].tool
  /\ Len(client[c]) < MaxEvents
  /\ Adding
  /\ messages' = Say(messages, ToolUse(c))
  /\ client' = Received(c, "tool_use")
  /\ chat' = [chat EXCEPT ![c].tool = FALSE]
  /\ UNCHANGED open

(* message_stop or the end of the stream: an end event.  An error event of *)
(* the API, or next of the stream rejecting: an error event.               *)
StreamEnds(c) ==
  /\ chat[c].at = "streaming"
  /\ \E last \in {"end", "error"} :
       chat' = [chat EXCEPT ![c].at = "closing", ![c].last = last]
  /\ UNCHANGED <<open, messages, added, client>>

(* The terminal event, then closeStream's own.                             *)
Farewell(c) == IF chat[c].sse THEN <<chat[c].last, "close">> ELSE <<>>

(* The loop pushes the terminal event, closes the SSE stream and returns.  *)
Close(c) ==
  /\ chat[c].at = "closing"
  /\ client' = [client EXCEPT ![c] = @ \o Farewell(c)]
  /\ chat' = [chat EXCEPT ![c].at = "returned", ![c].sse = FALSE]
  /\ UNCHANGED <<open, messages, added>>

(* The client disconnects, or a write to it fails.  The chat goes on.      *)
Disconnect(c) ==
  /\ chat[c].sse
  /\ chat' = [chat EXCEPT ![c].sse = FALSE, ![c].left = TRUE]
  /\ UNCHANGED <<open, messages, added, client>>

(* The SSE manager's idle timer closes a stream on which nothing is sent.  *)
IdleClose(c) ==
  /\ chat[c].sse
  /\ chat[c].at # "closing"
  /\ client' = [client EXCEPT ![c] = Append(@, "close")]
  /\ chat' = [chat EXCEPT ![c].sse = FALSE, ![c].left = TRUE]
  /\ UNCHANGED <<open, messages, added>>

(* addToolResult, called from outside once a tool has run.                 *)
AddToolResult(c) ==
  /\ ToolUse(c) \in Range(messages)
  /\ ToolResult(c) \notin Range(messages)
  /\ Adding
  /\ messages' = Say(messages, ToolResult(c))
  /\ UNCHANGED <<open, chat, client>>

(* closeSession: chats under way keep the session they hold.               *)
CloseSession ==
  /\ open
  /\ open' = FALSE
  /\ UNCHANGED <<messages, added, chat, client>>

Step(c) ==
  \/ Post(c)
  \/ Initialize(c)
  \/ TextDelta(c)
  \/ ToolBegins(c)
  \/ ToolStops(c)
  \/ StreamEnds(c)
  \/ Close(c)
  \/ Disconnect(c)
  \/ IdleClose(c)
  \/ AddToolResult(c)

Next == CloseSession \/ \E c \in Chats : Step(c)

Spec == Init /\ [][Next]_vars

-----------------------------------------------------------------------------
TypeOK ==
  /\ open \in BOOLEAN
  /\ messages \in Seq(Message)
  /\ added \in 0..MaxMessages
  /\ chat \in [Chats -> [at : Points, tool : BOOLEAN, sse : BOOLEAN,
                         last : {"none", "end", "error"}, left : BOOLEAN,
                         asked : Seq(Message)]]
  /\ client \in [Chats -> Seq({"text_delta", "tool_use", "end", "error", "close"})]

(* Whatever the other chats of the session add meanwhile, the gateway is   *)
(* asked with a history that ends in the chat's own message and that fits: *)
(* the context is not over the threshold, or its messages are within the   *)
(* budget of a compression, or they are the two that are always kept.      *)
AskedFits ==
  \A c \in Chats :
    LET asked == chat[c].asked
    IN asked # <<>> =>
         /\ Last(asked) = Text(c)
         /\ \/ ~(CountContext(asked) > Threshold)
            \/ CountMessages(asked) <= Budget
            \/ Len(asked) <= 2

(* A client that stays hears how its chat ended: nothing follows the       *)
(* close, and a stream the route closed brought exactly one terminal event *)
(* right before it.                                                        *)
ClientHearsTheEnd ==
  \A c \in Chats :
    LET got == client[c]
        terminal == {i \in DOMAIN got : got[i] \in {"end", "error"}}
    IN /\ Cardinality(terminal) <= 1
       /\ \A i \in terminal : i = Len(got) - 1 /\ got[i] = chat[c].last
       /\ \A i \in DOMAIN got : got[i] = "close" => i = Len(got)
       /\ chat[c].at = "returned" /\ ~chat[c].left => terminal # {}
=============================================================================
