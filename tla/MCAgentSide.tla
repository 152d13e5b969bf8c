----------------------------- MODULE MCAgentSide -----------------------------
(***************************************************************************)
(* The services around the agents, for TLC: tools, language model, chats,  *)
(* platform, WebSockets and event streams.  They share no state, so each   *)
(* behaviour follows one of them, its focus, and leaves the others' state  *)
(* at None; the run explores the sum of their state spaces.                *)
(***************************************************************************)
EXTENDS Integers, FiniteSets, Sequences, TLC

CONSTANTS
  Ids, MoreIds,                  \* identifiers, of whatever a component has many of
  MaxFaults,                     \* bound: calls that fail, in any component
  ToolNames, MaxConcurrent,      \* of Tools
  RateLimit, MaxRetries, Frames, \* of LlmGateway
  Definitions, Types, MaxRoutes, \* of AgentPlatform
  Users,                         \* of WebSockets
  Managers,                      \* of EventStreams
  UserTokens, ToolTokens,        \* of AgentChat
  FrameTokens, PromptTokens, CompressionThreshold, Budget, MaxAdded, MaxEvents

VARIABLES
  focus,
  rows, clock, cache, executor, call, toolCalls, faults,
  kind, activeCount, executions, local, tool, answer, terminated,
  registered, limited, counter, window, request, callLogs, llmFaults,
  open, messages, added, chat, client,
  instances, agent, definitions, roundRobin, picks,
  socket, user, connections, timers, pending, tracked, down, revived, lost,
  manager, created, kept, idle, heartbeat, ended, unsaid, orphaned

toolVars == <<rows, clock, cache, executor, call, toolCalls, faults,
              kind, activeCount, executions, local, tool, answer, terminated>>
llmVars == <<registered, limited, counter, window, request, callLogs, llmFaults>>
chatVars == <<open, messages, added, chat, client>>
platformVars == <<instances, agent, definitions, roundRobin, picks>>
socketVars == <<socket, user, connections, timers, pending, tracked, down, revived, lost>>
streamVars == <<manager, created, kept, idle, heartbeat, ended, unsaid, orphaned>>
agentVars == <<toolVars, llmVars, chatVars, platformVars, socketVars, streamVars>>

ToolServices == INSTANCE Tools WITH
  Names <- ToolNames, Calls <- Ids, Kinds <- {"v8", "docker"}
Llm == INSTANCE LlmGateway WITH
  Requests <- Ids, faults <- llmFaults
Chat == INSTANCE AgentChat WITH
  Chats <- Ids, MaxMessages <- MaxAdded, Threshold <- CompressionThreshold
Platform == INSTANCE AgentPlatform WITH Agents <- MoreIds
WebSocket == INSTANCE WebSockets WITH Sockets <- MoreIds
EventStream == INSTANCE EventStreams WITH Streams <- MoreIds

None == "none"

NoTools ==
  /\ rows = None /\ clock = None /\ cache = None /\ executor = None /\ call = None
  /\ toolCalls = None /\ faults = None /\ kind = None /\ activeCount = None
  /\ executions = None /\ local = None /\ tool = None /\ answer = None
  /\ terminated = None
NoLlm ==
  /\ registered = None /\ limited = None /\ counter = None /\ window = None
  /\ request = None /\ callLogs = None /\ llmFaults = None
NoChat ==
  open = None /\ messages = None /\ added = None /\ chat = None /\ client = None
NoPlatform ==
  /\ instances = None /\ agent = None /\ definitions = None /\ roundRobin = None
  /\ picks = None
NoSockets ==
  /\ socket = None /\ user = None /\ connections = None /\ timers = None
  /\ pending = None /\ tracked = None /\ down = None /\ revived = None /\ lost = None
NoStreams ==
  /\ manager = None /\ created = None /\ kept = None /\ idle = None
  /\ heartbeat = None /\ ended = None /\ unsaid = None /\ orphaned = None

AgentInit ==
  \/ /\ focus = "tools" /\ ToolServices!Init
     /\ NoLlm /\ NoChat /\ NoPlatform /\ NoSockets /\ NoStreams
  \/ /\ focus = "llm" /\ Llm!Init
     /\ NoTools /\ NoChat /\ NoPlatform /\ NoSockets /\ NoStreams
  \/ /\ focus = "chat" /\ Chat!Init
     /\ NoTools /\ NoLlm /\ NoPlatform /\ NoSockets /\ NoStreams
  \/ /\ focus = "platform" /\ Platform!Init
     /\ NoTools /\ NoLlm /\ NoChat /\ NoSockets /\ NoStreams
  \/ /\ focus = "websocket" /\ WebSocket!Init
     /\ NoTools /\ NoLlm /\ NoChat /\ NoPlatform /\ NoStreams
  \/ /\ focus = "streams" /\ EventStream!Init
     /\ NoTools /\ NoLlm /\ NoChat /\ NoPlatform /\ NoSockets

(* The agent side but for one of its components stays as it is.            *)
Others(own) ==
  /\ own # "tools" => UNCHANGED toolVars
  /\ own # "llm" => UNCHANGED llmVars
  /\ own # "chat" => UNCHANGED chatVars
  /\ own # "platform" => UNCHANGED platformVars
  /\ own # "websocket" => UNCHANGED socketVars
  /\ own # "streams" => UNCHANGED streamVars

AgentNext ==
  \/ focus = "tools" /\ ToolServices!Next /\ Others("tools")
  \/ focus = "llm" /\ Llm!Next /\ Others("llm")
  \/ focus = "chat" /\ Chat!Next /\ Others("chat")
  \/ focus = "platform" /\ Platform!Next /\ Others("platform")
  \/ focus = "websocket" /\ WebSocket!Next /\ Others("websocket")
  \/ focus = "streams" /\ EventStream!Next /\ Others("streams")

-----------------------------------------------------------------------------
(* The components' properties, for the behaviours that follow them.        *)

AgentTypesOK ==
  /\ focus = "tools" => ToolServices!TypeOK
  /\ focus = "llm" => Llm!TypeOK
  /\ focus = "chat" => Chat!TypeOK
  /\ focus = "platform" => Platform!TypeOK
  /\ focus = "websocket" => WebSocket!TypeOK
  /\ focus = "streams" => EventStream!TypeOK

(* ToolRegistry: a cached tool list is stale for a known reason only, and  *)
(* what invoke runs was active when it began, or newer.                    *)
ToolListsFit ==
  focus = "tools" => ToolServices!StaleListHasACause /\ ToolServices!RunsAnActiveDefinition

(* Sandbox and Tools: the counter of executions is the number of slots     *)
(* taken, and record, executor and invocation tell the same end.           *)
ExecutionsAgree ==
  focus = "tools" => /\ ToolServices!SlotsMatch
                     /\ ToolServices!RecordTellsTheAnswer
                     /\ ToolServices!SlotsServeInvocations

(* LlmGateway: no window admits more requests than the limit.              *)
AdmittedWithinLimit == focus = "llm" => Llm!AdmittedWithinLimit

(* LlmGateway: the call log tells how each call ended.                     *)
LogTellsTheOutcome == focus = "llm" => Llm!LogTellsTheOutcome

(* AgentChat: the history sent to the model ends in the user's message and *)
(* fits the context; a client that stays receives one terminal event, then *)
(* the close.                                                              *)
ChatsFit == focus = "chat" => Chat!AskedFits /\ Chat!ClientHearsTheEnd

(* AgentPlatform: routing shares requests evenly.                          *)
FairShare == focus = "platform" => Platform!FairShare

(* WebSockets: the connections kept are the living and those on their way  *)
(* out.                                                                    *)
KeepsTheLiving == focus = "websocket" => WebSocket!KeepsTheLiving

(* EventStreams: timers run for the streams that are kept and no others.   *)
TimersHaveStreams == focus = "streams" => EventStream!TimersHaveStreams
=============================================================================
