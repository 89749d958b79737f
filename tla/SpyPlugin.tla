-------------------------------- MODULE SpyPlugin --------------------------------
(***************************************************************************)
(* The spy from its load to its end (GlobalPlugin, its three taps and      *)
(* SpyServer), and one RPC at a time through it: the client's request, the *)
(* token header, the dispatcher, the handler and what the client makes of  *)
(* the answer (server.py, registry.py, rpcclient.py).                      *)
(*                                                                         *)
(* GlobalPlugin's steps run one after the other on NVDA's main thread,     *)
(* while the RPC thread serves.  MainThread shows the wait of a handler    *)
(* for the main thread, and NvdaProcess what the host makes of the         *)
(* handshake.                                                              *)
(***************************************************************************)
EXTENDS SpeechTap

CONSTANTS Methods,          \* methods a client may ask for
          MaxRecords        \* bound: entries in the braille and NVDA logs at a time

ASSUME SpyPluginAssumption == MaxRecords \in Nat

VARIABLES step,             \* where GlobalPlugin is, on the main thread
          braillePoints,    \* this NVDA has braille's extension points
          attached,         \* the log tap's handler and the braille tap's callbacks
          stray,            \* callbacks registered by an install that then failed
          records,          \* _RECORDS and _WRITES
          server,           \* GlobalPlugin._server has been assigned
          listening,        \* the server's socket is open
          serving,          \* its loop takes requests
          handshake,        \* the handshake file: none, part, or announced
          failed,           \* steps of the teardown that raised
          request,          \* the call a client is in the middle of
          stage,            \* how far the spy has got with it
          outcome           \* what the client made of the last answer

taps == <<attached, stray>>
socket == <<server, listening, serving>>
traces == <<handshake, failed>>
plugin == <<step, braillePoints, taps, socket, traces>>
call == <<request, stage, outcome>>
other == <<braillePoints, records, call>>    \* no step of GlobalPlugin changes
spyVars == <<plugin, records, call>>
allVars == <<vars, spyVars>>

Taps == {"log", "braille"}
StopSteps == {"stop", "close", "remove"}    \* those of SpyServer.stop
\* What a client may send: neither check of a token looks at the arguments, and
\* the header's not at the method.
Requests == {r \in [method : Methods, header : BOOLEAN, token : BOOLEAN] :
               (r.header /\ r.token) \/ r.method \in {"exec", "unknown"}}
NoRequest == [method |-> "none", header |-> FALSE, token |-> FALSE]

SpyInit ==
  /\ Init
  /\ step = "new" /\ braillePoints \in BOOLEAN
  /\ attached = {} /\ stray = {} /\ records = [t \in Taps |-> EmptyLog]
  /\ server = FALSE /\ listening = FALSE /\ serving = FALSE
  /\ handshake = "none" /\ failed = {}
  /\ request = NoRequest /\ stage = "none" /\ outcome = "none"
--------------------------------------------------------------------------------
(* GlobalPlugin.__init__                                                   *)

At(here, there) == step = here /\ step' = there

\* A step of __init__ raises, and the plugin is torn down.
Abort(here) == At(here, "stop")

\* Settings.from_environ: without both variables the spy stays idle.
LoadSettings ==
  /\ At("new", "log") \/ At("new", "down")
  /\ UNCHANGED <<vars, other, taps, socket, traces>>

\* log_tap.install
InstallLogTap ==
  /\ \/ At("log", "speech") /\ attached' = attached \cup {"log"}
     \/ Abort("log") /\ UNCHANGED attached
  /\ UNCHANGED <<vars, other, stray, socket, traces>>

\* speech_tap.install; an extension point it looks for may be missing.
InstallSpeechTap ==
  /\ \/ At("speech", "braille") /\ Install /\ UNCHANGED stray
     \/ Abort("speech") /\ stray' \in {stray, stray \cup {"speech"}} /\ UNCHANGED vars
  /\ UNCHANGED <<other, attached, socket, traces>>

\* braille_tap.install, which does without on an NVDA that has no such points.
InstallBrailleTap ==
  /\ \/ /\ braillePoints /\ At("braille", "server")
        /\ attached' = attached \cup {"braille"} /\ UNCHANGED stray
     \/ ~braillePoints /\ At("braille", "server") /\ UNCHANGED <<taps>>
     \/ /\ braillePoints /\ Abort("braille")
        /\ stray' \in {stray, stray \cup {"braille"}} /\ UNCHANGED attached
  /\ UNCHANGED <<vars, other, socket, traces>>

\* A server that GlobalPlugin holds only once it has started.
MakeServerUnheld ==
  /\ At("server", "bind")
  /\ UNCHANGED <<vars, other, taps, socket, traces>>

\* GlobalPlugin holds the server before it is started.
MakeServer ==
  /\ At("server", "bind")
  /\ server' = TRUE
  /\ UNCHANGED <<vars, other, taps, listening, serving, traces>>

\* SpyServer.start: the socket, which may be refused, then the serve loop.
Bind ==
  /\ \/ At("bind", "serve") /\ listening' = TRUE
     \/ Abort("bind") /\ UNCHANGED listening
  /\ UNCHANGED <<vars, other, taps, server, serving, traces>>

Serve ==
  /\ \/ At("serve", "write") /\ serving' = TRUE
     \/ Abort("serve") /\ UNCHANGED serving
  /\ UNCHANGED <<vars, other, taps, server, listening, traces>>

\* _write_handshake: a .part file that takes the handshake's place when it is
\* complete.
WritePart ==
  /\ \/ At("write", "replace") /\ handshake' = "part"
     \/ Abort("write") /\ handshake' \in {"none", "part"}
  /\ UNCHANGED <<vars, other, taps, socket, failed>>

ReplacePart ==
  /\ \/ At("replace", "up") /\ handshake' = "announced"
     \/ Abort("replace") /\ UNCHANGED handshake
  /\ UNCHANGED <<vars, other, taps, socket, failed>>
--------------------------------------------------------------------------------
(* GlobalPlugin._teardown: every step of it, whichever fails               *)

Does(here, there) == At(here, there) /\ UNCHANGED failed

\* A step raises: _best_effort swallows that and goes on with the next of its
\* own, to which all of SpyServer.stop is one.
Fails(here, there) == At(here, there) /\ failed' = failed \cup {here}

\* A teardown that begins with the taps, as the start did.
TerminateTapsFirst ==
  /\ ~marking
  /\ Does("up", "unlog")
  /\ UNCHANGED <<vars, other, taps, socket, handshake>>

Terminate ==
  /\ ~marking
  /\ Does("up", "stop")
  /\ UNCHANGED <<vars, other, taps, socket, handshake>>

\* SpyServer.stop: the loop is told to end and waited for, but not for long.  The
\* thread that tells it may fail to start, and then loop, socket and file stay.
StopServing ==
  /\ server
  /\ \/ Does("stop", "close") /\ serving' = FALSE /\ UNCHANGED server
     \/ listening /\ Fails("stop", "unlog") /\ server' = FALSE /\ UNCHANGED serving
  /\ UNCHANGED <<vars, other, taps, listening, handshake>>

\* A request the loop has not taken is lost with the socket.
CloseSocket ==
  /\ \/ Does("close", "remove") /\ listening' = FALSE /\ UNCHANGED server
     \/ /\ listening /\ Fails("close", "unlog")
        /\ server' = FALSE /\ listening' \in BOOLEAN
  /\ UNCHANGED <<vars, other, taps, serving, handshake>>

\* _remove_handshake, which fails while the host has the file open.
RemoveHandshake ==
  /\ \/ Does("remove", "unlog") /\ handshake' = "none"
     \/ Fails("remove", "unlog") /\ UNCHANGED handshake
  /\ server' = FALSE
  /\ UNCHANGED <<vars, other, taps, listening, serving>>

\* There is no server yet, and so no handshake.
NoServer ==
  /\ ~server
  /\ Does("stop", "unlog")
  /\ UNCHANGED <<vars, other, taps, socket, handshake>>

UninstallLogTap ==
  /\ \/ Does("unlog", "unspeech") /\ attached' = attached \ {"log"}
     \/ "log" \in attached /\ Fails("unlog", "unspeech") /\ UNCHANGED attached
  /\ UNCHANGED <<vars, other, stray, socket, handshake>>

\* One that fails leaves the tap installed, with the callbacks it had yet to
\* take back.
UninstallSpeechTap ==
  /\ \/ Does("unspeech", "unbraille") /\ Uninstall
     \/ Does("unspeech", "unbraille") /\ ~installed /\ UNCHANGED vars
     \/ Fails("unspeech", "unbraille") /\ installed /\ UNCHANGED vars
  /\ UNCHANGED <<other, taps, socket, handshake>>

UninstallBrailleTap ==
  /\ \/ Does("unbraille", "down") /\ attached' = attached \ {"braille"}
     \/ /\ "braille" \in attached /\ Fails("unbraille", "down")
        /\ UNCHANGED attached
  /\ UNCHANGED <<vars, other, stray, socket, handshake>>
--------------------------------------------------------------------------------
(* What the taps capture                                                   *)

Captured(tap) == /\ tap \in attached
                 /\ Len(records[tap].items) < MaxRecords
                 /\ records' = [records EXCEPT ![tap] = Appended(@, tap)]
                 /\ UNCHANGED <<vars, plugin, call>>

\* Any thread may log.
CaptureLog == Captured("log")

\* _on_write_cells, on the main thread.
CaptureBraille == /\ step \in {"up", "down"} /\ ~marking
                  /\ Captured("braille")

\* The speech callbacks, on a main thread that is not inside the plugin.
CaptureSpeech ==
  /\ step \in {"up", "down"}
  /\ SpeechQueued \/ CountCancellation \/ MarkCancelled
  /\ UNCHANGED spyVars
--------------------------------------------------------------------------------
(* One RPC                                                                 *)

\* A client calls, perhaps one with the tokens of another session's NVDA.
Request(r) ==
  /\ stage = "none" /\ listening
  /\ request' = r /\ stage' = "sent" /\ outcome' = "none"
  /\ UNCHANGED <<vars, plugin, records>>

\* What the dispatcher makes of an exception of a handler.
Unwrapped(type) == [outer |-> type, inner |-> type]
Wrapped(type) == [outer |-> "RuntimeError", inner |-> type]
Refusal(type) == [outer |-> type, inner |-> type]

\* _classify_fault
Classified(fault) ==
  CASE fault.outer = "PermissionError" -> "AuthError"
    [] request.method = "exec" /\ fault.outer = "RuntimeError"
       /\ fault.inner = "SyntaxError" -> "ScenarioSyntaxError"
    [] OTHER -> "RpcError"

\* The client gets its answer, unless the connection has gone.
Answered(result) ==
  /\ stage' = "none"
  /\ request' = NoRequest
  /\ outcome' \in {result, "ConnectionLost"}

\* The request still waits when the socket is closed, or when nothing takes it
\* any more and the client gives up.
RequestLost ==
  /\ stage = "sent" /\ ~(listening /\ serving)
  /\ Answered("ConnectionLost")
  /\ UNCHANGED <<vars, plugin, records>>

\* do_POST without the session's header: 401, once the body has been read or
\* its deadline has passed.
RejectHeader ==
  /\ stage = "sent" /\ serving /\ ~request.header
  /\ Answered("AuthError")
  /\ UNCHANGED <<vars, plugin, records>>

Accept ==
  /\ stage = "sent" /\ serving /\ request.header
  /\ stage' = "handling"
  /\ UNCHANGED <<vars, plugin, records, request, outcome>>

\* _dispatch: no such method, or not this session's token.
RefuseCall ==
  /\ stage = "handling"
  /\ \/ request.method = "unknown" /\ Answered(Classified(Refusal("LookupError")))
     \/ /\ request.method # "unknown" /\ ~request.token
        /\ Answered(Classified(Refusal("PermissionError")))
  /\ UNCHANGED <<vars, plugin, records>>

Handling(method) == stage = "handling" /\ request.token /\ request.method = method

\* A scenario, which may not compile, may raise what it likes, and may not get
\* the main thread in time.
RunExec ==
  /\ Handling("exec")
  /\ \/ Answered("ok")
     \/ \E type \in {"SyntaxError", "PermissionError", "TimeoutError"} :
          Answered(Classified(Wrapped(type)))
  /\ UNCHANGED <<vars, plugin, records>>

ReadSpeech ==
  /\ \/ Handling("speech_index") /\ SpeechIndex
     \/ Handling("speech_since") /\ (SpeechSince(0) \/ SpeechSince(cursor))
  /\ Answered("ok")
  /\ UNCHANGED <<plugin, records>>

ClearSpeech ==
  /\ Handling("speech_clear")
  /\ \/ ClearLog /\ UNCHANGED call
     \/ ZeroCount /\ Answered("ok")
  /\ UNCHANGED <<plugin, records>>

Served(method, after) == /\ Handling(method)
                         /\ records' = after
                         /\ Answered("ok")
                         /\ UNCHANGED <<vars, plugin>>

\* log_index and log_since, log_clear.
LogCalls == \/ Served("log_since", records)
            \/ Served("log_clear", [records EXCEPT !["log"] = Cleared(@)])

\* braille_index and braille_since, braille_clear.
BrailleCalls == \/ Served("braille_since", records)
                \/ Served("braille_clear", [records EXCEPT !["braille"] = Cleared(@)])
--------------------------------------------------------------------------------
Start == LoadSettings \/ InstallLogTap \/ InstallSpeechTap \/ InstallBrailleTap
         \/ MakeServer \/ Bind \/ Serve \/ WritePart \/ ReplacePart

Teardown == Terminate \/ StopServing \/ CloseSocket \/ RemoveHandshake \/ NoServer
            \/ UninstallLogTap \/ UninstallSpeechTap \/ UninstallBrailleTap

Rpc == (\E r \in Requests : Request(r)) \/ RequestLost \/ RejectHeader \/ Accept
       \/ RefuseCall \/ RunExec \/ ReadSpeech \/ ClearSpeech \/ LogCalls \/ BrailleCalls

SpyNext == Start \/ Teardown \/ CaptureSpeech \/ CaptureLog \/ CaptureBraille \/ Rpc

SpySpec == SpyInit /\ [][SpyNext]_allVars
--------------------------------------------------------------------------------
(* Properties.                                                             *)

SpyTypeOK ==
  /\ TypeOK
  /\ attached \subseteq Taps /\ stray \subseteq {"speech", "braille"}
  /\ \A t \in Taps : Len(records[t].items) <= Capacity
  /\ handshake \in {"none", "part", "announced"}
  /\ failed \subseteq {"unlog", "unspeech", "unbraille"} \cup StopSteps
  /\ request \in Requests \cup {NoRequest}
  /\ stage \in {"none", "sent", "handling"}
  /\ clearing => stage = "handling"

(* A spy that has no session, that could not start, or that was terminated *)
(* listens to nothing, has no tap in NVDA and leaves no handshake, part or *)
(* whole, but for what it failed to take back: one step of the teardown    *)
(* that fails costs no other step, except those of SpyServer.stop, which   *)
(* go together, and the callbacks of an install that failed between two    *)
(* registrations.                                                          *)
InertWhenDown ==
  step = "down" =>
    /\ ~server
    /\ serving => "stop" \in failed
    /\ listening => failed \cap {"stop", "close"} # {}
    /\ handshake # "none" => failed \cap StopSteps # {}
    /\ "log" \in attached => "unlog" \in failed
    /\ installed => "unspeech" \in failed
    /\ "braille" \in attached => "unbraille" \in failed

(* As long as a host may find a handshake the taps capture, unless a stop  *)
(* of the server failed and so left the file behind: a test that attaches  *)
(* to a spy, however late in its life, reads true logs.                    *)
AnnouncedIsCapturing ==
  handshake = "announced" /\ failed \cap StopSteps = {} =>
    installed /\ "log" \in attached /\ (braillePoints => "braille" \in attached)

(* A client is told of a rejected token only if one of its tokens is not   *)
(* this spy's, whatever a scenario raises inside NVDA; and a client with   *)
(* such a token never has a method run for it.                             *)
AuthErrorMeansToken ==
  [][stage # "none" /\ stage' = "none" =>
       /\ outcome' = "AuthError" => ~(request.header /\ request.token)
       /\ outcome' \in {"ok", "ScenarioSyntaxError"} =>
            request.header /\ request.token]_allVars
================================================================================
