---------------------------- MODULE SpyPlugin_proofs ----------------------------
(***************************************************************************)
(* Theorems about SpyPlugin, checked by TLAPS: what holds of the speech    *)
(* tap on its own holds of the tap inside the plugin, and the plugin's     *)
(* start and teardown, any step of which may fail, keep the handshake and  *)
(* the taps in agreement.                                                  *)
(***************************************************************************)
EXTENDS SpyPlugin, SpeechTap_proofs

--------------------------------------------------------------------------------
(* The plugin moves the speech tap only by the tap's own steps.            *)

LEMMA StartMovesTap == Start => [Next]_vars
  BY DEF Start, LoadSettings, InstallLogTap, InstallSpeechTap, InstallBrailleTap,
         MakeServer, Bind, Serve, WritePart, ReplacePart, Next, MainThread

LEMMA TeardownMovesTap == Teardown => [Next]_vars
  BY DEF Teardown, Terminate, StopServing, CloseSocket, RemoveHandshake, NoServer,
         UninstallLogTap, UninstallSpeechTap, UninstallBrailleTap, Next, MainThread

LEMMA CaptureMovesTap == CaptureSpeech \/ CaptureLog \/ CaptureBraille => [Next]_vars
  BY DEF CaptureSpeech, CaptureLog, CaptureBraille, Captured, Next, MainThread

LEMMA RpcMovesTap == Rpc => [Next]_vars
  BY DEF Rpc, Request, RequestLost, RejectHeader, Accept, RefuseCall, RunExec,
         ReadSpeech, ClearSpeech, LogCalls, BrailleCalls, Served, Next, RpcThread

LEMMA SpyMovesTap == [SpyNext]_allVars => [Next]_vars
<1>1. UNCHANGED allVars => UNCHANGED vars
  BY DEF allVars
<1> QED BY <1>1, StartMovesTap, TeardownMovesTap, CaptureMovesTap, RpcMovesTap
        DEF SpyNext

(* Every behaviour of the plugin is, to its speech tap, a behaviour of the *)
(* tap on its own: no step of the start, of the teardown or of the RPC     *)
(* server reaches around the tap's operations.                             *)
THEOREM PluginUsesTap == SpySpec => Spec
<1>1. SpyInit => Init
  BY DEF SpyInit
<1> QED BY <1>1, SpyMovesTap, PTL DEF SpySpec, Spec

(* The log in the running plugin is the newest end of what was said.       *)
THEOREM PluginLogIsNewest == SpySpec => []LogIsNewestHistory
  BY PluginUsesTap, LogIsAlwaysNewest, PTL

(* The count a client reads covers the marks it reads, in the plugin.      *)
THEOREM PluginCountsCancellations == SpySpec => []CancelledWithinCount
  BY PluginUsesTap, CancelledAlwaysWithinCount, PTL

(* To a client the plugin's speech is the history SpeechHistory specifies. *)
THEOREM PluginImplementsHistory == SpySpec => ImplementsHistory
  BY PluginUsesTap, TapImplementsHistory, PTL
--------------------------------------------------------------------------------
(* Where the plugin is, and what that says of the taps, the server and the *)
(* handshake.                                                              *)

Capturing == installed /\ "log" \in attached /\ (braillePoints => "braille" \in attached)

Down == {"unlog", "unspeech", "unbraille", "down"}    \* SpyServer.stop is past

ServerInv ==
  /\ step \in {"new", "log", "speech", "braille", "server"} =>
       ~server /\ ~listening /\ ~serving /\ handshake = "none"
  /\ step = "bind" => ~listening /\ ~serving
  /\ step \in {"serve", "write", "replace", "up"} => listening
  /\ step \in {"bind", "serve", "write"} => server /\ handshake = "none"
  /\ step \in {"replace", "up", "close", "remove"} => server
  /\ step = "stop" /\ ~server => ~listening /\ ~serving /\ handshake = "none"
  /\ serving => listening
  /\ step \in {"close", "remove"} => ~serving
  /\ step = "remove" => ~listening
  /\ step \in Down =>
       /\ ~server
       /\ serving => "stop" \in failed
       /\ listening => failed \cap {"stop", "close"} # {}
       /\ handshake # "none" => failed \cap StopSteps # {}

TapInv ==
  /\ step \in {"new", "log", "speech"} => ~installed
  /\ step \in {"new", "log"} => attached = {}
  /\ step \in {"speech", "braille"} => "log" \in attached
  /\ step = "braille" => installed
  /\ step \in {"server", "bind", "serve", "write", "replace", "up"} => Capturing
  /\ handshake # "none" /\ failed \cap StopSteps = {} => Capturing
  /\ step \in Down \ {"unlog"} /\ "log" \in attached => "unlog" \in failed
  /\ step \in {"unbraille", "down"} /\ installed => "unspeech" \in failed
  /\ step = "down" /\ "braille" \in attached => "unbraille" \in failed

Steps == {"new", "log", "speech", "braille", "server", "bind", "serve", "write",
          "replace", "up", "stop", "close", "remove", "unlog", "unspeech",
          "unbraille", "down"}

PluginInv == /\ step \in Steps
             /\ attached \subseteq Taps /\ stray \subseteq {"speech", "braille"}
             /\ handshake \in {"none", "part", "announced"}
             /\ failed \subseteq {"unlog", "unspeech", "unbraille"} \cup StopSteps
             /\ ServerInv /\ TapInv

LEMMA PluginInvInit == SpyInit => PluginInv
  BY DEF SpyInit, Init, PluginInv, ServerInv, TapInv, Steps, Down, StopSteps

LEMMA StartKeepsPluginInv == PluginInv /\ Start => PluginInv'
<1> SUFFICES ASSUME PluginInv, Start PROVE PluginInv'
  OBVIOUS
<1> USE DEF PluginInv, ServerInv, TapInv, Steps, Down, Capturing, Taps,
            StopSteps, At, Abort, vars, other, taps, socket, traces
<1>1. CASE LoadSettings
  BY <1>1 DEF LoadSettings
<1>2. CASE InstallLogTap
  BY <1>2 DEF InstallLogTap
<1>3. CASE InstallSpeechTap
  BY <1>3 DEF InstallSpeechTap, Install
<1>4. CASE InstallBrailleTap
  BY <1>4 DEF InstallBrailleTap
<1>5. CASE MakeServer
  BY <1>5 DEF MakeServer
<1>6. CASE Bind
  BY <1>6 DEF Bind
<1>7. CASE Serve
  BY <1>7 DEF Serve
<1>8. CASE WritePart
  BY <1>8 DEF WritePart
<1>9. CASE ReplacePart
  BY <1>9 DEF ReplacePart
<1> QED BY <1>1, <1>2, <1>3, <1>4, <1>5, <1>6, <1>7, <1>8, <1>9 DEF Start

LEMMA TeardownKeepsPluginInv == PluginInv /\ Teardown => PluginInv'
<1> SUFFICES ASSUME PluginInv, Teardown PROVE PluginInv'
  OBVIOUS
<1> USE DEF PluginInv, ServerInv, TapInv, Steps, Down, Capturing, Taps,
            Does, Fails, StopSteps, At, vars, other, taps, socket, traces
<1>1. CASE Terminate
  BY <1>1 DEF Terminate
<1>2. CASE StopServing
  BY <1>2 DEF StopServing
<1>3. CASE CloseSocket
  BY <1>3 DEF CloseSocket
<1>4. CASE RemoveHandshake
  BY <1>4 DEF RemoveHandshake
<1>5. CASE NoServer
  BY <1>5 DEF NoServer
<1>6. CASE UninstallLogTap
  BY <1>6 DEF UninstallLogTap
<1>7. CASE UninstallSpeechTap
  <2>1. CASE Fails("unspeech", "unbraille")
    BY <1>7, <2>1 DEF UninstallSpeechTap, Uninstall
  <2>2. CASE Does("unspeech", "unbraille") /\ Uninstall
    BY <1>7, <2>2 DEF UninstallSpeechTap, Uninstall
  <2>3. CASE Does("unspeech", "unbraille") /\ ~installed /\ UNCHANGED vars
    BY <1>7, <2>3 DEF UninstallSpeechTap
  <2> QED BY <1>7, <2>1, <2>2, <2>3 DEF UninstallSpeechTap
<1>8. CASE UninstallBrailleTap
  BY <1>8 DEF UninstallBrailleTap
<1> QED BY <1>1, <1>2, <1>3, <1>4, <1>5, <1>6, <1>7, <1>8 DEF Teardown

\* Neither what the taps capture nor an RPC moves the plugin.
LEMMA OthersLeavePlugin ==
  CaptureSpeech \/ CaptureLog \/ CaptureBraille \/ Rpc \/ UNCHANGED allVars
    => UNCHANGED <<plugin, installed>>
<1>1. CaptureSpeech => UNCHANGED <<plugin, installed>>
  BY DEF CaptureSpeech, SpeechQueued, CountCancellation, MarkCancelled, spyVars
<1>2. CaptureLog \/ CaptureBraille => UNCHANGED <<plugin, installed>>
  BY DEF CaptureLog, CaptureBraille, Captured, vars
<1>3. Rpc => UNCHANGED <<plugin, installed>>
  BY DEF Rpc, Request, RequestLost, RejectHeader, Accept, RefuseCall, RunExec,
         ReadSpeech, ClearSpeech, LogCalls, BrailleCalls, Served, SpeechIndex,
         SpeechSince, ClearLog, ZeroCount, vars
<1>4. UNCHANGED allVars => UNCHANGED <<plugin, installed>>
  BY DEF allVars, spyVars, vars
<1> QED BY <1>1, <1>2, <1>3, <1>4

LEMMA PluginInvStep == PluginInv /\ [SpyNext]_allVars => PluginInv'
<1> SUFFICES ASSUME PluginInv, [SpyNext]_allVars PROVE PluginInv'
  OBVIOUS
<1>1. CASE Start
  BY <1>1, StartKeepsPluginInv
<1>2. CASE Teardown
  BY <1>2, TeardownKeepsPluginInv
<1>3. CASE UNCHANGED <<plugin, installed>>
  BY <1>3 DEF PluginInv, ServerInv, TapInv, Down, Capturing, plugin, taps, socket,
              traces
<1> QED BY <1>1, <1>2, <1>3, OthersLeavePlugin DEF SpyNext

LEMMA PluginInvAlways == SpySpec => []PluginInv
  BY PluginInvInit, PluginInvStep, PTL DEF SpySpec

(* A plugin that is down has left nothing in NVDA but what a failed step of *)
(* its teardown was to take back, whichever step of its start failed.       *)
THEOREM DownIsInert == SpySpec => []InertWhenDown
<1>1. PluginInv => InertWhenDown
  BY DEF PluginInv, ServerInv, TapInv, Down, InertWhenDown
<1> QED BY <1>1, PluginInvAlways, PTL

(* Whoever finds the handshake finds taps that capture, unless the stop of *)
(* the server failed and left the file.  That the server still answers is  *)
(* not said: the file is removed only after the loop has ended.            *)
THEOREM HandshakeMeansCapture == SpySpec => []AnnouncedIsCapturing
<1>1. PluginInv => AnnouncedIsCapturing
  BY DEF PluginInv, TapInv, Capturing, AnnouncedIsCapturing
<1> QED BY <1>1, PluginInvAlways, PTL
--------------------------------------------------------------------------------
(* One call at a time, and whose it is.                                    *)

CallInv ==
  /\ request \in Requests \cup {NoRequest}
  /\ stage \in {"none", "sent", "handling"}
  /\ stage = "handling" => request.header
  /\ clearing => Handling("speech_clear")

LEMMA CallInvInit == SpyInit => CallInv
  BY DEF SpyInit, Init, CallInv

LEMMA CallInvStep == CallInv /\ [SpyNext]_allVars => CallInv'
<1> SUFFICES ASSUME CallInv, [SpyNext]_allVars PROVE CallInv'
  OBVIOUS
<1> USE DEF CallInv, Handling
<1>1. CASE Start \/ Teardown
  <2>1. UNCHANGED call
    BY <1>1 DEF Start, LoadSettings, InstallLogTap, InstallSpeechTap,
       InstallBrailleTap, MakeServer, Bind, Serve, WritePart, ReplacePart, Teardown,
       Terminate, StopServing, CloseSocket, RemoveHandshake, NoServer,
       UninstallLogTap, UninstallSpeechTap, UninstallBrailleTap, other
  <2>2. UNCHANGED clearing
    BY <1>1 DEF Start, LoadSettings, InstallLogTap, InstallSpeechTap, Install,
       InstallBrailleTap, MakeServer, Bind, Serve, WritePart, ReplacePart, Teardown,
       Terminate, StopServing, CloseSocket, RemoveHandshake, NoServer, Uninstall,
       UninstallLogTap, UninstallSpeechTap, UninstallBrailleTap, vars
  <2> QED BY <2>1, <2>2 DEF call
<1>2. CASE CaptureSpeech
  BY <1>2 DEF CaptureSpeech, SpeechQueued, CountCancellation, MarkCancelled,
              spyVars, call
<1>3. CASE CaptureLog \/ CaptureBraille
  BY <1>3 DEF CaptureLog, CaptureBraille, Captured, vars, call
<1>4. ASSUME NEW r \in Requests, Request(r)
      PROVE  CallInv'
  BY <1>4 DEF Request, vars
<1>5. CASE RequestLost \/ RejectHeader
  BY <1>5 DEF RequestLost, RejectHeader, Answered, vars
<1>6. CASE Accept
  BY <1>6 DEF Accept, vars
<1>7. CASE RefuseCall
  BY <1>7 DEF RefuseCall, Answered, vars
<1>8. CASE RunExec
  BY <1>8 DEF RunExec, Answered, vars
<1>9. CASE ReadSpeech
  BY <1>9 DEF ReadSpeech, SpeechIndex, SpeechSince, Answered
<1>10. CASE ClearSpeech
  BY <1>10 DEF ClearSpeech, ClearLog, ZeroCount, Answered, call
<1>11. CASE LogCalls \/ BrailleCalls
  BY <1>11 DEF LogCalls, BrailleCalls, Served, Answered, vars
<1>12. CASE UNCHANGED allVars
  BY <1>12 DEF allVars, spyVars, call, vars
<1> QED BY <1>1, <1>2, <1>3, <1>4, <1>5, <1>6, <1>7, <1>8, <1>9, <1>10, <1>11, <1>12
        DEF SpyNext, Rpc

(* A client hears AuthError only when one of its tokens is not this spy's, *)
(* and with such a token it has no method run.                             *)
THEOREM OnlyTokensAreRejected == SpySpec => AuthErrorMeansToken
<1>1. CallInv /\ [SpyNext]_allVars =>
        [stage # "none" /\ stage' = "none" =>
           /\ outcome' = "AuthError" => ~(request.header /\ request.token)
           /\ outcome' \in {"ok", "ScenarioSyntaxError"} =>
                request.header /\ request.token]_allVars
  <2> SUFFICES ASSUME CallInv, SpyNext, stage # "none", stage' = "none"
               PROVE  /\ outcome' = "AuthError" => ~(request.header /\ request.token)
                      /\ outcome' \in {"ok", "ScenarioSyntaxError"} =>
                           request.header /\ request.token
    OBVIOUS
  <2> USE DEF CallInv, Handling, Answered
  <2>1. CASE Start \/ Teardown \/ CaptureSpeech \/ CaptureLog \/ CaptureBraille
    <3>1. UNCHANGED call
      BY <2>1 DEF Start, LoadSettings, InstallLogTap, InstallSpeechTap,
         InstallBrailleTap, MakeServer, Bind, Serve, WritePart, ReplacePart, Teardown,
         Terminate, StopServing, CloseSocket, RemoveHandshake, NoServer,
         UninstallLogTap, UninstallSpeechTap, UninstallBrailleTap, other,
         CaptureSpeech, CaptureLog, CaptureBraille, Captured, spyVars
    <3> QED BY <3>1 DEF call
  <2>2. CASE (\E r \in Requests : Request(r)) \/ Accept
    BY <2>2 DEF Request, Accept
  <2>3. CASE RequestLost \/ RejectHeader
    BY <2>3 DEF RequestLost, RejectHeader
  <2>4. CASE RefuseCall
    BY <2>4 DEF RefuseCall, Classified, Refusal
  <2>5. CASE RunExec
    BY <2>5 DEF RunExec, Classified, Wrapped
  <2>6. CASE ReadSpeech \/ ClearSpeech
    BY <2>6 DEF ReadSpeech, ClearSpeech, call
  <2>7. CASE LogCalls \/ BrailleCalls
    BY <2>7 DEF LogCalls, BrailleCalls, Served
  <2> QED BY <2>1, <2>2, <2>3, <2>4, <2>5, <2>6, <2>7 DEF SpyNext, Rpc
<1> QED BY <1>1, CallInvInit, CallInvStep, PTL DEF SpySpec, AuthErrorMeansToken
--------------------------------------------------------------------------------
(* The braille and NVDA logs, whose entries are left abstract.             *)

RecordInv == /\ records \in [Taps -> [items : Seq(Taps), dropped : Nat]]
             /\ \A t \in Taps : Len(records[t].items) <= Capacity

LEMMA RecordInvInit == SpyInit => RecordInv
<1> SUFFICES ASSUME SpyInit PROVE RecordInv
  OBVIOUS
<1>1. EmptyLog \in [items : Seq(Taps), dropped : Nat] /\ Len(EmptyLog.items) = 0
  BY DEF EmptyLog
<1> QED BY <1>1, CapacityAssumption DEF SpyInit, RecordInv

LEMMA RecordInvStep == RecordInv /\ [SpyNext]_allVars => RecordInv'
<1> SUFFICES ASSUME RecordInv, [SpyNext]_allVars PROVE RecordInv'
  OBVIOUS
<1> DEFINE Changed(t, l) == records' = [records EXCEPT ![t] = l]
<1>a. ASSUME NEW t \in Taps, NEW l \in [items : Seq(Taps), dropped : Nat],
             Len(l.items) <= Capacity, Changed(t, l)
      PROVE  RecordInv'
  BY <1>a DEF RecordInv
<1>b. EmptyLog \in [items : Seq(Taps), dropped : Nat] /\ Len(EmptyLog.items) <= Capacity
  BY CapacityAssumption DEF EmptyLog
<1>1. ASSUME NEW t \in Taps, Captured(t)
      PROVE  RecordInv'
  <2>1. Changed(t, Appended(records[t], t))
    BY <1>1 DEF Captured
  <2>2. /\ Appended(records[t], t) \in [items : Seq(Taps), dropped : Nat]
        /\ Len(Appended(records[t], t).items) <= Capacity
    BY AppendedFacts DEF RecordInv, LogsOf
  <2> HIDE DEF Changed
  <2> QED BY <1>a, <2>1, <2>2
<1>2. CASE LogCalls
  <2>1. UNCHANGED records \/ Changed("log", EmptyLog)
    BY <1>2 DEF LogCalls, Served, Cleared
  <2> HIDE DEF Changed
  <2>2. UNCHANGED records => RecordInv'
    BY DEF RecordInv
  <2> QED BY <1>a, <1>b, <2>1, <2>2 DEF Taps
<1>3. CASE BrailleCalls
  <2>1. UNCHANGED records \/ Changed("braille", EmptyLog)
    BY <1>3 DEF BrailleCalls, Served, Cleared
  <2> HIDE DEF Changed
  <2>2. UNCHANGED records => RecordInv'
    BY DEF RecordInv
  <2> QED BY <1>a, <1>b, <2>1, <2>2 DEF Taps
<1>4. CASE UNCHANGED records
  BY <1>4 DEF RecordInv
<1>5. Start \/ Teardown => UNCHANGED records
  BY DEF Start, LoadSettings, InstallLogTap, InstallSpeechTap, InstallBrailleTap,
         MakeServer, Bind, Serve, WritePart, ReplacePart, Teardown, Terminate,
         StopServing, CloseSocket, RemoveHandshake, NoServer, UninstallLogTap,
         UninstallSpeechTap, UninstallBrailleTap, other
<1>6. Rpc => UNCHANGED records \/ LogCalls \/ BrailleCalls
  BY DEF Rpc, Request, RequestLost, RejectHeader, Accept, RefuseCall, RunExec,
         ReadSpeech, ClearSpeech
<1>7. CaptureSpeech \/ UNCHANGED allVars => UNCHANGED records
  BY DEF CaptureSpeech, spyVars, allVars
<1>8. CaptureLog \/ CaptureBraille => Captured("log") \/ Captured("braille")
  BY DEF CaptureLog, CaptureBraille
<1> QED BY <1>1, <1>2, <1>3, <1>4, <1>5, <1>6, <1>7, <1>8 DEF SpyNext, Taps

(* Every reachable state of the plugin is typed: the log and braille taps  *)
(* never hold more than their capacity, and _LOCK is held by speech_clear  *)
(* only while its call is being handled.                                   *)
THEOREM PluginIsTyped == SpySpec => []SpyTypeOK
<1>1. SpySpec => [](TypeOK /\ LogIsNewestHistory)
  BY PluginUsesTap, LogIsAlwaysNewest, PTL
<1>2. SpySpec => []CallInv
  BY CallInvInit, CallInvStep, PTL DEF SpySpec
<1>3. SpySpec => []RecordInv
  BY RecordInvInit, RecordInvStep, PTL DEF SpySpec
<1>4. (TypeOK /\ LogIsNewestHistory) /\ PluginInv /\ CallInv /\ RecordInv => SpyTypeOK
  BY DEF SpyTypeOK, PluginInv, CallInv, RecordInv, Handling
<1> QED BY <1>1, <1>2, <1>3, <1>4, PluginInvAlways, PTL
================================================================================
