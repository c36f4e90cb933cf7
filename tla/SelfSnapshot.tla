---------------------------- MODULE SelfSnapshot ----------------------------
(***************************************************************************)
(* CaptureSelfSnapshot (sideeye/side_eye.go) and the client of the         *)
(* Side-Eye API that it uses (internal/apiclient): a program connects to   *)
(* Side-Eye, asks the service for a snapshot of itself and releases both   *)
(* the client and the connection, whatever fails.  The program may also    *)
(* have a SideEyeClient of its own (sideeyeclient/client.go).              *)
(*                                                                         *)
(* CaptureSelfSnapshot makes a connection of its own.  It is modelled when *)
(* the program's other connection is closed, so that the connection of     *)
(* SideEyeConn stands for either.                                          *)
(***************************************************************************)
EXTENDS SideEyeConn

VARIABLES
  self,    \* where each caller stands in CaptureSelfSnapshot
  api,     \* its API client is open
  result,  \* what its last call, when it asked the service, returned
  client   \* its own SideEyeClient, with a token or without

selfVars == <<self, api, result, client>>
selfAndConnVars == <<vars, selfVars>>

\* The first detail of the service's error, or its code when it has none that is known.
Details ==
  {"BINARY_STRIPPED", "NO_AGENTS", "NO_PROCESSES", "PROCESS_MISSING", "ENVIRONMENT_MISSING"}
Answers == Details \cup {"ok", "Unavailable", "other"}

\* CaptureSnapshot of the API client: which error the caller sees.
Translated(a) ==
  CASE a = "BINARY_STRIPPED" -> "BinaryStrippedError"
    [] a = "NO_AGENTS" -> "NoAgentsError"
    [] a = "NO_PROCESSES" -> "NoProcessesError"
    [] a = "PROCESS_MISSING" -> "ProcessMissingError"
    [] a = "ENVIRONMENT_MISSING" -> "EnvMissingError"
    [] a = "Unavailable" -> "failed to connect"
    [] OTHER -> a

\* DeleteRecording: details are not looked at.
TranslatedDelete(a) == IF a = "Unavailable" THEN "failed to connect" ELSE a

SelfInit ==
  /\ Init
  /\ self = [k \in Callers |-> "none"]
  /\ api = [k \in Callers |-> FALSE]
  /\ result = [k \in Callers |-> "none"]
  /\ client = [k \in Callers |-> "none"]

-----------------------------------------------------------------------------
\* Caller k goes on in CaptureSelfSnapshot when the call it made has returned.
SelfStep(k, from, to) ==
  /\ pc[k] = "idle" /\ self[k] = from
  /\ self' = [self EXCEPT ![k] = to]
  /\ UNCHANGED client

Begin(k) ==
  /\ cur = NoSession
  /\ SelfStep(k, "none", "connect")
  /\ Call(k, "connect")
  /\ result' = [result EXCEPT ![k] = "none"]
  /\ UNCHANGED api

\* Connect() failed: nothing is deferred yet.
ConnectFailed(k) ==
  /\ cur = NoSession
  /\ SelfStep(k, "connect", "none")
  /\ result' = [result EXCEPT ![k] = "failed to connect"]
  /\ UNCHANGED <<vars, api>>

NewAPIClient(k) ==
  /\ cur # NoSession
  /\ SelfStep(k, "connect", "ask")
  /\ api' = [api EXCEPT ![k] = TRUE]
  /\ UNCHANGED <<vars, result>>

\* Mutant: the connection is not closed when there is no API client.
NewAPIClientFailsReturning(k) ==
  /\ cur # NoSession
  /\ SelfStep(k, "connect", "none")
  /\ result' = [result EXCEPT ![k] = "failed to create client"]
  /\ UNCHANGED <<vars, api>>

\* The URL is malformed, or has neither of the two schemes.
NewAPIClientFails(k) ==
  /\ cur # NoSession
  /\ SelfStep(k, "connect", "close")
  /\ result' = [result EXCEPT ![k] = "failed to create client"]
  /\ UNCHANGED <<vars, api>>

\* The service answers, or the context is done.
Asked(k) ==
  /\ SelfStep(k, "ask", "release")
  /\ \E a \in Answers : result' = [result EXCEPT ![k] = Translated(a)]
  /\ UNCHANGED <<vars, api>>

\* The deferred calls, in reverse order.
CloseAPIClient(k) ==
  /\ SelfStep(k, "release", "close")
  /\ api' = [api EXCEPT ![k] = FALSE]
  /\ UNCHANGED <<vars, result>>

CloseConn(k) ==
  SelfStep(k, "close", "closing") /\ Call(k, "close") /\ UNCHANGED <<api, result>>

Return(k) == SelfStep(k, "closing", "none") /\ UNCHANGED <<vars, api, result>>

\* The program's own calls.
ProgramCalls(k) ==
  /\ self[k] = "none"
  /\ Call(k, "close") \/ Call(k, "connect") \/ CallStatus(k)
  /\ result' = [result EXCEPT ![k] = "none"]
  /\ UNCHANGED <<self, api, client>>

(***************************************************************************)
(* The program's own client.                                               *)
(***************************************************************************)
OnClient(k) == pc[k] = "idle" /\ self[k] = "none" /\ UNCHANGED <<vars, self, api>>

\* The token is that of WithApiToken or that of the environment; when it is not set there,
\* the error of the option is dropped.  The API client may fail.
NewSideEyeClient(k) ==
  /\ OnClient(k) /\ client[k] = "none"
  /\ client' \in {[client EXCEPT ![k] = c] : c \in {"token", "anonymous"}}
  /\ result' = [result EXCEPT ![k] = "none"]

CaptureSnapshot(k) ==
  /\ OnClient(k) /\ client[k] # "none"
  /\ \E a \in Answers : result' = [result EXCEPT ![k] = Translated(a)]
  /\ UNCHANGED client

DeleteRecording(k) ==
  /\ OnClient(k) /\ client[k] # "none"
  /\ \E a \in Answers : result' = [result EXCEPT ![k] = TranslatedDelete(a)]
  /\ UNCHANGED client

CloseSideEyeClient(k) ==
  /\ OnClient(k) /\ client[k] # "none"
  /\ client' = [client EXCEPT ![k] = "none"]
  /\ result' = [result EXCEPT ![k] = "none"]

ClientCalls(k) ==
  NewSideEyeClient(k) \/ CaptureSnapshot(k) \/ DeleteRecording(k) \/ CloseSideEyeClient(k)

SelfSteps(k) ==
  \/ ConnectFailed(k) \/ NewAPIClient(k) \/ NewAPIClientFails(k) \/ Asked(k)
  \/ CloseAPIClient(k) \/ CloseConn(k) \/ Return(k)

ConnSteps ==
  \/ \E k \in Callers : CloseSteps(k) \/ ConnectSteps(k)
  \/ \E a \in Actors : CloseInner(a)
  \/ StopClosedListener
  \/ \E s \in Sessions : Serve(s) \/ Offer(s) \/ Hand(s) \/ Drop(s) \/ Leave(s) \/ Finish(s)

SelfNext ==
  \/ \E k \in Callers : Begin(k) \/ SelfSteps(k) \/ ProgramCalls(k) \/ ClientCalls(k)
  \/ ConnSteps /\ UNCHANGED selfVars

\* The fairness of SideEyeConn.  The context has a deadline: the service's answer, or an
\* error in its place, comes.
SelfSpec ==
  /\ SelfInit /\ [][SelfNext]_selfAndConnVars
  /\ Fairness
  /\ \A k \in Callers : WF_selfAndConnVars(SelfSteps(k))

-----------------------------------------------------------------------------
\* "Close() needs to be called on the client when it is no longer needed to release
\* resources": a CaptureSelfSnapshot that returns, with any error, leaves neither an API
\* client nor a connection or a goroutine behind, and no listener but that of a Connect()
\* whose artifacts client failed.
SelfReleased ==
  [][\A k \in Callers : self[k] # "none" /\ self'[k] = "none" =>
       /\ ~api'[k]
       /\ \A s \in Sessions : Gone(s)' \/ (Orphan(s) /\ ~conn[s])']_selfAndConnVars

\* "If ctx has a timeout/deadline/cancellation, CaptureSelfSnapshot will return when the
\* context is canceled", unless its listener is stuck offering a connection.
SelfReturns == \A k \in Callers : self[k] # "none" ~> self[k] = "none" \/ Stuck
=============================================================================
