------------------------------- MODULE Fetcher -------------------------------
(***************************************************************************)
(* server.SnapshotFetcher (internal/server/fetcher.go): the cache of       *)
(* snapshot programs.  Concurrent calls for one key share one remote fetch *)
(* (singleflight.Group, external), which runs with the context of the call *)
(* that came first; a call that shared the result of somebody else's       *)
(* cancelled context tries again, if the error looks like a cancellation.  *)
(*                                                                         *)
(* A program is identified by its key.  `ctx' says whose context is done;  *)
(* what else a caller does is in SnapshotService.                          *)
(***************************************************************************)
EXTENDS Naturals, FiniteSets

CONSTANTS
  Callers,   \* streams whose handler may fetch a program
  Keys,      \* keys of programs
  Capacity,  \* maxCapacity
  NoCaller,  \* nobody fetches a key
  NoKey      \* a caller that asks for nothing

ASSUME FetcherAssumption ==
  /\ NoCaller \notin Callers
  /\ NoKey \notin Keys
  /\ Capacity \in Nat \ {0}

VARIABLES
  cache,   \* keys of the programs in the cache
  flight,  \* the caller that fetches each key
  fpc,     \* where each caller stands in FetchSnapshotProgram
  fkey,    \* the key it asked for
  answer,  \* what its last Do returned
  ctx      \* its context is done

fetcherVars == <<cache, flight, fpc, fkey, answer>>

\* An error that errors.Is takes for a context error, the status error into
\* which gRPC turns one (errors.Is does not see through it, and remote calls of grpc 1.56
\* end with it), any other error.
Errors == {"ctx", "status", "remote"}

FetcherTypeOK ==
  /\ cache \subseteq Keys
  /\ IsFiniteSet(cache)
  /\ flight \in [Keys -> Callers \cup {NoCaller}]
  /\ fpc \in [Callers -> {"out", "cache", "do", "wait", "get", "recv", "decode",
                          "end", "woke", "back"}]
  /\ fkey \in [Callers -> Keys \cup {NoKey}]
  /\ answer \in [Callers -> {"none", "program"} \cup Errors]
  /\ ctx \in [Callers -> BOOLEAN]
  /\ \A c \in Callers : fpc[c] # "out" => fkey[c] \in Keys

FetcherInit ==
  /\ cache = {}
  /\ flight = [k \in Keys |-> NoCaller]
  /\ fpc = [c \in Callers |-> "out"]
  /\ fkey = [c \in Callers |-> NoKey]
  /\ answer = [c \in Callers |-> "none"]
  /\ ctx = [c \in Callers |-> FALSE]

-----------------------------------------------------------------------------
Moves(c, from, to) == fpc[c] = from /\ fpc' = [fpc EXCEPT ![c] = to]

\* FetchSnapshotProgram(ctx, k) is called ...
CallFetch(c, k) ==
  /\ Moves(c, "out", "cache")
  /\ fkey' = [fkey EXCEPT ![c] = k]
  /\ UNCHANGED <<cache, flight, answer>>

\* ... and returns what `answer' says.
FetchReturned(c) ==
  /\ Moves(c, "back", "out")
  /\ fkey' = [fkey EXCEPT ![c] = NoKey]
  /\ answer' = [answer EXCEPT ![c] = "none"]
  /\ UNCHANGED <<cache, flight>>

Hit(c) ==
  /\ Moves(c, "cache", "back")
  /\ fkey[c] \in cache
  /\ answer' = [answer EXCEPT ![c] = "program"]
  /\ UNCHANGED <<cache, flight, fkey, ctx>>

Miss(c) ==
  /\ Moves(c, "cache", "do")
  /\ fkey[c] \notin cache
  /\ UNCHANGED <<cache, flight, fkey, answer, ctx>>

\* Do: the first caller runs the function, called = true; others wait for it.
Lead(c) ==
  /\ Moves(c, "do", "get")
  /\ flight[fkey[c]] = NoCaller
  /\ flight' = [flight EXCEPT ![fkey[c]] = c]
  /\ UNCHANGED <<cache, fkey, answer, ctx>>

Join(c) ==
  /\ Moves(c, "do", "wait")
  /\ flight[fkey[c]] # NoCaller
  /\ UNCHANGED <<cache, flight, fkey, answer, ctx>>

\* The remote fetch: GetArtifact, the chunks until EOF, the unmarshalling.
GetArtifact(c) == Moves(c, "get", "recv") /\ UNCHANGED <<cache, flight, fkey, answer, ctx>>

LastChunk(c) == Moves(c, "recv", "decode") /\ UNCHANGED <<cache, flight, fkey, answer, ctx>>

RemoteFails(c, e) ==
  /\ \/ fpc[c] \in {"get", "recv"} /\ (e # "remote" => ctx[c])
     \/ fpc[c] = "decode" /\ e = "remote"
  /\ fpc' = [fpc EXCEPT ![c] = "end"]
  /\ answer' = [answer EXCEPT ![c] = e]
  /\ UNCHANGED <<cache, flight, fkey, ctx>>

\* Mutant: the loop that evicts runs one time too few.
StoreUnevicted(c) ==
  /\ Moves(c, "decode", "end")
  /\ cache' = cache \cup {fkey[c]}
  /\ answer' = [answer EXCEPT ![c] = "program"]
  /\ UNCHANGED <<flight, fkey, ctx>>

\* The program is stored; what makes room for it is arbitrary, and room is made
\* even when the key is there already.
Store(c) ==
  /\ Moves(c, "decode", "end")
  /\ IF Cardinality(cache) < Capacity
     THEN cache' = cache \cup {fkey[c]}
     ELSE \E k \in cache : cache' = (cache \ {k}) \cup {fkey[c]}
  /\ answer' = [answer EXCEPT ![c] = "program"]
  /\ UNCHANGED <<flight, fkey, ctx>>

\* Do returns to the caller that fetched and wakes those that waited.
EndFlight(c) ==
  LET woken == {w \in Callers : fpc[w] = "wait" /\ fkey[w] = fkey[c]} IN
  /\ fpc[c] = "end"
  /\ flight' = [flight EXCEPT ![fkey[c]] = NoCaller]
  /\ fpc' = [w \in Callers |-> IF w = c THEN "back"
                               ELSE IF w \in woken THEN "woke" ELSE fpc[w]]
  /\ answer' = [w \in Callers |-> IF w \in woken THEN answer[c] ELSE answer[w]]
  /\ UNCHANGED <<cache, fkey, ctx>>

Retry(c) == answer[c] = "ctx" /\ ~ctx[c]

\* Mutant: a shared context error is passed on.
WakeWithoutRetry(c) ==
  /\ Moves(c, "woke", "back")
  /\ UNCHANGED <<cache, flight, fkey, answer, ctx>>

\* A caller that shared a result looks at it: the loop goes back to Do, not to
\* the cache.
Wake(c) ==
  /\ Moves(c, "woke", IF Retry(c) THEN "do" ELSE "back")
  /\ UNCHANGED <<cache, flight, fkey, answer, ctx>>

-----------------------------------------------------------------------------
FetchStep(c) ==
  \/ Hit(c) \/ Miss(c) \/ Lead(c) \/ Join(c) \/ Store(c) \/ EndFlight(c) \/ Wake(c)

Remote(c) ==
  GetArtifact(c) \/ LastChunk(c) \/ \E e \in Errors : RemoteFails(c, e)

\* A context ends, or the handler has returned and its caller stands for the
\* next stream.
CtxDone(c) == ctx' = [ctx EXCEPT ![c] = TRUE]

CtxRenewed(c) == fpc[c] = "out" /\ ctx' = [ctx EXCEPT ![c] = FALSE]

FetcherNext ==
  \E c \in Callers :
    \/ FetchStep(c) \/ Remote(c)
    \/ (\E k \in Keys : CallFetch(c, k)) /\ UNCHANGED ctx
    \/ FetchReturned(c) /\ UNCHANGED ctx
    \/ (CtxDone(c) \/ CtxRenewed(c)) /\ UNCHANGED fetcherVars

FetcherSpec == FetcherInit /\ [][FetcherNext]_<<fetcherVars, ctx>>

-----------------------------------------------------------------------------
\* maxCapacity: there are never more programs in memory than the cache may hold,
\* however many fetches end at the same time.
CacheBounded == Cardinality(cache) <= Capacity

\* The two forms in which a call says that a context was done.
Cancellations == {"ctx", "status"}

\* What the retry is for ("TODO: Unhook this from the context"): a call that fails with a
\* cancellation fails with its own, not with that of the call that happened to fetch for it.
CallersIsolated ==
  \A c \in Callers : fpc[c] = "back" /\ answer[c] \in Cancellations => ctx[c]

\* How far that goes: who is woken with a cancellation was woken by a call whose context is
\* done, and passes it on only when its own is done as well or when it came as a status error,
\* which the retry does not recognise.
SharedFailures ==
  [][\A c \in Callers :
       /\ fpc[c] = "wait" /\ fpc'[c] = "woke" /\ answer'[c] \in Cancellations =>
            \E l \in Callers : flight[fkey[c]] = l /\ ctx[l]
       /\ fpc[c] # "back" /\ fpc'[c] = "back" /\ answer'[c] \in Cancellations =>
            ctx[c] \/ (fpc[c] = "woke" /\ answer[c] = "status")]_<<fetcherVars, ctx>>
=============================================================================
