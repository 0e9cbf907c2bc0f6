------------------------------ MODULE Forwarding ------------------------------
(***************************************************************************)
(* What a request does between the handler of the gateway and the          *)
(* connection pool, and what its client is answered: api/gateway, the last *)
(* task (gateway/transfer.go), pool/transfer.go, pool/proxy.go, and the    *)
(* counters of metric/record around them.                                  *)
(*                                                                         *)
(* Four parties write to one response: the upstream's answer is copied to  *)
(* it, Handle and the ErrorHandler of the reverse proxy answer 502,        *)
(* Receive adds an envelope of its own if nobody has written, and the      *)
(* observer counts the status it finds at the end.  They know of each      *)
(* other only through gin's ResponseWriter, whose WriteHeader notes a      *)
(* status and sends nothing: the first byte of a body does.                *)
(*                                                                         *)
(* A status is a number, a body is empty or not, an error is the class     *)
(* receiveFailure tells apart.  Headers are left out.                      *)
(***************************************************************************)
EXTENDS Integers, FiniteSets

CONSTANTS
    Requests,         \* goroutines, one request each
    Pools,            \* labels of the pool metrics: service, tier, pool and upstream
    UpstreamStatuses, \* what upstreams answer, 101 apart
    Refusals,         \* errors of the tasks before TransferTask
    None              \* no error, no pool

ASSUME RequestsFinite == IsFiniteSet(Requests)
ASSUME StatusesAreFinal == UpstreamStatuses \subseteq 200..599
ASSUME RefusalsAreKnown ==
    Refusals \subseteq {"invalid", "not_found", "unavailable", "unauthorized", "forbidden"}
ASSUME NoneIsNothingElse == None \notin Pools /\ None \notin Refusals \cup {"internal"}

SwitchingProtocols == 101
BadGateway == 502
NotFound == 404

\* receiveFailure: an error it does not know (the pool's and the upstream's) is "internal".
failureStatus(err) ==
    CASE err \in {"invalid", "not_found", "forbidden"} -> 400
      [] err = "unauthorized" -> 401
      [] err = "unavailable" -> 503
      [] OTHER -> 500

\* Statuses the pool counts and the client may be sent.
PoolStatuses == UpstreamStatuses \cup {SwitchingProtocols, BadGateway}
ClientStatuses == PoolStatuses \cup {200, 400, 401, NotFound, 500, 503}

VARIABLES
    pc,         \* where each request stands
    websocket,  \* it asks for an upgrade to a websocket
    pool,       \* the labels of its pool
    held,       \* deferred calls it owes: of the traffic recorder, the lease, the body
    error,      \* the error Receive is given
    \* gin's ResponseWriter
    noted,      \* Status(): the status it would send or has sent
    written,    \* Written(): it has sent its header, or the connection was taken over
    \* what the client sees
    sent,       \* the status, 0 for none
    authors,    \* who has written a body to it
    \* the metrics
    ended,      \* requests whose pool observation is done (its sync.Once)
    selections, inFlight, requests, \* per pool: counter, gauge, counter per status
    handling, handled,              \* HTTP: gauge, counter per status
    \* history
    upstream,   \* what the upstream answered the request, 0 for nothing
    empty       \* requests whose upstream's answer has no byte of a body

writerVars == <<noted, written, sent, authors>>
poolMetricVars == <<ended, selections, inFlight, requests>>
httpMetricVars == <<handling, handled>>
upstreamVars == <<upstream, empty>>
vars == <<pc, websocket, pool, held, error, noted, written, sent, authors, ended, selections,
          inFlight, requests, handling, handled, upstream, empty>>

TypeOK ==
    /\ pc \in [Requests -> {"new", "received", "leased", "selected", "copying", "switching",
                            "tunnel", "unwinding", "returned", "replied", "done"}]
    /\ websocket \in [Requests -> BOOLEAN]
    /\ pool \in [Requests -> Pools \cup {None}]
    /\ held \in [Requests -> SUBSET {"traffic", "lease", "body"}]
    /\ error \in [Requests -> Refusals \cup {"internal", None}]
    /\ noted \in [Requests -> ClientStatuses]
    /\ written \in [Requests -> BOOLEAN]
    /\ sent \in [Requests -> ClientStatuses \cup {0}]
    /\ authors \in [Requests -> SUBSET {"upstream", "pool", "receive"}]
    /\ ended \subseteq Requests
    /\ selections \in [Pools -> Nat]
    /\ inFlight \in [Pools -> Int]
    /\ requests \in [Pools -> [PoolStatuses -> Nat]]
    /\ handling \in Int
    /\ handled \in [ClientStatuses -> Nat]
    /\ upstream \in [Requests -> PoolStatuses \cup {0}]
    /\ empty \subseteq Requests

\* gin enters NoRoute with 404 noted.
Init ==
    /\ pc = [r \in Requests |-> "new"]
    /\ websocket \in [Requests -> BOOLEAN]
    /\ pool = [r \in Requests |-> None]
    /\ held = [r \in Requests |-> {}]
    /\ error = [r \in Requests |-> None]
    /\ noted = [r \in Requests |-> NotFound]
    /\ written = [r \in Requests |-> FALSE]
    /\ sent = [r \in Requests |-> 0]
    /\ authors = [r \in Requests |-> {}]
    /\ ended = {}
    /\ selections = [p \in Pools |-> 0]
    /\ inFlight = [p \in Pools |-> 0]
    /\ requests = [p \in Pools |-> [s \in PoolStatuses |-> 0]]
    /\ handling = 0
    /\ handled = [s \in ClientStatuses |-> 0]
    /\ upstream = [r \in Requests |-> 0]
    /\ empty = {}

Goes(r, from, to) == pc[r] = from /\ pc' = [pc EXCEPT ![r] = to]
Fails(r, err) == error' = [error EXCEPT ![r] = err]
Hears(r, status) == upstream' = [upstream EXCEPT ![r] = status]

\* WriteHeader and the first byte of a body.
Sends(r, status, author) ==
    /\ noted' = [noted EXCEPT ![r] = status]
    /\ written' = [written EXCEPT ![r] = TRUE]
    /\ sent' = [sent EXCEPT ![r] = IF @ = 0 THEN status ELSE @]
    /\ authors' = [authors EXCEPT ![r] = @ \cup {author}]

\* Mutant: no sync.Once.
finishPoolAgain(r, status) ==
    /\ ended' = ended \cup {r}
    /\ inFlight' = [inFlight EXCEPT ![pool[r]] = @ - 1]
    /\ requests' = [requests EXCEPT ![pool[r]][status] = @ + 1]
    /\ UNCHANGED selections

\* finishPool; of several calls for a request the sync.Once of recordPool lets through the
\* first.
finishPool(r, status) ==
    \/ /\ r \in ended
       /\ UNCHANGED poolMetricVars
    \/ /\ r \notin ended
       /\ ended' = ended \cup {r}
       /\ inFlight' = [inFlight EXCEPT ![pool[r]] = @ - 1]
       /\ requests' = [requests EXCEPT ![pool[r]][status] = @ + 1]
       /\ UNCHANGED selections

-----------------------------------------------------------------------------
(* Observer, Receive and TransferTask                                      *)

\* The observer counts the request as being handled, Receive begins.
Receive(r) ==
    /\ Goes(r, "new", "received")
    /\ handling' = handling + 1
    /\ UNCHANGED <<websocket, pool, held, error, writerVars, poolMetricVars, handled,
                   upstreamVars>>

\* The path of the configuration is not forwarded, whatever the method.
Reserved(r) ==
    /\ Goes(r, "received", "replied")
    /\ Sends(r, NotFound, "receive")
    /\ UNCHANGED <<websocket, pool, held, error, poolMetricVars, httpMetricVars, upstreamVars>>

\* A task before TransferTask refuses the request (Gateway).
Refuse(r, err) ==
    /\ Goes(r, "received", "returned")
    /\ Fails(r, err)
    /\ UNCHANGED <<websocket, pool, held, writerVars, poolMetricVars, httpMetricVars,
                   upstreamVars>>

\* TransferTask starts the traffic recorder and is assigned a pool, Handle acquires its
\* client; how requests interleave in between is the subject of PoolRuntime.
Acquire(r, p) ==
    /\ Goes(r, "received", "leased")
    /\ pool' = [pool EXCEPT ![r] = p]
    /\ held' = [held EXCEPT ![r] = {"traffic", "lease"}]
    /\ UNCHANGED <<websocket, error, writerVars, poolMetricVars, httpMetricVars, upstreamVars>>

-----------------------------------------------------------------------------
(* Handle                                                                  *)

\* upstreamURL: a registered host may pass the checks of the configuration and be no host
\* for url.Parse.
BadAddress(r) ==
    /\ Goes(r, "leased", "unwinding")
    /\ Fails(r, "internal")
    /\ UNCHANGED <<websocket, pool, held, writerVars, poolMetricVars, httpMetricVars,
                   upstreamVars>>

RecordPool(r) ==
    /\ Goes(r, "leased", "selected")
    /\ selections' = [selections EXCEPT ![pool[r]] = @ + 1]
    /\ inFlight' = [inFlight EXCEPT ![pool[r]] = @ + 1]
    /\ UNCHANGED <<websocket, pool, held, error, writerVars, ended, requests,
                   httpMetricVars, upstreamVars>>

\* Mutant: the pool's observation is not ended when the upstream cannot be reached.
SendFailsUnfinished(r) ==
    /\ Goes(r, "selected", "unwinding")
    /\ Sends(r, BadGateway, "pool")
    /\ Fails(r, "internal")
    /\ UNCHANGED <<websocket, pool, held, poolMetricVars, httpMetricVars, upstreamVars>>

\* Client.Do fails, or RoundTrip does below the reverse proxy, which calls its ErrorHandler:
\* the client has been answered and the error is returned as well.
SendFails(r) ==
    /\ Goes(r, "selected", "unwinding")
    /\ finishPool(r, BadGateway)
    /\ Sends(r, BadGateway, "pool")
    /\ Fails(r, "internal")
    /\ UNCHANGED <<websocket, pool, held, httpMetricVars, upstreamVars>>

\* The header of the upstream's answer: counted, and its status noted.  No byte of a body
\* follows if it is bodiless (a 204, a 304, the answer to a HEAD, a body of length 0).
Answer(r, status, bodiless) ==
    /\ Goes(r, "selected", "copying")
    /\ finishPool(r, status)
    /\ noted' = [noted EXCEPT ![r] = status]
    /\ held' = [held EXCEPT ![r] = @ \cup {"body"}]
    /\ Hears(r, status)
    /\ empty' = IF bodiless THEN empty \cup {r} ELSE empty
    /\ UNCHANGED <<websocket, pool, error, written, sent, authors, httpMetricVars>>

\* io.Copy writes the first bytes.  An empty body is never written, but the reverse proxy may
\* flush the header of such an answer, for its trailers.
CopyBegins(r) ==
    /\ pc[r] = "copying"
    /\ ~written[r]
    /\ r \notin empty \/ websocket[r]
    /\ Sends(r, noted[r], "upstream")
    /\ UNCHANGED <<pc, websocket, pool, held, error, poolMetricVars, httpMetricVars,
                   upstreamVars>>

\* The end of the body.
CopyEnds(r) ==
    /\ Goes(r, "copying", "unwinding")
    /\ written[r] \/ r \in empty
    /\ UNCHANGED <<websocket, pool, held, error, writerVars, poolMetricVars,
                   httpMetricVars, upstreamVars>>

\* Mutant: an answer that breaks off is taken for one that has ended.
CopyFailsSilently(r) ==
    /\ Goes(r, "copying", "unwinding")
    /\ UNCHANGED <<websocket, pool, held, error, writerVars, poolMetricVars,
                   httpMetricVars, upstreamVars>>

\* The body breaks off, before its first byte or after it.  The reverse proxy panics with
\* ErrAbortHandler, which serveReverseProxy turns into an error.
CopyFails(r) ==
    /\ Goes(r, "copying", "unwinding")
    /\ Fails(r, "internal")
    /\ UNCHANGED <<websocket, pool, held, writerVars, poolMetricVars, httpMetricVars,
                   upstreamVars>>

-----------------------------------------------------------------------------
(* The reverse proxy's upgrade to a websocket                              *)

\* ModifyResponse: the answer is 101.
Switch(r) ==
    /\ Goes(r, "selected", "switching")
    /\ websocket[r]
    /\ finishPool(r, SwitchingProtocols)
    /\ Hears(r, SwitchingProtocols)
    /\ UNCHANGED <<websocket, pool, held, error, writerVars, httpMetricVars, empty>>

\* Hijack, and the answer on the bare connection: gin notes no status.
Upgrade(r) ==
    /\ Goes(r, "switching", "tunnel")
    /\ held' = [held EXCEPT ![r] = @ \cup {"body"}]
    /\ written' = [written EXCEPT ![r] = TRUE]
    /\ sent' = [sent EXCEPT ![r] = SwitchingProtocols]
    /\ authors' = [authors EXCEPT ![r] = {"upstream"}]
    /\ UNCHANGED <<websocket, pool, error, noted, poolMetricVars, httpMetricVars, upstreamVars>>

\* The upstream switches to something else: ErrorHandler, which ends the observation again.
UpgradeRefused(r) ==
    /\ Goes(r, "switching", "unwinding")
    /\ finishPool(r, BadGateway)
    /\ Sends(r, BadGateway, "pool")
    /\ Fails(r, "internal")
    /\ UNCHANGED <<websocket, pool, held, httpMetricVars, upstreamVars>>

\* The client is gone after Hijack: ErrorHandler again, its 502 reaches nobody.
UpgradeCut(r) ==
    /\ Goes(r, "switching", "unwinding")
    /\ finishPool(r, BadGateway)
    /\ written' = [written EXCEPT ![r] = TRUE]
    /\ Fails(r, "internal")
    /\ UNCHANGED <<websocket, pool, held, noted, sent, authors, httpMetricVars, upstreamVars>>

TunnelEnds(r) ==
    /\ Goes(r, "tunnel", "unwinding")
    /\ UNCHANGED <<websocket, pool, held, error, writerVars, poolMetricVars,
                   httpMetricVars, upstreamVars>>

-----------------------------------------------------------------------------
(* The way back                                                            *)

\* The deferred calls of Handle and of TransferTask.
Unwind(r) ==
    /\ Goes(r, "unwinding", "returned")
    /\ held' = [held EXCEPT ![r] = {}]
    /\ UNCHANGED <<websocket, pool, error, writerVars, poolMetricVars, httpMetricVars,
                   upstreamVars>>

\* Mutant: an error is answered whether or not something has been written.
ReplyAnyway(r) ==
    /\ Goes(r, "returned", "replied")
    /\ \/ /\ error[r] # None
          /\ Sends(r, failureStatus(error[r]), "receive")
       \/ /\ error[r] = None
          /\ ~written[r]
          /\ Sends(r, 200, "receive")
       \/ /\ error[r] = None
          /\ written[r]
          /\ UNCHANGED writerVars
    /\ UNCHANGED <<websocket, pool, held, error, poolMetricVars, httpMetricVars, upstreamVars>>

\* Receive after the tasks: its own envelope if nothing has been written, with a status for
\* the error or with 200.
Reply(r) ==
    /\ Goes(r, "returned", "replied")
    /\ \/ /\ written[r]
          /\ UNCHANGED writerVars
       \/ /\ ~written[r]
          /\ Sends(r, IF error[r] = None THEN 200 ELSE failureStatus(error[r]), "receive")
    /\ UNCHANGED <<websocket, pool, held, error, poolMetricVars, httpMetricVars, upstreamVars>>

\* The observer counts the status gin has noted.
Observe(r) ==
    /\ Goes(r, "replied", "done")
    /\ handling' = handling - 1
    /\ handled' = [handled EXCEPT ![noted[r]] = @ + 1]
    /\ UNCHANGED <<websocket, pool, held, error, writerVars, poolMetricVars, upstreamVars>>

-----------------------------------------------------------------------------

Next == \E r \in Requests :
    \/ Receive(r) \/ Reserved(r) \/ \E err \in Refusals : Refuse(r, err)
    \/ \E p \in Pools : Acquire(r, p)
    \/ BadAddress(r) \/ RecordPool(r) \/ SendFails(r)
    \/ \E status \in UpstreamStatuses, bodiless \in BOOLEAN : Answer(r, status, bodiless)
    \/ CopyBegins(r) \/ CopyEnds(r) \/ CopyFails(r)
    \/ Switch(r) \/ Upgrade(r) \/ UpgradeRefused(r) \/ UpgradeCut(r) \/ TunnelEnds(r)
    \/ Unwind(r) \/ Reply(r) \/ Observe(r)

Spec == Init /\ [][Next]_vars

-----------------------------------------------------------------------------
(* Properties                                                              *)

\* The client is answered by one party: an error that comes when others have written already
\* adds nothing to their answer (handler.go:58-60, transfer.go:197-199).  Nobody answers only
\* a client that was lost while its connection was taken over.
OneAnswer ==
    \A r \in Requests : pc[r] = "done" =>
        IF authors[r] = {} THEN upstream[r] = SwitchingProtocols /\ error[r] # None
        ELSE /\ Cardinality(authors[r]) = 1
             /\ sent[r] # 0

\* Who is answered below 400 has the status of its own upstream's answer, or else the one
\* answer that Receive takes for none: it came to its end without an error and without a byte,
\* and is replaced by the envelope with 200 whatever its status was (AnswerIsUpstreams).  So a
\* refusal, an upstream that fails, a body that breaks off before its first byte and a failure
\* status with a body are never answered below 400 (handler.go:52-77, transfer.go:194-212).
SuccessIsCopiedOrEmpty ==
    \A r \in Requests : (pc[r] = "done" /\ sent[r] \in 1..399) =>
        \/ authors[r] = {"upstream"} /\ sent[r] = upstream[r]
        \/ /\ authors[r] = {"receive"} /\ sent[r] = 200
           /\ r \in empty /\ upstream[r] # 0 /\ error[r] = None

\* What the pool has counted: each request once, as what the upstream answered first or as a
\* 502, whichever handlers end its observation and however often; the gauge is the rest
\* (pool.go:142-167, transfer.go:109-115, proxy.go:85-105).
PoolMetricsAddUp ==
    \A p \in Pools :
        LET outcome(r) == IF upstream[r] # 0 THEN upstream[r] ELSE BadGateway
            over == {r \in ended : pool[r] = p}
        IN /\ inFlight[p] = selections[p] - Cardinality(over)
           /\ \A s \in PoolStatuses : requests[p][s] = Cardinality({r \in over : outcome(r) = s})

\* Whatever went wrong on the way, when no request is being handled nothing is held and both
\* gauges are back at zero (the defers of Handle and Run, transfer.go:80-82, gateway/transfer.go:75).
NothingLeaks ==
    (\A r \in Requests : pc[r] \in {"new", "done"}) =>
        /\ handling = 0
        /\ \A p \in Pools : inFlight[p] = 0
        /\ \A r \in Requests : held[r] = {}

\* "Forwards the request ... and writes the upstream's answer to the client" (gateway/
\* transfer.go:51): a client whose upstream has answered, with nothing going wrong, is sent
\* the status of that answer.
AnswerIsUpstreams ==
    \A r \in Requests :
        (pc[r] = "done" /\ upstream[r] # 0 /\ error[r] = None) => sent[r] = upstream[r]
=============================================================================
