--------------------------- MODULE RuntimeGateway ---------------------------
(***************************************************************************)
(* The Runtime Gateway between the browser and the Jupyter servers: the    *)
(* HTTP request that starts a kernel, and the WebSocket bridge of the      *)
(* kernel's connection.  Both begin with a lookup of the runtime.          *)
(*                                                                         *)
(* A link is a kernel with its connection.  Its bridge has two tasks, one  *)
(* per direction; when the first of them ends the other is cancelled.      *)
(* A request and an attempt to connect may fail for any reason.  A         *)
(* connection that is established does not fail by itself: it ends when    *)
(* one of its ends closes it or dies.                                      *)
(***************************************************************************)
EXTENDS Naturals, Sequences, FiniteSets, RuntimePool

CONSTANT Links

VARIABLES target,       \* per link: the runtime it is addressed to
          http,         \* the request that starts its kernel
          bridge,       \* proxy_websocket
          tasks,        \* the tasks of the bridge that run
          browserEnd,   \* state of the connection to the browser
          upstreamEnd,  \* and of the one to the Jupyter server
          up, inbox,    \* messages to the gateway, then to the kernel
          outbox, down  \* from the kernel to the gateway, then to the browser

wire == <<up, inbox, outbox, down>>
gatewayVars == <<target, http, bridge, tasks, browserEnd, upstreamEnd, wire>>

Tasks == {"client", "upstream"}
Quiet == [l \in Links |-> <<>>]

GatewayInit ==
  /\ target = [l \in Links |-> None]
  /\ http = [l \in Links |-> "none"]
  /\ bridge = [l \in Links |-> "none"]
  /\ tasks = [l \in Links |-> {}]
  /\ browserEnd = [l \in Links |-> "none"]
  /\ upstreamEnd = [l \in Links |-> "none"]
  /\ up = Quiet /\ inbox = Quiet /\ outbox = Quiet /\ down = Quiet

-----------------------------------------------------------------------------
(* The connection endpoint of the Runtime Service and proxy_http. *)

\* get_runtime_connection: 409 unless the runtime is READY; 502 or an exception
\* of the client when the service does not answer as it should.
Connectable(l) == phase[target[l]] = "healthy"

ProxyLookup(l) ==
  /\ http[l] = "lookup"
  /\ \/ Connectable(l) /\ http' = [http EXCEPT ![l] = "forward"]
     \/ http' = [http EXCEPT ![l] = "error"]
  /\ UNCHANGED <<poolVars, target, bridge, tasks, browserEnd, upstreamEnd, wire>>

\* The Jupyter server starts the kernel, or the request or its answer fails.
ProxyForward(l) ==
  /\ http[l] = "forward"
  /\ \/ Alive(target[l]) /\ http' = [http EXCEPT ![l] = "ok"]
     \/ http' = [http EXCEPT ![l] = "error"]
  /\ UNCHANGED <<poolVars, target, bridge, tasks, browserEnd, upstreamEnd, wire>>

-----------------------------------------------------------------------------
(* proxy_websocket. *)

Refuse(l) ==
  /\ bridge' = [bridge EXCEPT ![l] = "closed"]
  /\ browserEnd' = [browserEnd EXCEPT ![l] = "closed"]
  /\ UNCHANGED <<tasks, upstreamEnd>>

\* 4404 when there is no such runtime, 4409 for any other answer; a lookup that
\* raises ends the handshake.  A refusal is the one after which the browser does
\* not try again.
BridgeLookup(l) ==
  /\ bridge[l] = "lookup"
  /\ \/ /\ Connectable(l)
        /\ bridge' = [bridge EXCEPT ![l] = "connect"]
        /\ UNCHANGED <<tasks, browserEnd, upstreamEnd>>
     \/ Refuse(l)
  /\ UNCHANGED <<poolVars, target, http, wire>>

\* ws_connect and accept, or 1011.
BridgeConnect(l) ==
  /\ bridge[l] = "connect"
  /\ \/ /\ Alive(target[l])
        /\ bridge' = [bridge EXCEPT ![l] = "open"]
        /\ tasks' = [tasks EXCEPT ![l] = Tasks]
        /\ upstreamEnd' = [upstreamEnd EXCEPT ![l] = "open"]
        /\ UNCHANGED browserEnd
     \/ Refuse(l)
  /\ UNCHANGED <<poolVars, target, http, wire>>

EndTask(l, task) ==
  /\ tasks' = [tasks EXCEPT ![l] = @ \ {task}]
  /\ UNCHANGED wire

\* client_to_upstream: a send to a closed connection raises.
ClientToUpstream(l) ==
  /\ "client" \in tasks[l]
  /\ \/ /\ up[l] # <<>> /\ upstreamEnd[l] = "open"
        /\ up' = [up EXCEPT ![l] = Tail(@)]
        /\ inbox' = [inbox EXCEPT ![l] = Append(@, Head(up[l]))]
        /\ UNCHANGED <<tasks, outbox, down>>
     \/ up[l] # <<>> /\ upstreamEnd[l] = "closed" /\ EndTask(l, "client")
     \/ up[l] = <<>> /\ browserEnd[l] = "closed" /\ EndTask(l, "client")
  /\ UNCHANGED <<poolVars, target, http, bridge, browserEnd, upstreamEnd>>

\* Mutants of UpstreamToClient: only text frames are forwarded, only binary
\* ones are.  An output stands for the binary ones.
ForwardOnly(l, type) ==
  /\ "upstream" \in tasks[l]
  /\ \/ /\ outbox[l] # <<>> /\ browserEnd[l] = "open"
        /\ outbox' = [outbox EXCEPT ![l] = Tail(@)]
        /\ down' = IF Head(outbox[l]).type = type
                   THEN [down EXCEPT ![l] = Append(@, Head(outbox[l]))] ELSE down
        /\ UNCHANGED <<tasks, up, inbox>>
     \/ outbox[l] # <<>> /\ browserEnd[l] = "closed" /\ EndTask(l, "upstream")
     \/ outbox[l] = <<>> /\ upstreamEnd[l] = "closed" /\ EndTask(l, "upstream")
  /\ UNCHANGED <<poolVars, target, http, bridge, browserEnd, upstreamEnd>>

UpstreamToClientText(l) == ForwardOnly(l, "done")
UpstreamToClientBinary(l) == ForwardOnly(l, "output")

\* upstream_to_client.
UpstreamToClient(l) ==
  /\ "upstream" \in tasks[l]
  /\ \/ /\ outbox[l] # <<>> /\ browserEnd[l] = "open"
        /\ outbox' = [outbox EXCEPT ![l] = Tail(@)]
        /\ down' = [down EXCEPT ![l] = Append(@, Head(outbox[l]))]
        /\ UNCHANGED <<tasks, up, inbox>>
     \/ outbox[l] # <<>> /\ browserEnd[l] = "closed" /\ EndTask(l, "upstream")
     \/ outbox[l] = <<>> /\ upstreamEnd[l] = "closed" /\ EndTask(l, "upstream")
  /\ UNCHANGED <<poolVars, target, http, bridge, browserEnd, upstreamEnd>>

\* Mutants of FirstCompleted: the other task is not cancelled; both tasks are
\* awaited.
FirstCompletedOnly(l) ==
  /\ bridge[l] = "open" /\ tasks[l] # Tasks
  /\ bridge' = [bridge EXCEPT ![l] = "closing"]
  /\ UNCHANGED <<poolVars, target, http, tasks, browserEnd, upstreamEnd, wire>>

AllCompleted(l) ==
  /\ bridge[l] = "open" /\ tasks[l] = {}
  /\ bridge' = [bridge EXCEPT ![l] = "closing"]
  /\ UNCHANGED <<poolVars, target, http, tasks, browserEnd, upstreamEnd, wire>>

\* asyncio.wait, and cancellation of the task that is left.
FirstCompleted(l) ==
  /\ bridge[l] = "open" /\ tasks[l] # Tasks
  /\ bridge' = [bridge EXCEPT ![l] = "closing"]
  /\ tasks' = [tasks EXCEPT ![l] = {}]
  /\ UNCHANGED <<poolVars, target, http, browserEnd, upstreamEnd, wire>>

\* upstream.close(); the server then closes the browser's connection.  What
\* the gateway has not read is lost, what it has sent to the browser is not;
\* what the kernel has been sent still runs, unheard.
CloseUpstream(l) ==
  /\ bridge[l] = "closing"
  /\ bridge' = [bridge EXCEPT ![l] = "closed"]
  /\ upstreamEnd' = [upstreamEnd EXCEPT ![l] = "closed"]
  /\ browserEnd' = [browserEnd EXCEPT ![l] = "closed"]
  /\ up' = [up EXCEPT ![l] = <<>>]
  /\ inbox' = [inbox EXCEPT ![l] = <<>>]
  /\ outbox' = [outbox EXCEPT ![l] = <<>>]
  /\ UNCHANGED <<poolVars, target, http, tasks, down>>

GatewayStep(l) ==
  \/ ProxyLookup(l) \/ ProxyForward(l)
  \/ BridgeLookup(l) \/ BridgeConnect(l)
  \/ ClientToUpstream(l) \/ UpstreamToClient(l)
  \/ FirstCompleted(l) \/ CloseUpstream(l)

-----------------------------------------------------------------------------
(* The Jupyter server (external). *)

Message(run, type) == [run |-> run, type |-> type]

\* The kernel runs a request: an output, then the end of the execution.
KernelExecutes(l) ==
  /\ inbox[l] # <<>> /\ Alive(target[l])
  /\ inbox' = [inbox EXCEPT ![l] = Tail(@)]
  /\ outbox' = IF upstreamEnd[l] = "open"
               THEN [outbox EXCEPT ![l] = @ \o <<Message(Head(inbox[l]), "output"),
                                                Message(Head(inbox[l]), "done")>>]
               ELSE outbox
  /\ UNCHANGED <<poolVars, target, http, bridge, tasks, browserEnd, upstreamEnd,
                 up, down>>

\* Its container goes: the connections break, after any part of what the
\* kernels had to say.
Broken(r) == {l \in Links : target[l] = r /\ upstreamEnd[l] = "open"}

FirstOf(s, n) == SubSeq(s, 1, IF n < Len(s) THEN n ELSE Len(s))

CutOff(r) ==
  /\ upstreamEnd' = [l \in Links |-> IF l \in Broken(r) THEN "closed"
                                     ELSE upstreamEnd[l]]
  /\ inbox' = [l \in Links |-> IF l \in Broken(r) THEN <<>> ELSE inbox[l]]
  /\ \E n \in 0 .. 2 * Cardinality(Links) :
       outbox' = [l \in Links |-> IF l \in Broken(r) THEN FirstOf(outbox[l], n)
                                  ELSE outbox[l]]
  /\ UNCHANGED <<up, down>>
=============================================================================
