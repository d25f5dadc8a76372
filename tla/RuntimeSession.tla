--------------------------- MODULE RuntimeSession ---------------------------
(***************************************************************************)
(* Running cells from the portal: the notebook page, the singletons        *)
(* RuntimeManager and ProductJupyterClient, the gateway and the runtimes.  *)
(*                                                                         *)
(* The Runtime Service is its contract RuntimePool, one request at a time; *)
(* a container turns healthy once and may die at any moment.  A visit of a *)
(* page ends when the user goes to another one inside the app: the page's  *)
(* state is new then, the singletons and the calls under way are not.      *)
(*                                                                         *)
(* A call whose caller has given up may still be under way: what it asks   *)
(* for then happens late, and nobody hears of it.                          *)
(*                                                                         *)
(* A kernel and its link are named after the run that has started it.      *)
(***************************************************************************)
EXTENDS RuntimeGateway

CONSTANTS Stops,      \* clicks on Stop Runtime
          Mortal,     \* runtimes whose container may die by itself
          MaxVisits   \* bound on visits of notebook pages

ASSUME SessionAssumption ==
  /\ Notebooks # {}
  /\ Runtimes \subseteq Nat /\ Links \subseteq Nat /\ Stops \subseteq Nat
  /\ Mortal \subseteq Runtimes
  /\ MaxVisits \in Nat \ {0}
  /\ None \notin Runtimes \union Links \union Notebooks

VARIABLES page,      \* the notebook page that is shown
          runs,      \* the calls of runCell
          stops,     \* the calls of stopRuntime
          current,   \* RuntimeManager.current
          client,    \* ProductJupyterClient: runtimeId and kernel
          strayed    \* history: a page was left while a call was under way

sessionVars == <<page, runs, stops, current, client, strayed>>
vars == <<poolVars, gatewayVars, sessionVars>>

NoRun == [phase |-> "none", notebook |-> None, visit |-> 0, runtime |-> None,
          link |-> None, got |-> 0]
NoStop == [phase |-> "none", visit |-> 0, shown |-> None, runtime |-> None]
NoClient == [runtime |-> None, link |-> None]

\* A call that is late has failed while its request is under way.
Over == {"none", "done", "failed", "late"}

\* While an answer of the service is on its way, the phase of its call is the
\* state it tells: STARTING, READY, or FAILED for STOPPED too.
Answers == {"STARTING", "READY", "FAILED"}
Answer(container) ==
  IF container = "starting" THEN "STARTING"
  ELSE IF container = "healthy" THEN "READY" ELSE "FAILED"

Mounted(call) == call.visit = page.visit

\* The notebooks are interchangeable.
FirstNotebook == CHOOSE n \in Notebooks : TRUE

Init ==
  /\ PoolInit /\ GatewayInit
  /\ page = [notebook |-> FirstNotebook, visit |-> 1, shown |-> None,
             running |-> None]
  /\ runs = [i \in Links |-> NoRun]
  /\ stops = [j \in Stops |-> NoStop]
  /\ current = None /\ client = NoClient
  /\ strayed = FALSE

-----------------------------------------------------------------------------
(* Pieces of the calls. *)

\* The end of runCell; an unmounted page ignores it.
PageAfter(i) ==
  IF Mounted(runs[i]) THEN [page EXCEPT !.running = None] ELSE page

\* What is still of interest of a call that is over.
EndedRun(i, outcome) ==
  [NoRun EXCEPT !.phase = outcome, !.notebook = runs[i].notebook,
                !.got = IF outcome = "done" THEN runs[i].got ELSE 0]
EndedStop(j, outcome) ==
  [NoStop EXCEPT !.phase = outcome, !.shown = stops[j].shown]

Fail(i) ==
  /\ runs' = [runs EXCEPT ![i] =
                EndedRun(i, IF runs[i].phase = "post" THEN "late" ELSE "failed")]
  /\ page' = PageAfter(i)

\* dispose: the connection is closed and the futures of its kernel rejected.
\* closed is what the gateway sees, runs and page what the callers do.
Canceled == {i \in Links : runs[i].phase = "executing"
                           /\ client.link # None /\ runs[i].link = client.link}

CloseBrowserEnd ==
  /\ browserEnd' = IF client.link = None THEN browserEnd
                   ELSE [browserEnd EXCEPT ![client.link] = "closed"]
  /\ down' = IF client.link = None THEN down
             ELSE [down EXCEPT ![client.link] = <<>>]
  /\ UNCHANGED <<up, inbox, outbox>>

RunsAfterDispose ==
  [i \in Links |-> IF i \in Canceled THEN EndedRun(i, "failed") ELSE runs[i]]

PageAfterDispose ==
  IF page.running \in Canceled THEN [page EXCEPT !.running = None] ELSE page

\* Mutant of Remember: the manager keeps a runtime only once it is healthy.
RememberHealthy(i) ==
  /\ current' = IF runs[i].phase = "READY" THEN runs[i].runtime ELSE current
  /\ page' = IF Mounted(runs[i]) THEN [page EXCEPT !.shown = runs[i].runtime]
             ELSE page

\* this.current = runtime; onUpdate(runtime).
Remember(i) ==
  /\ current' = runs[i].runtime
  /\ page' = IF Mounted(runs[i]) THEN [page EXCEPT !.shown = runs[i].runtime]
             ELSE page

-----------------------------------------------------------------------------
(* runCell: ensureReady. *)

ClickRun(i) ==
  /\ runs[i].phase = "none"
  /\ \A other \in Links : other < i => runs[other].phase # "none"
  /\ page.running = None
  /\ runs' = [runs EXCEPT ![i] = [NoRun EXCEPT !.phase = "post",
                !.notebook = page.notebook, !.visit = page.visit]]
  /\ page' = [page EXCEPT !.running = i]
  /\ UNCHANGED <<poolVars, gatewayVars, stops, current, client, strayed>>

\* createRuntime: the running container of the notebook, or a new one.
CreateRuntime(n, r) ==
  \/ Alive(r) /\ owner[r] = n /\ UNCHANGED poolVars
  \/ /\ \A other \in Runtimes : other < r => phase[other] # "absent"
     /\ Launch(n, r)

HandlePost(i) ==
  /\ runs[i].phase = "post"
  /\ \E r \in Runtimes :
       /\ CreateRuntime(runs[i].notebook, r)
       /\ runs' = [runs EXCEPT ![i].phase = Answer(phase'[r]), ![i].runtime = r]
  /\ UNCHANGED <<gatewayVars, page, stops, current, client, strayed>>

LatePost(i) ==
  /\ runs[i].phase = "late"
  /\ \E r \in Runtimes : CreateRuntime(runs[i].notebook, r)
  /\ runs' = [runs EXCEPT ![i].phase = "failed"]
  /\ UNCHANGED <<gatewayVars, page, stops, current, client, strayed>>

\* getRuntime.
HandlePoll(i) ==
  /\ runs[i].phase = "poll"
  /\ runs' = [runs EXCEPT ![i].phase = Answer(phase[runs[i].runtime])]
  /\ UNCHANGED <<poolVars, gatewayVars, page, stops, current, client, strayed>>

\* STARTING: the next poll.
StillStarting(i) ==
  /\ runs[i].phase = "STARTING"
  /\ runs' = [runs EXCEPT ![i].phase = "poll"]
  /\ Remember(i)
  /\ UNCHANGED <<poolVars, gatewayVars, stops, client, strayed>>

\* FAILED or STOPPED.
PollEnds(i) ==
  /\ runs[i].phase = "FAILED"
  /\ runs' = [runs EXCEPT ![i] = EndedRun(i, "failed")]
  /\ current' = runs[i].runtime
  /\ page' = IF Mounted(runs[i])
             THEN [page EXCEPT !.shown = runs[i].runtime, !.running = None]
             ELSE page
  /\ UNCHANGED <<poolVars, gatewayVars, stops, client, strayed>>

\* An error of the network or the service, or the deadline.
EnsureReadyFails(i) ==
  /\ runs[i].phase \in {"post", "poll"} \union Answers
  /\ Fail(i)
  /\ UNCHANGED <<poolVars, gatewayVars, stops, current, client, strayed>>

-----------------------------------------------------------------------------
(* ensureKernel and execute. *)

\* Mutant of Reusable: any kernel will do.
ReusableAny(r) == client.link # None

Reusable(r) == client.link # None /\ client.runtime = r

\* READY, and the kernel that is there is used.
ReuseKernel(i) ==
  LET l == client.link IN
  /\ runs[i].phase = "READY"
  /\ Reusable(runs[i].runtime)
  /\ Remember(i)
  /\ runs' = [runs EXCEPT ![i].phase = "executing", ![i].link = l]
  /\ up' = IF browserEnd[l] = "open" THEN [up EXCEPT ![l] = Append(@, i)] ELSE up
  /\ UNCHANGED <<poolVars, target, http, bridge, tasks, browserEnd, upstreamEnd,
                 inbox, outbox, down, stops, client, strayed>>

\* READY, and another kernel is disposed and a new one asked for.
StartKernel(i) ==
  /\ runs[i].phase = "READY"
  /\ ~ Reusable(runs[i].runtime)
  /\ CloseBrowserEnd
  /\ current' = runs[i].runtime
  /\ page' = IF Mounted(runs[i])
             THEN [PageAfterDispose EXCEPT !.shown = runs[i].runtime]
             ELSE PageAfterDispose
  /\ runs' = [RunsAfterDispose EXCEPT ![i].phase = "starting"]
  /\ client' = NoClient
  /\ target' = [target EXCEPT ![i] = runs[i].runtime]
  /\ http' = [http EXCEPT ![i] = "lookup"]
  /\ UNCHANGED <<poolVars, bridge, tasks, upstreamEnd, stops, strayed>>

\* The kernel becomes the client's, whatever the client has become meanwhile;
\* it is connected to, and the code is sent as soon as that succeeds.
KernelStarted(i) ==
  /\ runs[i].phase = "starting" /\ http[i] = "ok"
  /\ client' = [runtime |-> runs[i].runtime, link |-> i]
  /\ runs' = [runs EXCEPT ![i].phase = "executing", ![i].link = i]
  /\ bridge' = [bridge EXCEPT ![i] = "lookup"]
  /\ browserEnd' = [browserEnd EXCEPT ![i] = "open"]
  /\ up' = [up EXCEPT ![i] = <<i>>]
  /\ http' = [http EXCEPT ![i] = "none"]
  /\ UNCHANGED <<poolVars, target, tasks, upstreamEnd, inbox, outbox, down, page,
                 stops, current, strayed>>

KernelFails(i) ==
  /\ runs[i].phase = "starting" /\ http[i] = "error"
  /\ Fail(i)
  /\ http' = [http EXCEPT ![i] = "none"]
  /\ UNCHANGED <<poolVars, target, bridge, tasks, browserEnd, upstreamEnd, wire,
                 stops, current, client, strayed>>

\* onIOPub collects an output, the last message resolves the future.
Receive(l) ==
  /\ down[l] # <<>>
  /\ LET message == Head(down[l]) IN
     \/ /\ message.type = "output"
        /\ runs' = [runs EXCEPT ![message.run].got = @ + 1]
        /\ UNCHANGED page
     \/ /\ message.type = "done"
        /\ runs' = [runs EXCEPT ![message.run] = EndedRun(message.run, "done")]
        /\ page' = PageAfter(message.run)
  /\ down' = [down EXCEPT ![l] = Tail(@)]
  /\ UNCHANGED <<poolVars, target, http, bridge, tasks, browserEnd, upstreamEnd,
                 up, inbox, outbox, stops, current, client, strayed>>

-----------------------------------------------------------------------------
(* stopRuntime. *)

\* What follows runtimeManager.stop() when it does not throw.
Stopped(call) ==
  /\ CloseBrowserEnd
  /\ runs' = RunsAfterDispose
  /\ client' = NoClient
  /\ page' = IF Mounted(call) THEN [PageAfterDispose EXCEPT !.shown = None]
             ELSE PageAfterDispose
  /\ UNCHANGED <<target, http, bridge, tasks, upstreamEnd>>

\* The button is enabled while a runtime is shown.
ClickStop(j) ==
  LET call == [phase |-> IF current = None THEN "done" ELSE "sent",
               visit |-> page.visit, shown |-> page.shown, runtime |-> current]
  IN
  /\ stops[j].phase = "none" /\ page.shown # None
  /\ stops' = [stops EXCEPT ![j] = call]
  /\ \/ current = None /\ Stopped(call)
     \/ current # None /\ UNCHANGED <<gatewayVars, page, runs, client>>
  /\ UNCHANGED <<poolVars, current, strayed>>

\* DELETE removes the container, if it is still there.
DeleteRuntime(r) ==
  \/ Vanishes(r) /\ CutOff(r)
  \/ ~ Alive(r) /\ UNCHANGED <<poolVars, upstreamEnd, wire>>

HandleStop(j) ==
  /\ stops[j].phase = "sent"
  /\ stops' = [stops EXCEPT ![j].phase = "handled"]
  /\ DeleteRuntime(stops[j].runtime)
  /\ UNCHANGED <<target, http, bridge, tasks, browserEnd, page, runs, current,
                 client, strayed>>

LateStop(j) ==
  /\ stops[j].phase = "late"
  /\ stops' = [stops EXCEPT ![j] = EndedStop(j, "failed")]
  /\ DeleteRuntime(stops[j].runtime)
  /\ UNCHANGED <<target, http, bridge, tasks, browserEnd, page, runs, current,
                 client, strayed>>

StopArrives(j) ==
  /\ stops[j].phase = "handled"
  /\ ReportStopped(stops[j].runtime)
  /\ stops' = [stops EXCEPT ![j] = EndedStop(j, "done")]
  /\ current' = None
  /\ Stopped(stops[j])
  /\ UNCHANGED strayed

\* An error or no answer: the caller does nothing else.
StopFails(j) ==
  /\ \/ stops[j].phase = "sent" /\ stops' = [stops EXCEPT ![j].phase = "late"]
     \/ /\ stops[j].phase = "handled"
        /\ stops' = [stops EXCEPT ![j] = EndedStop(j, "failed")]
  /\ UNCHANGED <<poolVars, gatewayVars, page, runs, current, client, strayed>>

-----------------------------------------------------------------------------
(* The user's way through the app, and the containers. *)

Visit(n) ==
  /\ page.visit < MaxVisits
  /\ page' = [notebook |-> n, visit |-> page.visit + 1, shown |-> None,
              running |-> None]
  /\ strayed' = (strayed \/ (\E i \in Links : runs[i].phase \notin Over)
                         \/ (\E j \in Stops : stops[j].phase \notin Over))
  /\ UNCHANGED <<poolVars, gatewayVars, runs, stops, current, client>>

Healthy(r) ==
  /\ BecomesHealthy(r)
  /\ UNCHANGED <<gatewayVars, sessionVars>>

Dies(r) ==
  /\ Vanishes(r) /\ CutOff(r)
  /\ UNCHANGED <<target, http, bridge, tasks, browserEnd, sessionVars>>

SystemStep ==
  \/ \E l \in Links :
       \/ (GatewayStep(l) \/ KernelExecutes(l)) /\ UNCHANGED sessionVars
       \/ KernelStarted(l) \/ KernelFails(l) \/ Receive(l)
  \/ \E r \in Runtimes : Healthy(r)

Next ==
  \/ SystemStep
  \/ \E i \in Links :
       \/ ClickRun(i) \/ HandlePost(i) \/ LatePost(i) \/ HandlePoll(i)
       \/ StillStarting(i) \/ PollEnds(i) \/ EnsureReadyFails(i)
       \/ ReuseKernel(i) \/ StartKernel(i)
  \/ \E j \in Stops :
       \/ ClickStop(j) \/ HandleStop(j) \/ LateStop(j)
       \/ StopArrives(j) \/ StopFails(j)
  \/ \E n \in Notebooks : Visit(n)
  \/ \E r \in Mortal : Dies(r)

Spec == Init /\ [][Next]_vars

\* The gateway's tasks, the kernels and the browser's callbacks run on; there
\* are finitely many such steps between two of the user's.
FairSpec == Spec /\ WF_vars(SystemStep)

-----------------------------------------------------------------------------
(* Properties. *)

\* A connection exists for every bridge, a bridge's tasks run while it is open
\* and not after, and what is shown as running is a call that is.
TypeOK ==
  /\ \A l \in Links :
       /\ bridge[l] = "none" <=> browserEnd[l] = "none"
       /\ tasks[l] # {} => bridge[l] = "open"
       /\ bridge[l] \in {"open", "closing"} => upstreamEnd[l] # "none"
       /\ http[l] # "none" <=> runs[l].phase = "starting"
  /\ page.running # None =>
       /\ runs[page.running].phase \notin Over
       /\ runs[page.running].notebook = page.notebook
  /\ current \in {r \in Runtimes : phase[r] # "absent"} \union {None}
  /\ client.link # None => target[client.link] = client.runtime

\* The code of a notebook is executed in a runtime of that notebook only,
\* although the two singletons are shared by all pages and their calls
\* overlap when the user goes from one page to another.
RunsInOwnRuntime ==
  \A l \in Links :
    \A k \in 1 .. Len(inbox[l]) : owner[target[l]] = runs[inbox[l][k]].notebook

\* A run that succeeds has collected every output of its kernel, however the
\* bridge, a Stop and other runs on the kernel interleave.
ResultsComplete == \A i \in Links : runs[i].phase = "done" => runs[i].got = 1

\* A Stop that succeeds has removed the runtime its page showed, unless a page
\* was left while a call was under way: the singletons then know another one.
StopStopsShown ==
  \A j \in Stops :
    stops[j].phase = "done" /\ ~ strayed => phase[stops[j].shown] = "gone"

GoneRuntimes == {r \in Runtimes : phase[r] = "gone"}

\* When the browser or the Jupyter server has gone, the bridge ends and leaves
\* no connection open.
BridgeEnds ==
  \A l \in Links :
    (bridge[l] # "none" /\ (browserEnd[l] = "closed" \/ target[l] \in GoneRuntimes))
      ~> (bridge[l] = "closed" /\ upstreamEnd[l] # "open")

\* The bridge of the link has been refused; the browser is told nothing else.
Refused(l) == bridge[l] = "closed" /\ upstreamEnd[l] = "none"

\* A run that has its kernel ends, by its result or by a dispose, unless the
\* kernel's connection was refused or its runtime has gone: the page is not
\* left waiting for a kernel that it is connected to.
ExecutionEnds ==
  \A i \in Links :
    (runs[i].phase \in {"starting", "executing"})
      ~> \/ runs[i].phase \in {"done", "failed"}
         \/ runs[i].link # None /\ Refused(runs[i].link)
         \/ runs[i].runtime \in GoneRuntimes
=============================================================================
