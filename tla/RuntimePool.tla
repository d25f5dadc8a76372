---------------------------- MODULE RuntimePool ----------------------------
(***************************************************************************)
(* What the Runtime Service promises to a client that sends it one request *)
(* at a time: a notebook has at most one running container, a container    *)
(* that is gone never comes back, and a runtime reported as stopped has    *)
(* none.                                                                   *)
(***************************************************************************)
CONSTANTS Runtimes, Notebooks, None

VARIABLES phase,    \* of the runtime's container
          owner,    \* the notebook it was started for
          stopped   \* runtimes a client has been told are stopped

poolVars == <<phase, owner, stopped>>

Alive(r) == phase[r] \in {"starting", "healthy"}

PoolInit ==
  /\ phase = [r \in Runtimes |-> "absent"]
  /\ owner = [r \in Runtimes |-> None]
  /\ stopped = {}

Launch(n, r) ==
  /\ phase[r] = "absent"
  /\ \A other \in Runtimes : owner[other] = n => ~ Alive(other)
  /\ phase' = [phase EXCEPT ![r] = "starting"]
  /\ owner' = [owner EXCEPT ![r] = n]
  /\ UNCHANGED stopped

BecomesHealthy(r) ==
  /\ phase[r] = "starting"
  /\ phase' = [phase EXCEPT ![r] = "healthy"]
  /\ UNCHANGED <<owner, stopped>>

BecomesUnhealthy(r) ==
  /\ phase[r] = "healthy"
  /\ phase' = [phase EXCEPT ![r] = "starting"]
  /\ UNCHANGED <<owner, stopped>>

\* It exits by itself or is removed.
Vanishes(r) ==
  /\ Alive(r)
  /\ phase' = [phase EXCEPT ![r] = "gone"]
  /\ UNCHANGED <<owner, stopped>>

ReportStopped(r) ==
  /\ phase[r] = "gone"
  /\ stopped' = stopped \union {r}
  /\ UNCHANGED <<phase, owner>>

PoolNext ==
  \E r \in Runtimes :
    \/ \E n \in Notebooks : Launch(n, r)
    \/ BecomesHealthy(r) \/ BecomesUnhealthy(r)
    \/ Vanishes(r) \/ ReportStopped(r)

PoolSpec == PoolInit /\ [][PoolNext]_poolVars

-----------------------------------------------------------------------------
(* What this promises. *)

\* A POST for a notebook whose container runs starts no second one.
OneAlive ==
  \A r, other \in Runtimes :
    Alive(r) /\ Alive(other) /\ owner[r] = owner[other] => r = other

\* A runtime a client was told is stopped has no container, for good.
StoppedAreGone == \A r \in stopped : phase[r] = "gone"
=============================================================================
