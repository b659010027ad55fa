--------------------------- MODULE RunnerScheduler ---------------------------
(***************************************************************************)
(* The runner scheduler of the controller database: the runners table and *)
(* its two row triggers (backend/controller/sql/schema/001_init.sql), the *)
(* queries of the sql.Querier interface that change it (ReserveRunner,    *)
(* UpsertRunner, ExpireRunnerReservations, KillStaleRunners), and the      *)
(* runner processes whose heartbeats call UpsertRunner.                    *)
(*                                                                         *)
(* Actors that interleave: the controller reserving runners and sending    *)
(* them the Reserve RPC, its periodic expiry and stale-runner jobs, and    *)
(* each runner process heartbeating its own view of its state. A runner   *)
(* process generates its key at startup, so a restart is a new key at the *)
(* same endpoint; the old row blocks the endpoint until it is dead.       *)
(*                                                                         *)
(* Time is abstracted to what the queries compare: a reservation_timeout  *)
(* is NULL, in the future ("live") or in the past ("past"), and a row's   *)
(* last_seen is within the stale interval ("fresh") or not.               *)
(***************************************************************************)
EXTENDS Naturals, FiniteSets

CONSTANTS
  Runners,      \* runner keys, one per runner process start
  Endpoint,     \* Runners -> the endpoint the process listens on
  Depls,        \* deployment keys
  None          \* SQL NULL / no row

ASSUME DOMAIN Endpoint = Runners

VARIABLES
  rows,     \* the runners table: key -> row, or None when no row has that key
  proc,     \* each runner process: whether it runs, and its own state
  rpc       \* Reserve RPCs sent by the controller and not yet delivered

vars == <<rows, proc, rpc>>
-----------------------------------------------------------------------------
(* Mutant: no reservation-timeout trigger on the table. *)
NoReservationTimeoutTrigger(old, state, timeout) == timeout

(***************************************************************************)
(* runners_set_reservation_timeout, BEFORE INSERT OR UPDATE: a row moving  *)
(* into reserved with a NULL timeout gets now + 2 minutes. On INSERT, OLD *)
(* is NULL, so "OLD.state != 'reserved'" is NULL and the default is not   *)
(* applied.                                                                *)
(***************************************************************************)
ReservationTimeout(old, state, timeout) ==
  IF old # None /\ old.state # "reserved" /\ state = "reserved" /\ timeout = "null"
    THEN "live" ELSE timeout

(* runners_endpoint_not_dead_idx: another key holds the endpoint in a row *)
(* that is not dead.                                                       *)
EndpointTaken(r) ==
  \E o \in Runners \ {r} : rows[o] # None /\ rows[o].state # "dead" /\ Endpoint[o] = Endpoint[r]

Registered(r) == rows[r] # None /\ rows[r].state # "dead"
Reserved(r) == rows[r] # None /\ rows[r].state = "reserved"
-----------------------------------------------------------------------------
Init ==
  /\ rows = [r \in Runners |-> None]
  /\ proc = [r \in Runners |-> [up |-> "down", state |-> "idle", depl |-> None]]
  /\ rpc = {}

(* A runner process starts with a fresh key once no other process serves *)
(* its endpoint.                                                           *)
StartRunner(r) ==
  /\ proc[r].up = "down"
  /\ \A o \in Runners \ {r} : Endpoint[o] = Endpoint[r] => proc[o].up # "up"
  /\ proc' = [proc EXCEPT ![r].up = "up"]
  /\ UNCHANGED <<rows, rpc>>

(* The process dies; its row stays as it was and stops being refreshed. *)
CrashRunner(r) ==
  /\ proc[r].up = "up"
  /\ proc' = [proc EXCEPT ![r].up = "crashed"]
  /\ UNCHANGED <<rows, rpc>>

(***************************************************************************)
(* UpsertRunner: insert the runner's key, or update its row, with the      *)
(* state and deployment the runner reports and a fresh last_seen; the     *)
(* reservation_timeout column is left as it is. Both row triggers run.    *)
(* A non-dead row of another key at the same endpoint makes it fail.      *)
(***************************************************************************)
UpsertRunner(r, state, depl) ==
  /\ ~EndpointTaken(r)
  /\ LET old     == rows[r]
         timeout == IF old = None THEN "null" ELSE old.timeout
     IN  rows' = [rows EXCEPT ![r] =
                    [state |-> state, depl |-> depl, fresh |-> TRUE,
                     timeout |-> ReservationTimeout(old, state, timeout)]]

(* The runner's heartbeat loop reports its own state. *)
Heartbeat(r) ==
  /\ proc[r].up = "up"
  /\ UpsertRunner(r, proc[r].state, proc[r].depl)
  /\ UNCHANGED <<proc, rpc>>

(***************************************************************************)
(* ReserveRunner(reservationTimeout, deploymentKey, labels): find an idle  *)
(* runner and reserve it for the deployment with the given timeout; the   *)
(* controller then sends the runner the Reserve RPC.                       *)
(***************************************************************************)
ReserveRunner(r, d) ==
  /\ rows[r] # None /\ rows[r].state = "idle"
  /\ rows' = [rows EXCEPT ![r].state = "reserved", ![r].depl = d,
                          ![r].timeout = ReservationTimeout(rows[r], "reserved", "live")]
  /\ rpc' = rpc \cup {[runner |-> r, depl |-> d]}
  /\ UNCHANGED proc

(* The Reserve RPC reaches a running process, or is lost. *)
DeliverReserve(m) ==
  /\ m \in rpc
  /\ rpc' = rpc \ {m}
  /\ proc' = IF proc[m.runner].up = "up" /\ proc[m.runner].state = "idle"
               THEN [proc EXCEPT ![m.runner].state = "reserved", ![m.runner].depl = m.depl]
               ELSE proc
  /\ UNCHANGED rows

LoseReserve(m) ==
  /\ m \in rpc
  /\ rpc' = rpc \ {m}
  /\ UNCHANGED <<rows, proc>>

(* The controller's Deploy RPC turns a reserved runner into an assigned one. *)
DeployRunner(r) ==
  /\ proc[r].up = "up" /\ proc[r].state = "reserved"
  /\ proc' = [proc EXCEPT ![r].state = "assigned"]
  /\ UNCHANGED <<rows, rpc>>

(* Time passes: a reservation deadline goes by; the last_seen of a row    *)
(* whose process no longer heartbeats becomes older than the interval.    *)
TimeoutPasses(r) ==
  /\ rows[r] # None /\ rows[r].timeout = "live"
  /\ rows' = [rows EXCEPT ![r].timeout = "past"]
  /\ UNCHANGED <<proc, rpc>>

HeartbeatAges(r) ==
  /\ rows[r] # None /\ rows[r].fresh /\ proc[r].up # "up"
  /\ rows' = [rows EXCEPT ![r].fresh = FALSE]
  /\ UNCHANGED <<proc, rpc>>
-----------------------------------------------------------------------------
(* Mutant: the expiry compares the deadline the wrong way round. *)
ExpireRunnerReservationsLate ==
  /\ \E r \in Runners : Reserved(r) /\ rows[r].timeout = "live"
  /\ rows' = [r \in Runners |->
                IF Reserved(r) /\ rows[r].timeout = "live"
                  THEN [rows[r] EXCEPT !.state = "idle", !.timeout = "null", !.depl = None]
                  ELSE rows[r]]
  /\ UNCHANGED <<proc, rpc>>

(* ExpireRunnerReservations: every reserved row whose timeout has passed *)
(* goes back to idle, in one statement.                                    *)
ExpireRunnerReservations ==
  /\ \E r \in Runners : Reserved(r) /\ rows[r].timeout = "past"
  /\ rows' = [r \in Runners |->
                IF Reserved(r) /\ rows[r].timeout = "past"
                  THEN [rows[r] EXCEPT !.state = "idle", !.timeout = "null", !.depl = None]
                  ELSE rows[r]]
  /\ UNCHANGED <<proc, rpc>>

(* Mutant: only idle runners are declared dead. *)
KillStaleIdleRunners ==
  /\ \E r \in Runners : Registered(r) /\ ~rows[r].fresh /\ rows[r].state = "idle"
  /\ rows' = [r \in Runners |->
                IF Registered(r) /\ ~rows[r].fresh /\ rows[r].state = "idle"
                  THEN [rows[r] EXCEPT !.state = "dead"] ELSE rows[r]]
  /\ UNCHANGED <<proc, rpc>>

(* KillStaleRunners(interval): rows not seen within the interval are dead. *)
KillStaleRunners ==
  /\ \E r \in Runners : Registered(r) /\ ~rows[r].fresh
  /\ rows' = [r \in Runners |->
                IF Registered(r) /\ ~rows[r].fresh
                  THEN [rows[r] EXCEPT !.state = "dead"] ELSE rows[r]]
  /\ UNCHANGED <<proc, rpc>>
-----------------------------------------------------------------------------
Controller ==
  \/ \E r \in Runners, d \in Depls : ReserveRunner(r, d)
  \/ \E m \in rpc : DeliverReserve(m) \/ LoseReserve(m)
  \/ \E r \in Runners : DeployRunner(r)

Next ==
  \/ Controller
  \/ ExpireRunnerReservations \/ KillStaleRunners
  \/ \E r \in Runners : \/ StartRunner(r) \/ CrashRunner(r) \/ Heartbeat(r)
                        \/ TimeoutPasses(r) \/ HeartbeatAges(r)

(* The controller runs its expiry and stale-runner jobs periodically and  *)
(* a running process heartbeats every ten seconds, so those steps are     *)
(* weakly fair; so is the passing of time. Reservations, RPCs, deploys,   *)
(* starts and crashes may stop.                                            *)
Spec ==
  /\ Init /\ [][Next]_vars
  /\ WF_vars(ExpireRunnerReservations) /\ WF_vars(KillStaleRunners)
  /\ \A r \in Runners : /\ WF_vars(Heartbeat(r))
                        /\ WF_vars(TimeoutPasses(r)) /\ WF_vars(HeartbeatAges(r))
-----------------------------------------------------------------------------
(* Spec section 8, invariant 4: a reserved runner always has a            *)
(* reservation_timeout. ReserveRunner passes one; when ExpireRunnerReservations *)
(* has returned a row to idle and the runner, still reserved in its own   *)
(* view, heartbeats "reserved" again, only the trigger supplies it.       *)
ReservedHasTimeout == \A r \in Runners : Reserved(r) => rows[r].timeout # "null"

(* Every reservation ends: a reserved row is eventually idle, assigned or *)
(* dead, through ExpireRunnerReservations if nothing else, however the    *)
(* runner's heartbeats and the expiry job interleave.                      *)
ReservationsEnd == \A r \in Runners : Reserved(r) ~> ~Reserved(r)

(* A restarted runner gets registered: its heartbeats fail on the endpoint *)
(* index while the row of its previous process is not dead, and           *)
(* KillStaleRunners must eventually free the endpoint whatever state that *)
(* row was left in.                                                        *)
RestartRegisters ==
  \A r \in Runners : proc[r].up = "up" ~> (Registered(r) \/ proc[r].up = "crashed")
==============================================================================
