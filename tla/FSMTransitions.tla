---------------------------- MODULE FSMTransitions ----------------------------
(***************************************************************************)
(* FSM transitions over the async-call queue (controller DAL).             *)
(*                                                                         *)
(*  - StartFSMTransition (dal, src/unnamed/part_004) issues two separate   *)
(*    statements: CreateAsyncCall, then the StartFSMTransition query that  *)
(*    binds the call to the instance row only if no transition is in      *)
(*    flight; "no rows" is translated by dalerrs.TranslatePGError to       *)
(*    ErrNotFound and reported as "transition already executing: conflict".*)
(*  - The queries themselves, the async-call executor (Acquire, Complete) *)
(*    and the lease reaper are not under src/; they are modelled from the *)
(*    specification (sections 4.4 and 4.5) and the table definitions of    *)
(*    001_init.sql.                                                        *)
(*                                                                         *)
(* Data abstraction: an instance is a model value, a destination state is *)
(* a model value, an async call is an index into the calls sequence (its  *)
(* identity column), and time is abstracted to lease expiry events and    *)
(* to the retry counter (scheduled_at never orders two calls of one        *)
(* instance differently from their ids in the cases checked).             *)
(***************************************************************************)
EXTENDS Naturals, Sequences, FiniteSets, DALErrors

CONSTANTS
  Inst,          \* FSM instances (fsm, key)
  Dests,         \* destination states (verb refs)
  Starters,      \* concurrent callers of StartFSMTransition
  Executors,     \* controllers running the async-call executor
  MaxCalls,      \* bound on rows inserted into async_calls
  MaxAttempts,   \* retryParams.Count of every start
  MaxExpiries,   \* bound on leases (of calls and instances) expiring in one behaviour
  Locking,       \* starters go through AcquireFSMInstance and its lease
  None

VARIABLES
  calls,    \* async_calls rows: [inst, verb, state, attempts, lease]
  fsm,      \* fsm_instances: Inst -> row, or None when no row exists
  starter,  \* each starter's position in StartFSMTransition
  exec,     \* per executor: the call it is executing, or None
  expiries, \* async-call lease expiries so far
  ilease,   \* the /system/fsm_instance lease of each instance: its holder, or None
  lapses    \* instance lease expiries so far

vars == <<calls, fsm, starter, exec, expiries, ilease, lapses>>

CallIds == 1..Len(calls)
InFlight == {"pending", "executing"}
NoRow == [status |-> "running", cur |-> None, dest |-> None, call |-> None]

(* A caller outside any call of the DAL: it holds no local state.       *)
IdleStarter == [pc |-> "idle", inst |-> None, dest |-> None, call |-> None,
                result |-> "none", seen |-> None]
-----------------------------------------------------------------------------
Init ==
  /\ calls = <<>>
  /\ fsm = [i \in Inst |-> None]
  /\ starter = [s \in Starters |-> IdleStarter]
  /\ exec = [e \in Executors |-> None]
  /\ expiries = 0
  /\ ilease = [i \in Inst |-> None]
  /\ lapses = 0

(***************************************************************************)
(* AcquireFSMInstance: AcquireLease on /system/fsm_instance/<fsm>/<key>    *)
(* for 5 seconds (an error, and no step, when another holder has it),      *)
(* then GetFSMInstance; a missing row reads as a running instance with no *)
(* states. The lease's context, which would report losing the lease, is   *)
(* discarded. The caller keeps the destination it read.                   *)
(***************************************************************************)
AcquireFSMInstance(s, i) ==
  /\ Locking /\ starter[s].pc = "idle"
  /\ ilease[i] = None
  /\ ilease' = [ilease EXCEPT ![i] = s]
  /\ starter' = [starter EXCEPT ![s] = [@ EXCEPT !.pc = "locked", !.inst = i, !.result = "none",
                                          !.seen = IF fsm[i] = None THEN None ELSE fsm[i].dest]]
  /\ UNCHANGED <<calls, fsm, exec, expiries, lapses>>

AcquireFSMInstanceFails(s, i) ==
  /\ Locking /\ starter[s].pc = "idle"
  /\ ilease[i] = None
  /\ ilease' = [ilease EXCEPT ![i] = s]
  /\ UNCHANGED <<calls, fsm, starter, exec, expiries, lapses>>

(* A lease whose holder is not working on its instance (it was leaked by *)
(* AcquireFSMInstanceFails) is no longer renewed once the request's       *)
(* context ends, and expires after its 5 seconds.                        *)
Orphaned(i) ==
  /\ ilease[i] # None
  /\ starter[ilease[i]].pc = "idle" \/ starter[ilease[i]].inst # i

ExpireOrphanLease(i) ==
  /\ Orphaned(i)
  /\ ilease' = [ilease EXCEPT ![i] = None]
  /\ UNCHANGED <<calls, fsm, starter, exec, expiries, lapses>>

(* The caller of AcquireFSMInstance refuses to start a transition while   *)
(* the instance it read has one in flight (spec section 4.5, single-flight *)
(* guarantee, point 3), and releases the lease.                            *)
RejectInFlight(s) ==
  /\ starter[s].pc = "locked" /\ starter[s].seen # None
  /\ starter' = [starter EXCEPT ![s].pc = "started", ![s].result = "conflict"]
  /\ UNCHANGED <<calls, fsm, exec, expiries, ilease, lapses>>

(* Lease.Release: deletes the lease only if it is still this holder's. *)
ReleaseFSMInstance(s) ==
  /\ starter[s].pc = "started"
  /\ ilease' = [ilease EXCEPT ![starter[s].inst] = IF @ = s THEN None ELSE @]
  /\ starter' = [starter EXCEPT ![s] = IdleStarter]
  /\ UNCHANGED <<calls, fsm, exec, expiries, lapses>>

(* The holder runs past the 5-second lease (or its renewal fails); the    *)
(* lease row goes, while the holder, which discarded the lease's context, *)
(* carries on. Both kinds of lease share the bound on expiries.           *)
LapseFSMLease(i) ==
  /\ expiries + lapses < MaxExpiries /\ ilease[i] # None
  /\ ilease' = [ilease EXCEPT ![i] = None]
  /\ lapses' = lapses + 1
  /\ UNCHANGED <<calls, fsm, starter, exec, expiries>>

(* StartFSMTransition, first statement: CreateAsyncCall inserts a pending *)
(* call whose verb is the destination state. With Locking the caller     *)
(* holds the instance it acquired, which it read with nothing in flight.  *)
CreateAsyncCall(s, i, d) ==
  /\ \/ ~Locking /\ starter[s].pc = "idle"
     \/ Locking /\ starter[s].pc = "locked" /\ starter[s].inst = i /\ starter[s].seen = None
  /\ Len(calls) < MaxCalls
  /\ calls' = Append(calls, [inst |-> i, verb |-> d, state |-> "pending",
                             attempts |-> MaxAttempts, lease |-> None])
  /\ starter' = [starter EXCEPT ![s] = [pc |-> "created", inst |-> i, dest |-> d,
                                        call |-> Len(calls) + 1, result |-> "none", seen |-> None]]
  /\ UNCHANGED <<fsm, exec, expiries, ilease, lapses>>

(* The StartFSMTransition query: insert the instance row, or update it if *)
(* its async_call_id IS NULL, binding destination and call; otherwise no  *)
(* row is returned. The DAL translates the error; ErrNotFound is reported *)
(* as a conflict. The call inserted by the first statement stays.          *)

StartFSMTransitionQuery(i) ==
  IF fsm[i] = None \/ fsm[i].call = None THEN "ok" ELSE "noRows"

StartFSMTransition(s) ==
  LET st == starter[s]
      err == TranslatePGError(StartFSMTransitionQuery(st.inst))
      row == IF fsm[st.inst] = None THEN NoRow ELSE fsm[st.inst]
  IN  /\ st.pc = "created"
      /\ fsm' = IF err = "ok"
                  THEN [fsm EXCEPT ![st.inst] = [row EXCEPT !.dest = st.dest, !.call = st.call]]
                  ELSE fsm
      /\ starter' = [starter EXCEPT ![s].pc = IF Locking THEN "started" ELSE "idle",
                                    ![s].result = IF err = "notFound" THEN "conflict" ELSE err]
      /\ UNCHANGED <<calls, exec, expiries, ilease, lapses>>
-----------------------------------------------------------------------------
(* Acquire: an executor takes a pending call, or an executing one whose  *)
(* lease was reaped, and binds a fresh lease to it. The queue is FIFO by  *)
(* (scheduled_at, id); scheduled_at depends on retry backoff times, which *)
(* are not modelled, so any acquirable call may come first.               *)
Acquirable(c) ==
  \/ calls[c].state = "pending"
  \/ calls[c].state = "executing" /\ calls[c].lease = None

AcquireAsyncCall(e) ==
  /\ exec[e] = None
  /\ \E c \in CallIds :
       /\ Acquirable(c)
       /\ calls' = [calls EXCEPT ![c].state = "executing", ![c].lease = e]
       /\ exec' = [exec EXCEPT ![e] = c]
  /\ UNCHANGED <<fsm, starter, expiries, ilease, lapses>>

(* The lease reaper deletes an expired lease; ON DELETE SET NULL clears  *)
(* lease_id while the call stays executing.                               *)
ExpireLease(c) ==
  /\ expiries + lapses < MaxExpiries
  /\ calls[c].state = "executing" /\ calls[c].lease # None
  /\ calls' = [calls EXCEPT ![c].lease = None]
  /\ expiries' = expiries + 1
  /\ UNCHANGED <<fsm, starter, exec, ilease, lapses>>

(* An executor whose lease is gone stops without touching the call.      *)
Abandon(e) ==
  /\ exec[e] # None
  /\ calls[exec[e]].lease # e
  /\ exec' = [exec EXCEPT ![e] = None]
  /\ UNCHANGED <<calls, fsm, starter, expiries, ilease, lapses>>
-----------------------------------------------------------------------------
(* FinishFSMTransition / FailFSMInstance / SucceedFSMInstance on (fsm, key) *)
(* (part_004): clear destination and call; finish promotes the destination *)
(* to the current state, fail and succeed set the final status.            *)
FinishFSMTransition(r) == [r EXCEPT !.cur = r.dest, !.dest = None, !.call = None]
FailFSMInstance(r) == [r EXCEPT !.status = "failed", !.dest = None, !.call = None]
SucceedFSMInstance(r) == [r EXCEPT !.status = "completed", !.dest = None, !.call = None]

(* Complete: in one transaction the call's result is stored and, for a    *)
(* call of FSM origin, the instance is updated: success finishes the       *)
(* transition (or succeeds the FSM when the destination is final); a      *)
(* failure with attempts left reschedules the call; a final failure fails *)
(* the instance. The executor must still hold the call's lease.           *)
FSMHook(r, hook) ==
  CASE hook = "finish"  -> FinishFSMTransition(r)
    [] hook = "succeed" -> SucceedFSMInstance(r)
    [] hook = "fail"    -> FailFSMInstance(r)
    [] OTHER            -> r

(* Mutant: a failure is rescheduled whatever remaining_attempts says.   *)
CompleteRetriesAlways(e, ok) ==
  LET c == exec[e]
      k == calls[c]
      retry == ~ok
      hooks == IF ok THEN {"finish", "succeed"} ELSE IF retry THEN {"none"} ELSE {"fail"}
  IN  /\ c # None
      /\ k.lease = e
      /\ calls' = [calls EXCEPT ![c] =
                     [k EXCEPT !.state = IF ok THEN "success" ELSE IF retry THEN "pending" ELSE "error",
                               !.attempts = IF retry THEN @ - 1 ELSE @,
                               !.lease = None]]
      /\ \E hook \in hooks :
           fsm' = IF fsm[k.inst] = None THEN fsm
                  ELSE [fsm EXCEPT ![k.inst] = FSMHook(@, hook)]
      /\ exec' = [exec EXCEPT ![e] = None]
      /\ UNCHANGED <<starter, expiries, ilease, lapses>>

CompleteAsyncCall(e, ok) ==
  LET c == exec[e]
      k == calls[c]
      retry == ~ok /\ k.attempts > 0
      hooks == IF ok THEN {"finish", "succeed"} ELSE IF retry THEN {"none"} ELSE {"fail"}
  IN  /\ c # None
      /\ k.lease = e
      /\ calls' = [calls EXCEPT ![c] =
                     [k EXCEPT !.state = IF ok THEN "success" ELSE IF retry THEN "pending" ELSE "error",
                               !.attempts = IF retry THEN @ - 1 ELSE @,
                               !.lease = None]]
      /\ \E hook \in hooks :
           fsm' = IF fsm[k.inst] = None THEN fsm
                  ELSE [fsm EXCEPT ![k.inst] = FSMHook(@, hook)]
      /\ exec' = [exec EXCEPT ![e] = None]
      /\ UNCHANGED <<starter, expiries, ilease, lapses>>
-----------------------------------------------------------------------------
Executor(e) ==
  \/ AcquireAsyncCall(e)
  \/ \E ok \in BOOLEAN : CompleteAsyncCall(e, ok)
  \/ Abandon(e)

Next ==
  \/ \E s \in Starters, i \in Inst, d \in Dests : CreateAsyncCall(s, i, d)
  \/ \E s \in Starters : StartFSMTransition(s) \/ RejectInFlight(s) \/ ReleaseFSMInstance(s)
  \/ \E s \in Starters, i \in Inst :
       AcquireFSMInstance(s, i) \/ AcquireFSMInstanceFails(s, i)
  \/ \E i \in Inst : LapseFSMLease(i) \/ ExpireOrphanLease(i)
  \/ \E e \in Executors : Executor(e)
  \/ \E c \in CallIds : ExpireLease(c)

(* Only safety is checked of this module: the executors and the caller  *)
(* of AcquireFSMInstance are not under src/, so no fairness is assumed.  *)
Spec == Init /\ [][Next]_vars
-----------------------------------------------------------------------------
TypeOK ==
  /\ calls \in Seq([inst : Inst, verb : Dests, state : InFlight \cup {"success", "error"},
                    attempts : 0..MaxAttempts, lease : Executors \cup {None}])
  /\ \A i \in Inst : fsm[i] = None \/
       fsm[i] \in [status : {"running", "completed", "failed"}, cur : Dests \cup {None},
                   dest : Dests \cup {None}, call : CallIds \cup {None}]
  /\ \A e \in Executors : exec[e] \in CallIds \cup {None}
  /\ expiries \in 0..MaxExpiries
  /\ \A s \in Starters : starter[s].pc \in {"idle", "locked", "created", "started"}
                         /\ starter[s].seen \in Dests \cup {None}
  /\ ilease \in [Inst -> Starters \cup {None}]
  /\ lapses \in 0..MaxExpiries

(* The FSMInstance invariant of spec section 3: destination_state is set *)
(* exactly when a transition is in flight, i.e. when async_call_id is set *)
(* and that call, of this instance and for that destination, is still     *)
(* pending or executing.                                                  *)
DestinationMeansInFlight ==
  \A i \in Inst : fsm[i] # None =>
    /\ (fsm[i].dest = None) <=> (fsm[i].call = None)
    /\ fsm[i].call # None =>
         LET k == calls[fsm[i].call]
         IN  k.state \in InFlight /\ k.inst = i /\ k.verb = fsm[i].dest

(* Spec section 4.5, single-flight guarantee: at most one transition of   *)
(* an instance is in flight, i.e. once every StartFSMTransition that      *)
(* inserted a call has returned, at most one pending or executing async   *)
(* call originates from the instance.                                     *)
Starting == {starter[s].call : s \in {x \in Starters : starter[x].pc = "created"}}

SingleFlight ==
  \A i \in Inst :
    Cardinality({c \in CallIds \ Starting : calls[c].inst = i /\ calls[c].state \in InFlight}) <= 1

==============================================================================
