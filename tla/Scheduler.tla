----------------------------- MODULE Scheduler -----------------------------
(***************************************************************************)
(* The cooperative scheduler of src/scheduler/scheduler.c.                 *)
(*                                                                         *)
(* The kernel's scheduling state is one record `kern`:                     *)
(*   state   : the TCB status of every task (pcb_t.state)                  *)
(*   ring    : the ready ring read from current_running along the `next`   *)
(*             pointers, so ring[1] is current_running and ring[Len(ring)] *)
(*             is current_running->previous                                *)
(*   current : current_running                                             *)
(*   waitq   : every wait queue (a pcb_t* head, singly linked by `next`)   *)
(*   halted  : the scheduler reached `while(1)` after the last exit        *)
(*                                                                         *)
(* The operations are pure operators from a kernel record to the record    *)
(* after the call, so the synchronisation primitives and the mailbox,      *)
(* which call block/unblock inside one critical section, compose them in   *)
(* the order the code calls them.  A call of scheduler_entry() saves the   *)
(* caller's context and runs scheduler(); the saved context is resumed     *)
(* when the task is current_running again, which the client modules model  *)
(* as the task being the one that takes the next step.                     *)
(***************************************************************************)
EXTENDS Integers, Sequences, SequencesExt, FiniteSets

CONSTANTS
    TaskSeq,    \* the static PCB table, in the order the ready ring links it
    Threads,    \* the tasks that are kernel threads (the rest are processes)
    Queues      \* every wait queue: one per lock, condition, semaphore, ...

Tasks == ToSet(TaskSeq)

ASSUME /\ Len(TaskSeq) >= 1
       /\ Cardinality(Tasks) = Len(TaskSeq)
       /\ Threads \subseteq Tasks

\* The values of pcb_t.state.
FirstTime == {"FIRST_TIME", "FIRST_TIME_THREAD"}
Status == FirstTime \cup {"READY", "BLOCKED", "EXITED"}

KernRec == [state : [Tasks -> Status], ring : Seq(Tasks), current : Tasks,
            waitq : [Queues -> Seq(Tasks)], halted : BOOLEAN]

(* The boot state: every PCB linked into the ready ring in table order,    *)
(* all wait queues empty, and the first task dispatched (its FIRST_TIME    *)
(* status cleared by dispatch()).                                          *)
KernInit ==
    [state   |-> [t \in Tasks |->
                    IF t = TaskSeq[1] THEN "READY"
                    ELSE IF t \in Threads THEN "FIRST_TIME_THREAD"
                    ELSE "FIRST_TIME"],
     ring    |-> TaskSeq,
     current |-> TaskSeq[1],
     waitq   |-> [q \in Queues |-> <<>>],
     halted  |-> FALSE]

(* dispatch(): a task run for the first time has its status set to READY   *)
(* before start_process/start_thread jumps to its entry point; any other   *)
(* task returns through scheduler_entry into its saved context.            *)
Dispatch(k) ==
    IF k.state[k.current] \in FirstTime
    THEN [k EXCEPT !.state[k.current] = "READY"]
    ELSE k

(* Mutant: scheduler() that drops `current_running = current_running->next` *)
(* in the branch of a task still READY, so yield() resumes the caller.     *)
SchedulerNoRotate(k) ==
    LET c    == k.current
        rest == Tail(k.ring)
    IN  IF k.state[c] \in {"BLOCKED", "EXITED"}
        THEN IF k.state[c] = "EXITED" /\ rest = <<>>
             THEN [k EXCEPT !.halted = TRUE]
             ELSE IF rest = <<>>
             THEN [k EXCEPT !.ring = <<>>]
             ELSE Dispatch([k EXCEPT !.ring = rest, !.current = Head(rest)])
        ELSE Dispatch(k)

(* scheduler(): a BLOCKED or EXITED current task is unlinked from the ring *)
(* and current_running advances to its successor; a READY one just        *)
(* advances.  The last task exiting halts the machine.  When the last      *)
(* ready task blocks, previous and next are the task itself, so            *)
(* current_running stays on the blocked task whose links are then zeroed:  *)
(* the ring is empty and dispatch() returns into the blocked task.         *)
Scheduler(k) ==
    LET c    == k.current
        rest == Tail(k.ring)
    IN  IF k.state[c] \in {"BLOCKED", "EXITED"}
        THEN IF k.state[c] = "EXITED" /\ rest = <<>>
             THEN [k EXCEPT !.halted = TRUE]
             ELSE IF rest = <<>>
             THEN [k EXCEPT !.ring = <<>>]
             ELSE Dispatch([k EXCEPT !.ring = rest, !.current = Head(rest)])
        ELSE LET r == rest \o <<c>>
             IN  Dispatch([k EXCEPT !.ring = r, !.current = Head(r)])

\* yield(): enter the scheduler with the current task still READY.
Yield(k) == Scheduler(k)

\* exit(): mark the current task EXITED and enter the scheduler.
Exit(k) == Scheduler([k EXCEPT !.state[k.current] = "EXITED"])

(* block(q): mark the current task BLOCKED, append it at the tail of the   *)
(* FIFO wait queue q, and enter the scheduler, which unlinks it.           *)
Block(k, q) ==
    Scheduler([k EXCEPT !.state[k.current] = "BLOCKED",
                        !.waitq[q] = Append(@, k.current)])

(* Mutant: unblock() that forgets `*q = tmp->next`, leaving the woken     *)
(* task at the head of the wait queue.                                     *)
UnblockNoPop(k, q) ==
    LET t == Head(k.waitq[q])
    IN  [k EXCEPT !.state[t] = "READY", !.ring = Append(@, t)]

(* Mutant: unblock() that takes the task *q points to as the last one, as  *)
(* its comment says, instead of the head.                                  *)
UnblockLast(k, q) ==
    LET t == Last(k.waitq[q])
    IN  [k EXCEPT !.waitq[q] = Front(@),
                  !.state[t] = "READY",
                  !.ring = Append(@, t)]

(* unblock(q): take the head of q, mark it READY and link it into the ring *)
(* between current_running->previous and current_running, i.e. last in    *)
(* the ring order from current_running.  Callers check q is non-empty.     *)
Unblock(k, q) ==
    LET t == Head(k.waitq[q])
    IN  [k EXCEPT !.waitq[q] = Tail(@),
                  !.state[t] = "READY",
                  !.ring = Append(@, t)]

(* The loop `while (q != NULL) unblock(q)` of condition_broadcast and      *)
(* barrier_wait: every waiter, in FIFO order, goes to the ring.            *)
RECURSIVE UnblockAll(_, _)
UnblockAll(k, q) ==
    IF k.waitq[q] = <<>> THEN k ELSE UnblockAll(Unblock(k, q), q)

(* The scheduler is running a task: not halted, and the ring is not empty  *)
(* (it is empty only after the last ready task blocked).                   *)
Running(k) == ~k.halted /\ k.ring # <<>>

(* The lists a task is on: the ready ring, and the wait queues holding it. *)
InRing(k, t) == \E i \in 1..Len(k.ring) : k.ring[i] = t
QueuesOf(k, t) == {q \in Queues : \E i \in 1..Len(k.waitq[q]) : k.waitq[q][i] = t}

(* The list discipline of spec section 3: a ready or not yet started task  *)
(* is linked into the ring once and into no wait queue; a blocked task is  *)
(* in exactly one wait queue, once, and out of the ring; an exited task is *)
(* nowhere, except the last one, still linked when the machine halts; and  *)
(* while a task runs, the ring starts at current_running.                  *)
ListsWellFormed(k) ==
    /\ IsInjective(k.ring)
    /\ \A q \in Queues : IsInjective(k.waitq[q])
    /\ \A t \in Tasks :
         /\ k.state[t] \in FirstTime \cup {"READY"} =>
                InRing(k, t) /\ QueuesOf(k, t) = {}
         /\ k.state[t] = "BLOCKED" =>
                ~InRing(k, t) /\ Cardinality(QueuesOf(k, t)) = 1
         /\ k.state[t] = "EXITED" =>
                QueuesOf(k, t) = {} /\ (InRing(k, t) <=> k.halted /\ t = k.current)
    /\ Running(k) => k.ring[1] = k.current

=============================================================================
