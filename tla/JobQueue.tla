------------------------------ MODULE JobQueue ------------------------------
(***************************************************************************)
(* The promise old-news takes from its queue (procrastinate on Postgres),  *)
(* read off tasks/sweep.py and tasks/tracing.py: a queueing lock keeps at  *)
(* most one job of a subject waiting, and a lock lets at most one job of a *)
(* host run, whichever slot picks it up.  `schedule_in` only says when a   *)
(* job may first be fetched, and jobs under one lock go oldest first; here *)
(* a waiting job may be fetched any time, in any order.                    *)
(*                                                                         *)
(* No job is retried: no task of tasks/ asks for it.  A job whose worker   *)
(* died stays in `doing` (tasks/maintenance.py:14), and so keeps its lock. *)
(***************************************************************************)
CONSTANTS
  Keys,      \* subjects: a feed, a page, an image
  Locks,
  LockOf,    \* the lock a subject's job takes, host_lock(host)
  NoLock,    \* host_lock(""): nothing to be polite about
  Slots,     \* jobs the worker runs at once on this queue
  Idle

\* What the theorems need of the constants; Polling's satisfy it.
QueueAssumption ==
  /\ LockOf \in [Keys -> Locks \cup {NoLock}]
  /\ NoLock \notin Locks /\ Idle \notin Keys

VARIABLES
  todo,      \* subjects with a job waiting
  doing,     \* doing[s]: the subject slot s is working on
  stuck      \* subjects whose job died in `doing`

queueVars == <<todo, doing, stuck>>

Init ==
  /\ todo = {} /\ stuck = {}
  /\ doing = [s \in Slots |-> Idle]

\* Subjects with a job in `doing`, whether or not anyone is working on it.
InDoing == ({doing[s] : s \in Slots} \cup stuck) \ {Idle}

LockHeld(k) ==
  LockOf[k] # NoLock /\ \E j \in (InDoing \cap Keys) : LockOf[j] = LockOf[k]

\* defer_unless_queued: AlreadyEnqueued is an answer, not an error.
DeferUnlessQueued(k) ==
  todo' = todo \cup {k} /\ UNCHANGED <<doing, stuck>>

Fetch(s, k) ==
  /\ doing[s] = Idle /\ k \in todo /\ ~ LockHeld(k)
  /\ doing' = [doing EXCEPT ![s] = k]
  /\ todo' = todo \ {k}
  /\ UNCHANGED stuck

\* Succeeded or failed, the job leaves `doing` and its lock is free.
Finish(s) ==
  /\ doing[s] # Idle
  /\ doing' = [doing EXCEPT ![s] = Idle]
  /\ UNCHANGED <<todo, stuck>>

\* The worker process dies, and another starts with every slot idle.
Kill ==
  /\ stuck' = InDoing
  /\ doing' = [s \in Slots |-> Idle]
  /\ UNCHANGED todo

Next ==
  \/ \E k \in Keys : DeferUnlessQueued(k)
  \/ \E s \in Slots, k \in Keys : Fetch(s, k)
  \/ \E s \in Slots : Finish(s)
  \/ Kill

Spec == Init /\ [][Next]_queueVars

-----------------------------------------------------------------------------
TypeOK ==
  /\ todo \subseteq Keys /\ stuck \subseteq Keys
  /\ doing \in [Slots -> Keys \cup {Idle}]

\* A host sees one job of ours at a time, counting the ones whose worker died, and a
\* subject under a lock is never worked on from two slots (ARCHITECTURE.md:436-438).
HostExclusive ==
  /\ \A s, t \in Slots :
       (s # t /\ doing[s] # Idle /\ doing[t] # Idle /\ LockOf[doing[s]] # NoLock)
         => LockOf[doing[s]] # LockOf[doing[t]]
  /\ \A s \in Slots, k \in stuck :
       (doing[s] # Idle /\ LockOf[k] # NoLock) => LockOf[doing[s]] # LockOf[k]
=============================================================================
