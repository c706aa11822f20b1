---------------------------- MODULE MCScheduler ----------------------------
(***************************************************************************)
(* The guest programs that TLC runs on Scheduler, by the calls they make.  *)
(***************************************************************************)
EXTENDS SchedulerMonitor

\* Threads that are created, sleep, wait for one another, suspend one another
\* and share semaphores.
SemaphoreOps ==
    {"new_thread", "exit", "sleep", "join", "suspend", "resume",
     "sem_init", "sem_destroy", "sem_post", "sem_wait"}

\* Threads that share mutexes of every type.
MutexOps == {"new_thread", "exit", "init_mutex", "destroy_mutex", "lock_mutex",
             "unlock_mutex"}

\* All of these: threads that share mutexes and semaphores.
SharingOps == SemaphoreOps \cup MutexOps

\* Threads that share a monitor: a mutex and a condition variable.
MonitorOps == {"new_thread", "init_mutex", "lock_mutex", "unlock_mutex",
               "cond_init", "cond_destroy", "cond_wait", "cond_signal",
               "cond_broadcast"}

\* A monitor whose mutex may be destroyed.
DestroyOps == {"new_thread", "init_mutex", "destroy_mutex", "lock_mutex",
               "unlock_mutex", "cond_wait", "cond_signal"}

\* A monitor one of whose waiters may be suspended.
SuspendOps == {"new_thread", "suspend", "init_mutex", "lock_mutex",
               "cond_wait", "cond_broadcast"}

\* A monitor, and threads that do something else meanwhile.
FairOps == {"new_thread", "exit", "sleep", "init_mutex", "lock_mutex",
            "unlock_mutex", "cond_init", "cond_destroy", "cond_wait",
            "cond_signal"}

\* Every call, and every precondition a guest can break.
AllOps == MutexOps \cup MonitorOps \cup SemaphoreOps

AllMisuse == {"destroy_awaited_mutex", "destroy_awaited_semaphore",
              "reinit_awaited_cond", "destroy_awaited_cond",
              "destroy_signalled_cond", "use_destroyed_cond",
              "wait_with_two_mutexes", "unlock_for_another_thread"}
=============================================================================
