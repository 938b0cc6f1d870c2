---------------------------- MODULE TaskExecutor ----------------------------
(***************************************************************************)
(* What the thread pool promises its callers, without threads, queue or    *)
(* locks: a submitted task runs once; wait_all returns only when all that  *)
(* was submitted before the call has been done; the pool is stopped only   *)
(* when nothing is left to do.                                             *)
(***************************************************************************)
CONSTANTS Task, Client

VARIABLES status,   \* of each task
          waits,    \* the tasks each client waits for in wait_all
          inWait,   \* the clients in wait_all
          stopped

execVars == <<status, waits, inWait, stopped>>

Init == /\ status = [t \in Task |-> "new"]
        /\ waits = [c \in Client |-> {}]
        /\ inWait = {}
        /\ stopped = FALSE

Become(t, from, to) == /\ status[t] = from
                       /\ status' = [status EXCEPT ![t] = to]

Submit(t) == /\ ~stopped
             /\ Become(t, "new", "pending")
             /\ UNCHANGED <<waits, inWait, stopped>>

Start(t) == /\ Become(t, "pending", "running")
            /\ UNCHANGED <<waits, inWait, stopped>>

Finish(t) == /\ Become(t, "running", "done")
             /\ UNCHANGED <<waits, inWait, stopped>>

BeginWait(c) == /\ c \notin inWait
                /\ inWait' = inWait \cup {c}
                /\ waits' = [waits EXCEPT ![c] = {t \in Task : status[t] # "new"}]
                /\ UNCHANGED <<status, stopped>>

EndWait(c) == /\ c \in inWait
              /\ \A t \in waits[c] : status[t] = "done"
              /\ inWait' = inWait \ {c}
              /\ waits' = [waits EXCEPT ![c] = {}]
              /\ UNCHANGED <<status, stopped>>

Stop == /\ ~stopped
        /\ inWait = {}
        /\ \A t \in Task : status[t] \in {"new", "done"}
        /\ stopped' = TRUE
        /\ UNCHANGED <<status, waits, inWait>>

Next == \/ \E t \in Task : Submit(t) \/ Start(t) \/ Finish(t)
        \/ \E c \in Client : BeginWait(c) \/ EndWait(c)
        \/ Stop

Spec == Init /\ [][Next]_execVars

\* A pool with workers gets to every task, and wakes every waiting client.
FairSpec == /\ Spec
            /\ \A t \in Task : WF_execVars(Start(t)) /\ WF_execVars(Finish(t))
            /\ \A c \in Client : WF_execVars(EndWait(c))
=============================================================================
