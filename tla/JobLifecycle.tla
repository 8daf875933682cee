----------------------------- MODULE JobLifecycle -----------------------------
(***************************************************************************)
(* What the server promises about a job, whatever the queues, the tubes    *)
(* and the timers do: ids are given in order and never again, a job is in  *)
(* one state at a time, one connection at most holds it, every step moves  *)
(* one job along one edge of the life cycle, and a deleted job never       *)
(* returns.  Module Broker implements it.                                  *)
(***************************************************************************)
EXTENDS Naturals

CONSTANTS Conns, NoConn, MaxId

Ids == 1..MaxId

VARIABLES
    life,       \* the state of every id
    holder,     \* the connection that has the job reserved
    fresh       \* the next id

lifeVars == <<life, holder, fresh>>

Queued == {"ready", "delayed", "buried"}
Lives == Queued \cup {"none", "incoming", "reserved", "deleted"}

Init ==
    /\ life = [j \in Ids |-> "none"]
    /\ holder = [j \in Ids |-> NoConn]
    /\ fresh = 1

Move(j, to, c) ==
    /\ life' = [life EXCEPT ![j] = to]
    /\ holder' = [holder EXCEPT ![j] = c]

Create ==
    /\ fresh \in Ids
    /\ Move(fresh, "incoming", NoConn)
    /\ fresh' = fresh + 1

Store(j) ==
    /\ life[j] = "incoming"
    /\ \E to \in Queued : Move(j, to, NoConn)
    /\ UNCHANGED fresh

Reserve(j, c) ==
    /\ life[j] \in Queued
    /\ Move(j, "reserved", c)
    /\ UNCHANGED fresh

\* A release, a bury, a timeout or the end of the holder.
Requeue(j) ==
    /\ life[j] = "reserved"
    /\ \E to \in Queued : Move(j, to, NoConn)
    /\ UNCHANGED fresh

\* A kick, or the end of a delay.  A job that was ready stays ready.
Promote(j) ==
    /\ life[j] \in {"delayed", "buried"}
    /\ \E to \in Queued : Move(j, to, NoConn)
    /\ UNCHANGED fresh

Delete(j) ==
    /\ life[j] \in Queued \cup {"incoming", "reserved"}
    /\ Move(j, "deleted", NoConn)
    /\ UNCHANGED fresh

Next ==
    \/ Create
    \/ \E j \in Ids : \/ Store(j) \/ Requeue(j) \/ Promote(j) \/ Delete(j)
                      \/ \E c \in Conns : Reserve(j, c)

Spec == Init /\ [][Next]_lifeVars
=============================================================================
