--------------------------- MODULE OrderLifecycle ---------------------------
(***************************************************************************)
(* What the system promises about an order, to a client who sees only GET  *)
(* /orders/{id} and to an auditor who sees which steps the services really *)
(* performed: the steps happen at most once and in the saga's order, an    *)
(* order is shipped only after all of them, it gets one verdict, and the   *)
(* client is told that verdict.  Nothing here knows of messages, retries,  *)
(* sagas or compensations.                                                 *)
(***************************************************************************)
CONSTANT Order

VARIABLES
    phase,      \* phase[o]: "new", "open", then one verdict, "SHIPPED" or "CANCELLED"
    performed,  \* performed[o]: the steps a service carried out for o
    answer      \* answer[o]: what the client reads

lifecycleVars == <<phase, performed, answer>>

LifecycleInit ==
    /\ phase = [o \in Order |-> "new"]
    /\ performed = [o \in Order |-> {}]
    /\ answer = [o \in Order |-> "ABSENT"]

Open(o) ==
    /\ phase[o] = "new"
    /\ phase' = [phase EXCEPT ![o] = "open"]
    /\ answer' = [answer EXCEPT ![o] = "PENDING"]
    /\ UNCHANGED performed

(* A step is carried out after those before it.  A slow service may do so for an order
   that was given up meanwhile. *)
Perform(o, earlier, step) ==
    /\ phase[o] # "new"
    /\ performed[o] = earlier
    /\ performed' = [performed EXCEPT ![o] = earlier \cup {step}]
    /\ UNCHANGED <<phase, answer>>

PerformNext(o) ==
    \/ Perform(o, {}, "charge")
    \/ Perform(o, {"charge"}, "reserve")
    \/ Perform(o, {"charge", "reserve"}, "dispatch")

Decide(o, verdict) ==
    /\ phase[o] = "open"
    /\ verdict = "SHIPPED" => performed[o] = {"charge", "reserve", "dispatch"}
    /\ phase' = [phase EXCEPT ![o] = verdict]
    /\ UNCHANGED <<performed, answer>>

Tell(o) ==
    /\ phase[o] \in {"SHIPPED", "CANCELLED"}
    /\ answer[o] = "PENDING"
    /\ answer' = [answer EXCEPT ![o] = phase[o]]
    /\ UNCHANGED <<phase, performed>>

LifecycleNext ==
    \E o \in Order :
        \/ Open(o)
        \/ PerformNext(o)
        \/ \E verdict \in {"SHIPPED", "CANCELLED"} : Decide(o, verdict)
        \/ Tell(o)

LifecycleSpec == LifecycleInit /\ [][LifecycleNext]_lifecycleVars
=============================================================================
