---------------------------- MODULE OneBalancer ----------------------------
(***************************************************************************)
(* What the handlers of the load balancer promise to a service, whatever   *)
(* calls, failures and crashes come in between: it has one balancer or     *)
(* none, a balancer is never passed on or used again, and it is kept until *)
(* a handler was called to delete it.                                      *)
(***************************************************************************)
CONSTANTS Services, Uuids, None

VARIABLES
    has,     \* has[s]: the balancer of a service, or None
    spent,   \* balancers that were handed out
    asked    \* services whose balancer shall be deleted

vars == <<has, spent, asked>>

Init ==
    /\ has = [s \in Services |-> None]
    /\ spent = {}
    /\ asked = {}

\* A service gets a balancer that nobody had before.
Obtain(s) ==
    /\ has[s] = None
    /\ \E u \in Uuids \ spent :
          /\ has' = [has EXCEPT ![s] = u]
          /\ spent' = spent \cup {u}
    /\ UNCHANGED asked

\* It loses the balancer if it is asked for.
Release(s) ==
    /\ s \in asked /\ has[s] # None
    /\ has' = [has EXCEPT ![s] = None]
    /\ UNCHANGED <<spent, asked>>

\* Users change their minds, handlers are called and forgotten.
Ask ==
    /\ asked' \subseteq Services
    /\ UNCHANGED <<has, spent>>

Next == (\E s \in Services : Obtain(s) \/ Release(s)) \/ Ask

Spec == Init /\ [][Next]_vars
=============================================================================
