---------------------------- MODULE AppSupervisor ----------------------------
(***************************************************************************)
(* What the process promises of its apps, with no goroutines, signals or   *)
(* stages of a shutdown in sight: one app at a time has its storage open;  *)
(* it takes requests only while it has; it closes its storage when every   *)
(* request there is has been answered or given up by a shutdown; the next  *)
(* one opens its own after that, and only if a changed configuration asked *)
(* for it.                                                                 *)
(*                                                                         *)
(* A request that was given up may go on, and meet the storage of its app  *)
(* closed, while the next app is up.                                       *)
(***************************************************************************)
EXTENDS Naturals

CONSTANT
    Requests        \* the requests alive at a time

VARIABLES
    ended,          \* whether the process has ended
    asked,          \* the changed configurations that passed validation
    gen,            \* the apps that came up
    open,           \* those whose storage is open
    on,             \* on[r]: the app that handles request r, 0 for none
    late            \* the requests a shutdown gave up

supervisorVars == <<ended, asked, gen, open, on, late>>

Busy == {r \in Requests : on[r] # 0}

SupervisorInit ==
    /\ ended = FALSE
    /\ asked = 0
    /\ gen = 0
    /\ open = {}
    /\ on = [r \in Requests |-> 0]
    /\ late = {}

Ask ==
    /\ ~ended
    /\ asked' = asked + 1
    /\ UNCHANGED <<ended, gen, open, on, late>>

\* The first app comes up by itself, each later one for a configuration.
BringUp ==
    /\ ~ended
    /\ open = {}
    /\ gen <= asked
    /\ gen' = gen + 1
    /\ open' = {gen + 1}
    /\ UNCHANGED <<ended, asked, on, late>>

Take(r) ==
    /\ on[r] = 0
    /\ \E g \in open : on' = [on EXCEPT ![r] = g]
    /\ UNCHANGED <<ended, asked, gen, open, late>>

Answer(r) ==
    /\ on[r] # 0
    /\ on' = [on EXCEPT ![r] = 0]
    /\ late' = late \ {r}
    /\ UNCHANGED <<ended, asked, gen, open>>

\* The time a shutdown gives the requests is over.
GiveUp ==
    /\ open # {}
    /\ late' = Busy
    /\ UNCHANGED <<ended, asked, gen, open, on>>

TakeDown ==
    /\ open # {}
    /\ Busy \subseteq late
    /\ open' = {}
    /\ UNCHANGED <<ended, asked, gen, on, late>>

\* The process ends, and all it held is gone.
End ==
    /\ ended' = TRUE
    /\ gen' = 0 /\ open' = {} /\ late' = {}
    /\ on' = [r \in Requests |-> 0]
    /\ UNCHANGED asked

SupervisorNext ==
    \/ Ask \/ BringUp \/ GiveUp \/ TakeDown \/ End
    \/ \E r \in Requests : Take(r) \/ Answer(r)

SupervisorSpec == SupervisorInit /\ [][SupervisorNext]_supervisorVars
=============================================================================
