--------------------------- MODULE RestoreService ---------------------------
(***************************************************************************)
(* What both restores of the daemon promise, whatever they read, copy and  *)
(* verify: a restore that was asked for takes three effects, each at most  *)
(* once and in this order.  It places the whole directory under a free     *)
(* target name in one step, defines the domain under a free name, and      *)
(* starts its own stopped domain if that was asked for.  It is done after  *)
(* the last of them and not before; one that was abandoned is lost, takes  *)
(* no further effect and is not taken up again.  What a restore did not    *)
(* make changes only by the hands of others.                               *)
(***************************************************************************)
CONSTANTS
    Ops, Names, Roots,
    Foreign,    \* the owner of what no restore made
    Free,       \* nobody has the name
    NoRequest

VARIABLES
    step,    \* per operation: the last effect it took
    asked,   \* per operation: name, directory, start it or not
    place,   \* per directory: who stands there
    domain   \* per name: whose domain, and whether it runs

serviceVars == <<step, asked, place, domain>>

Requests   == [name : Names, root : Roots, start : BOOLEAN]
Unfinished == {"open", "placed", "bound", "run"}

Init ==
    /\ step = [o \in Ops |-> "none"]
    /\ asked = [o \in Ops |-> NoRequest]
    /\ place = [r \in Roots |-> Free]
    /\ domain = [n \in Names |-> Free]

To(o, s) == step' = [step EXCEPT ![o] = s]
Own(o, running) == [owner |-> o, running |-> running]

Ask(o) ==
    /\ step[o] = "none"
    /\ \E q \in Requests : asked' = [asked EXCEPT ![o] = q]
    /\ To(o, "open")
    /\ UNCHANGED <<place, domain>>

Place(o) ==
    /\ step[o] = "open"
    /\ place[asked[o].root] = Free
    /\ place' = [place EXCEPT ![asked[o].root] = o]
    /\ To(o, "placed")
    /\ UNCHANGED <<asked, domain>>

Bind(o) ==
    /\ step[o] = "placed"
    /\ domain[asked[o].name] = Free
    /\ domain' = [domain EXCEPT ![asked[o].name] = Own(o, FALSE)]
    /\ To(o, "bound")
    /\ UNCHANGED <<asked, place>>

Run(o) ==
    /\ step[o] = "bound" /\ asked[o].start
    /\ domain[asked[o].name] = Own(o, FALSE)
    /\ domain' = [domain EXCEPT ![asked[o].name].running = TRUE]
    /\ To(o, "run")
    /\ UNCHANGED <<asked, place>>

\* A restore that was to start the machine is done while its own machine runs.
Complete(o) ==
    /\ \/ step[o] = "bound" /\ ~asked[o].start
       \/ step[o] = "run" /\ domain[asked[o].name] = Own(o, TRUE)
    /\ To(o, "done")
    /\ UNCHANGED <<asked, place, domain>>

\* One restore fails, or a kill of the daemon takes several.
Abandon ==
    /\ \E lost \in SUBSET {o \in Ops : step[o] \in Unfinished} :
          step' = [o \in Ops |-> IF o \in lost THEN "lost" ELSE step[o]]
    /\ UNCHANGED <<asked, place, domain>>

\* Directories and domains come and go around the daemon; a start stops nothing.
OthersPlace(r) ==
    /\ \/ place' = [place EXCEPT ![r] = Free]
       \/ place[r] = Free /\ place' = [place EXCEPT ![r] = Foreign]
    /\ UNCHANGED <<step, asked, domain>>

OthersDomain(n) ==
    /\ \/ domain' = [domain EXCEPT ![n] = Free]
       \/ domain[n] = Free /\ domain' = [domain EXCEPT ![n] = Own(Foreign, FALSE)]
       \/ domain[n] # Free /\ domain' = [domain EXCEPT ![n].running = TRUE]
    /\ UNCHANGED <<step, asked, place>>

Next ==
    \/ \E o \in Ops : Ask(o) \/ Place(o) \/ Bind(o) \/ Run(o) \/ Complete(o)
    \/ Abandon
    \/ \E r \in Roots : OthersPlace(r)
    \/ \E n \in Names : OthersDomain(n)

Spec == Init /\ [][Next]_serviceVars
=============================================================================
