---------------------------- MODULE PolicyService ----------------------------
(***************************************************************************)
(* What the controller promises to the users of a cluster, without caches, *)
(* queues, versions or reconcilers: which objects there are, for which     *)
(* policies the API server asks a policy server, and what the policy       *)
(* servers know.  PolicyRefinement shows that PolicyLifecycle keeps it.    *)
(***************************************************************************)

CONSTANTS Policies, Servers, ServerOf,
          ByHand     \* whether users delete webhook configurations themselves

VARIABLES
    phase,        \* of each policy: absent, live or deleting
    serverPhase,  \* of each PolicyServer
    registered,   \* the policies with a webhook configuration
    listed,       \* the policies in the ConfigMap of their PolicyServer
    known         \* the policies that every ready pod of their server serves

vars == <<phase, serverPhase, registered, listed, known>>

Bound(s) == {p \in Policies : ServerOf[p] = s}

Init ==
    /\ phase = [p \in Policies |-> "absent"]
    /\ serverPhase = [s \in Servers |-> "absent"]
    /\ registered = {}
    /\ listed = {}
    /\ known = Policies

Create(p) ==
    /\ phase[p] = "absent"
    /\ p \notin registered
    /\ phase' = [phase EXCEPT ![p] = "live"]
    /\ UNCHANGED <<serverPhase, registered, listed, known>>

\* A user deletes one policy, or the deletion of a PolicyServer several.
Delete(doomed) ==
    /\ \A p \in doomed : phase[p] = "live"
    /\ phase' = [p \in Policies |-> IF p \in doomed THEN "deleting" ELSE phase[p]]
    /\ UNCHANGED <<serverPhase, registered, listed, known>>

\* A policy goes only when no request is sent to it any more.
Remove(p) ==
    /\ phase[p] = "deleting"
    /\ p \notin registered
    /\ phase' = [phase EXCEPT ![p] = "absent"]
    /\ UNCHANGED <<serverPhase, registered, listed, known>>

CreateServer(s) ==
    /\ serverPhase[s] = "absent"
    /\ serverPhase' = [serverPhase EXCEPT ![s] = "live"]
    /\ UNCHANGED <<phase, registered, listed, known>>

DeleteServer(s) ==
    /\ serverPhase[s] = "live"
    /\ serverPhase' = [serverPhase EXCEPT ![s] = "deleting"]
    /\ UNCHANGED <<phase, registered, listed, known>>

\* A PolicyServer goes only after all policies it was told to serve.
RemoveServer(s) ==
    /\ serverPhase[s] = "deleting"
    /\ \A p \in Bound(s) \cap listed : phase[p] = "absent"
    /\ serverPhase' = [serverPhase EXCEPT ![s] = "absent"]
    /\ UNCHANGED <<phase, registered, listed, known>>

\* The list of a PolicyServer changes, and keeps what is registered.
Configure(s) ==
    /\ listed' \in SUBSET Policies
    /\ listed' \ Bound(s) = listed \ Bound(s)
    /\ Bound(s) \cap registered \subseteq listed'
    /\ UNCHANGED <<phase, serverPhase, registered, known>>

\* Pods come, go, start and stop, and all that answer know what is registered.
ChangePods(s) ==
    /\ known' \in SUBSET Policies
    /\ known' \ Bound(s) = known \ Bound(s)
    /\ Bound(s) \cap registered \subseteq known'
    /\ UNCHANGED <<phase, serverPhase, registered, listed>>

\* Requests are sent for a policy that exists, whose PolicyServer exists and
\* lists it, and which every pod knows.
Register(p) ==
    /\ phase[p] # "absent"
    /\ serverPhase[ServerOf[p]] # "absent"
    /\ p \in listed \cap known
    /\ registered' = registered \cup {p}
    /\ UNCHANGED <<phase, serverPhase, listed, known>>

\* The controller itself takes no webhook away from a live policy.
Unregister(p) ==
    /\ phase[p] = "deleting" \/ ByHand
    /\ registered' = registered \ {p}
    /\ UNCHANGED <<phase, serverPhase, listed, known>>

Next ==
    \/ \E p \in Policies : Create(p) \/ Remove(p) \/ Register(p) \/ Unregister(p)
    \/ \E doomed \in SUBSET Policies : Delete(doomed)
    \/ \E s \in Servers :
           CreateServer(s) \/ DeleteServer(s) \/ RemoveServer(s) \/ Configure(s) \/ ChangePods(s)

Spec == Init /\ [][Next]_vars
=============================================================================
