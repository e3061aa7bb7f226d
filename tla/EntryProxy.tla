----------------------------- MODULE EntryProxy -----------------------------
(***************************************************************************)
(* What the entry proxy (internal/entryproxy Proxy, a process of its own   *)
(* that the agent drives through its control socket) knows of users and    *)
(* routes.  Every control call runs under the proxy's mutex, so each is    *)
(* one step.  All of this is memory: a restarted proxy has another epoch   *)
(* and nothing else.                                                       *)
(***************************************************************************)
EXTENDS PlacementStore

CONSTANT
    MaxEpoch        \* bound on the proxy's starts

ASSUME MaxEpochAssumption == MaxEpoch \in Nat \ {0}

VARIABLES
    epoch,          \* which start of the proxy this is
    proxyUsers,     \* clients the VLESS service accepts
    pool,           \* backends it can dial
    route           \* per client: the backends its connections may use

proxyVars == <<epoch, proxyUsers, pool, route>>

ProxyTypeOK ==
    /\ epoch \in 1..MaxEpoch
    /\ proxyUsers \subseteq Clients
    /\ pool \subseteq Backends
    /\ route \in [Clients -> SUBSET Backends]

NoRoutes == [u \in Clients |-> {}]

ProxyInit == epoch = 1 /\ proxyUsers = {} /\ pool = {} /\ route = NoRoutes

(* Faulty variant: adding a user again drops its route.                    *)
AddUserAnew(u) ==
    /\ proxyUsers' = proxyUsers \cup {u}
    /\ route' = [route EXCEPT ![u] = {}]
    /\ UNCHANGED <<epoch, pool>>

AddUser(u) ==
    /\ proxyUsers' = proxyUsers \cup {u}
    /\ UNCHANGED <<epoch, pool, route>>

(* Faulty variant: the VLESS service keeps the user.                       *)
RemoveRoute(u) ==
    /\ route' = [route EXCEPT ![u] = {}]
    /\ UNCHANGED <<epoch, proxyUsers, pool>>

(* The route goes with the user; live connections are left alone.          *)
RemoveUser(u) ==
    /\ proxyUsers' = proxyUsers \ {u}
    /\ route' = [route EXCEPT ![u] = {}]
    /\ UNCHANGED <<epoch, pool>>

(* Faulty variant: the arguments are swapped.                              *)
SelectClient(u, b) ==
    /\ b \in pool
    /\ route' = [route EXCEPT ![u] = @ \cup {u}]
    /\ UNCHANGED <<epoch, proxyUsers, pool>>

(* The backend joins the client's route.  An unknown one is an error.      *)
SelectBackend(u, b) ==
    /\ b \in pool
    /\ route' = [route EXCEPT ![u] = @ \cup {b}]
    /\ UNCHANGED <<epoch, proxyUsers, pool>>

SetUserBackends(u, bs) ==
    /\ route' = [route EXCEPT ![u] = bs]
    /\ UNCHANGED <<epoch, proxyUsers, pool>>

SetBackends(bs) ==
    /\ pool' = bs
    /\ UNCHANGED <<epoch, proxyUsers, route>>

ProxyRestarts ==
    /\ "proxy" \in Faults
    /\ epoch < MaxEpoch
    /\ epoch' = epoch + 1
    /\ proxyUsers' = {}
    /\ pool' = {}
    /\ route' = NoRoutes

(* connBackends: where a new connection of client u may go.                *)
ConnBackends(u) == route[u] \cap pool
=============================================================================
