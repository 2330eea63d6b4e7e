--------------------------- MODULE OutbandProcess ---------------------------
(***************************************************************************)
(* The life of the process: hosts.Open over an inventory, the rest of main, *)
(* one collector per host, plain HTTP requests, and the way down after a    *)
(* signal.  An entry of the inventory is what its provider's factory        *)
(* returns; ids are distinct and the default host is one of them, which     *)
(* config.validateHosts checks before.                                      *)
(***************************************************************************)
EXTENDS Naturals, Sequences

CONSTANTS
    Hosts,    \* host ids
    Requests  \* plain HTTP requests, not the WebSocket ones

VARIABLES
    inventory,  \* sequence of [id, kind], fixed
    default,    \* cfg.DefaultHost, fixed
    i,          \* entries Open has been through
    order,      \* r.order
    clients,    \* hosts whose client is open
    phase,      \* where main is
    store,      \* the telemetry store is open
    ctx,        \* the collectors' context
    collector,  \* per host: "off", "idle" or "poll"
    listen,     \* ListenAndServe accepts requests
    request,    \* per request: "none", "running" or "done"
    timedOut    \* Shutdown gave up after its 10 s

procVars == <<inventory, default, i, order, clients, phase, store, ctx, collector,
              listen, request, timedOut>>

Kinds == {"ok", "unimplemented", "broken"}
Inventories ==
    UNION {{v \in [1..n -> [id : Hosts, kind : Kinds]] :
              \A a, b \in 1..n : a # b => v[a].id # v[b].id} : n \in 1..2}
InRegistry == {order[n] : n \in 1..Len(order)}
Skipped == \E n \in 1..i : inventory[n].id = default /\ inventory[n].kind = "unimplemented"

Init ==
    /\ inventory \in Inventories
    /\ default \in {inventory[n].id : n \in DOMAIN inventory}
    /\ i = 0 /\ order = <<>> /\ clients = {} /\ phase = "hosts"
    /\ store = "new" /\ ctx = FALSE /\ collector = [h \in Hosts |-> "off"]
    /\ listen = FALSE /\ request = [r \in Requests |-> "none"] /\ timedOut = FALSE

\* Mutant: the entry is added to the order before its provider is asked.
OpenHostListsAll ==
    /\ phase = "hosts" /\ i < Len(inventory) /\ i' = i + 1
    /\ LET e == inventory[i + 1] IN
        /\ order' = Append(order, e.id)
        /\ clients' = CASE e.kind = "ok" -> clients \cup {e.id}
                        [] e.kind = "broken" -> {}
                        [] OTHER -> clients
        /\ phase' = IF e.kind = "broken" THEN "failed" ELSE phase
    /\ UNCHANGED <<inventory, default, store, ctx, collector, listen, request, timedOut>>

\* One round of Open's loop.  A provider that is not implemented is skipped; any
\* other error closes the clients opened so far.
OpenHost ==
    /\ phase = "hosts" /\ i < Len(inventory) /\ i' = i + 1
    /\ LET e == inventory[i + 1] IN
        \/ /\ e.kind = "ok"
           /\ order' = Append(order, e.id) /\ clients' = clients \cup {e.id}
           /\ UNCHANGED phase
        \/ e.kind = "unimplemented" /\ UNCHANGED <<order, clients, phase>>
        \/ /\ e.kind = "broken"
           /\ clients' = clients \ InRegistry /\ phase' = "failed"
           /\ UNCHANGED order
    /\ UNCHANGED <<inventory, default, store, ctx, collector, listen, request, timedOut>>

\* After the loop: no host, or no default host, closes all clients too.
OpenDone ==
    /\ phase = "hosts" /\ i = Len(inventory)
    /\ IF order = <<>> \/ Skipped \/ default \notin InRegistry
       THEN phase' = "failed" /\ clients' = clients \ InRegistry
       ELSE phase' = "store" /\ UNCHANGED clients
    /\ UNCHANGED <<inventory, default, i, order, store, ctx, collector, listen, request, timedOut>>

\* telemetry.Open, NewGate and httpapi.New.  Their failures, like the one of
\* ListenAndServe, end the process by os.Exit, which runs no deferred call.
OpenStore ==
    /\ phase = "store"
    /\ \/ phase' = "start" /\ store' = "open"
       \/ phase' = "exit" /\ store' \in {"new", "open"}
    /\ UNCHANGED <<inventory, default, i, order, clients, ctx, collector, listen, request, timedOut>>

Start ==
    /\ phase = "start" /\ phase' = "serve" /\ ctx' = TRUE
    /\ collector' = [h \in Hosts |-> IF h \in InRegistry THEN "idle" ELSE "off"]
    /\ UNCHANGED <<inventory, default, i, order, clients, store, listen, request, timedOut>>

Listen ==
    /\ phase = "serve" /\ ~listen
    /\ \/ listen' = TRUE /\ UNCHANGED phase
       \/ phase' = "exit" /\ UNCHANGED listen
    /\ UNCHANGED <<inventory, default, i, order, clients, store, ctx, collector, request, timedOut>>

\* A collector begins a poll, ends it, or sees that its context is cancelled; its
\* select may take a tick after the cancellation.
Collect(h) ==
    /\ phase \notin {"exit", "stopped"}
    /\ \/ collector[h] = "idle" /\ collector' = [collector EXCEPT ![h] = "poll"]
       \/ collector[h] = "poll" /\ collector' = [collector EXCEPT ![h] = "idle"]
       \/ collector[h] = "idle" /\ ~ctx /\ collector' = [collector EXCEPT ![h] = "off"]
    /\ UNCHANGED <<inventory, default, i, order, clients, phase, store, ctx, listen, request, timedOut>>

Arrive(r) ==
    /\ listen /\ request[r] = "none" /\ phase = "serve"
    /\ request' = [request EXCEPT ![r] = "running"]
    /\ UNCHANGED <<inventory, default, i, order, clients, phase, store, ctx, collector, listen, timedOut>>

Answer(r) ==
    /\ request[r] = "running" /\ phase \notin {"exit", "stopped"}
    /\ request' = [request EXCEPT ![r] = "done"]
    /\ UNCHANGED <<inventory, default, i, order, clients, phase, store, ctx, collector, listen, timedOut>>

\* A signal: main cancels the collectors' context and calls Shutdown.
Signal ==
    /\ phase = "serve" /\ phase' = "shutdown" /\ ctx' = FALSE /\ listen' = FALSE
    /\ UNCHANGED <<inventory, default, i, order, clients, store, collector, request, timedOut>>

\* Mutant: Shutdown is not waited for.
ShutdownAtOnce ==
    /\ phase = "shutdown" /\ phase' = "close" /\ UNCHANGED timedOut
    /\ UNCHANGED <<inventory, default, i, order, clients, store, ctx, collector, listen, request>>

\* Shutdown returns when no request is running, or after 10 s.
Shutdown ==
    /\ phase = "shutdown" /\ phase' = "close"
    /\ \/ \A r \in Requests : request[r] # "running" /\ UNCHANGED timedOut
       \/ (\E r \in Requests : request[r] = "running") /\ timedOut' = TRUE
    /\ UNCHANGED <<inventory, default, i, order, clients, store, ctx, collector, listen, request>>

\* The deferred calls, last one first: store, then clients.
CloseStore ==
    /\ phase = "close" /\ store = "open" /\ store' = "closed"
    /\ UNCHANGED <<inventory, default, i, order, clients, phase, ctx, collector, listen, request, timedOut>>

CloseRegistry ==
    /\ phase = "close" /\ store = "closed" /\ phase' = "stopped"
    /\ clients' = clients \ InRegistry
    /\ UNCHANGED <<inventory, default, i, order, store, ctx, collector, listen, request, timedOut>>

Main == OpenHost \/ OpenDone \/ OpenStore \/ Start \/ Shutdown \/ CloseStore \/ CloseRegistry

Next ==
    \/ Main \/ Listen \/ Signal
    \/ \E h \in Hosts : Collect(h)
    \/ \E r \in Requests : Arrive(r) \/ Answer(r)

-----------------------------------------------------------------------------
TypeOK ==
    /\ i \in 0..Len(inventory) /\ order \in Seq(Hosts) /\ clients \subseteq Hosts
    /\ phase \in {"hosts", "failed", "store", "start", "serve", "shutdown", "close",
                  "stopped", "exit"}
    /\ store \in {"new", "open", "closed"} /\ ctx \in BOOLEAN /\ listen \in BOOLEAN
    /\ collector \in [Hosts -> {"off", "idle", "poll"}]
    /\ request \in [Requests -> {"none", "running", "done"}] /\ timedOut \in BOOLEAN

Usable == SelectSeq(inventory, LAMBDA e : e.kind = "ok")

\* A process that serves has a registry of all hosts it can use, in the order of
\* the inventory and with the default host among them, and a collector for each;
\* one whose Open failed, or that went down in order, has no client open.
RegistryWhole ==
    /\ phase \in {"store", "start", "serve"} =>
        /\ order = [n \in DOMAIN Usable |-> Usable[n].id]
        /\ clients = InRegistry /\ default \in clients
        /\ \A n \in DOMAIN inventory : inventory[n].kind # "broken"
    /\ phase = "serve" => {h \in Hosts : collector[h] # "off"} = InRegistry
    /\ phase \in {"failed", "stopped"} => clients = {}

\* A request that was accepted before the signal finds store and clients open
\* until it is answered, unless Shutdown gave up on it.
RequestsServed ==
    \A r \in Requests : request[r] = "running" /\ ~timedOut /\ phase # "exit" =>
        store = "open" /\ clients = InRegistry

\* A signal ends the process, whatever requests and collectors are doing.
Stops == phase = "shutdown" ~> phase = "stopped"
=============================================================================
