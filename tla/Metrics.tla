-------------------------------- MODULE Metrics --------------------------------
(***************************************************************************)
(* internal/metrics: a registry shared by the daemon's loop, which counts  *)
(* in it, and by the handlers of an HTTP server, one per scrape.           *)
(*                                                                         *)
(* A handler holds the registry's mutex while it writes the response, and  *)
(* the server has no write timeout: a client that does not read blocks the *)
(* handler once the buffers of its connection are full, and with it every  *)
(* Inc and Set of the loop.                                                *)
(***************************************************************************)
EXTENDS Integers, Sequences

CONSTANTS
    Scrapers,   \* the clients
    Buffer,     \* lines a connection's buffers take without being read:
                \* the server's own and the two sockets'
    MaxRuns     \* runs of the loop

ASSUME ScrapersAssumption == "free" \notin Scrapers
ASSUME BufferAssumption   == Buffer \in Nat

(* "fetched" stands for the counters of fetches that succeed and that      *)
(* fail, "planned" for the gauges set while the plan is made (the health   *)
(* and metric of gateways, the managed prefixes, routes and rules).  The   *)
(* counters of the cleanup at shutdown, when nobody is served any more,    *)
(* are left out.                                                           *)
Counters == {"fetched", "succeeded", "failed"}
Gauges   == {"planned", "last_success"}

VARIABLES
    registry,   \* the two maps; 0 for a name they do not hold yet
    mu,         \* who holds the mutex
    todo,       \* the loop: calls the run still makes
    runs,       \* runs begun; it serves as the time of day
    serving,    \* the listener is open
    handler,    \* per client: "none", "waiting", "writing" or "done"
    left,       \* per client: the names still to be written
    page,       \* per client: what has been written
    unread      \* per client: lines in the connection's buffers

vars == <<registry, mu, todo, runs, serving, handler, left, page, unread>>
loopVars == <<registry, todo, runs>>
webVars  == <<handler, left, page, unread>>

Zero == [n \in Counters \cup Gauges |-> 0]

Init ==
    /\ registry = Zero
    /\ mu = "free"
    /\ todo = <<>>
    /\ runs = 0
    /\ serving = TRUE
    /\ handler = [s \in Scrapers |-> "none"]
    /\ left = [s \in Scrapers |-> {}]
    /\ page = [s \in Scrapers |-> Zero]
    /\ unread = [s \in Scrapers |-> 0]

-----------------------------------------------------------------------------
(* The loop *)

(* What BuildPlan and reconcileOnce record for a configuration of one      *)
(* group, without --dry-run: a run that succeeds, also by skipping a group *)
(* without a list, and one that fails, with or without gauges being set.   *)
CallsOfARun ==
    {<<"fetched", "planned", "succeeded", "last_success">>,
     <<"fetched", "succeeded", "last_success">>,
     <<"fetched", "planned", "failed">>,
     <<"fetched", "failed">>}

Run ==
    /\ todo = <<>>
    /\ runs < MaxRuns
    /\ runs' = runs + 1
    /\ todo' \in CallsOfARun
    /\ UNCHANGED <<registry, mu, serving, webVars>>

CallUnlocked ==   \* mutant: no lock; and Go's maps do not bear it
    /\ todo # <<>>
    /\ LET n == Head(todo)
       IN  registry' = [registry EXCEPT ![n] = IF n \in Counters THEN @ + 1 ELSE runs]
    /\ todo' = Tail(todo)
    /\ UNCHANGED <<mu, runs, serving, webVars>>

(* Inc and Set: lock, change one entry, unlock.                            *)
Call ==
    /\ todo # <<>>
    /\ mu = "free"
    /\ LET n == Head(todo)
       IN  registry' = [registry EXCEPT ![n] = IF n \in Counters THEN @ + 1 ELSE runs]
    /\ todo' = Tail(todo)
    /\ UNCHANGED <<mu, runs, serving, webVars>>

-----------------------------------------------------------------------------
(* The server *)

(* A client may ask again before it has read the page before.              *)
Request(s) ==
    /\ serving
    /\ handler[s] \in {"none", "done"}
    /\ handler' = [handler EXCEPT ![s] = "waiting"]
    /\ page' = [page EXCEPT ![s] = Zero]
    /\ UNCHANGED <<loopVars, mu, serving, left, unread>>

Lock(s) ==
    /\ handler[s] = "waiting"
    /\ mu = "free"
    /\ mu' = s
    /\ handler' = [handler EXCEPT ![s] = "writing"]
    /\ left' = [left EXCEPT ![s] = Counters \cup Gauges]
    /\ UNCHANGED <<loopVars, serving, page, unread>>

(* One iteration of the two loops; a map's order is any order.             *)
Write(s) ==
    /\ handler[s] = "writing"
    /\ unread[s] < Buffer
    /\ \E n \in left[s] :
        /\ n \in Gauges => left[s] \subseteq Gauges
        /\ left' = [left EXCEPT ![s] = @ \ {n}]
        /\ page' = [page EXCEPT ![s][n] = registry[n]]
    /\ unread' = [unread EXCEPT ![s] = @ + 1]
    /\ UNCHANGED <<loopVars, mu, serving, handler>>

UnlockForgotten(s) ==   \* mutant: a return that passes by the Unlock
    /\ handler[s] = "writing"
    /\ left[s] = {}
    /\ handler' = [handler EXCEPT ![s] = "done"]
    /\ UNCHANGED <<loopVars, mu, serving, left, page, unread>>

Unlock(s) ==
    /\ handler[s] = "writing"
    /\ left[s] = {}
    /\ mu' = "free"
    /\ handler' = [handler EXCEPT ![s] = "done"]
    /\ UNCHANGED <<loopVars, serving, left, page, unread>>

(* The client reads on, some of what is there or all of it; all is gone as *)
(* well when it hangs up.                                                  *)
Read(s) ==
    /\ \E n \in 0 .. unread[s] - 1 : unread' = [unread EXCEPT ![s] = n]
    /\ UNCHANGED <<loopVars, mu, serving, handler, left, page>>

(* ListenAndServe fails, or the context is done and Shutdown closes the    *)
(* listener; nobody waits for the handlers, and the loop does not notice.  *)
Close ==
    /\ serving
    /\ serving' = FALSE
    /\ UNCHANGED <<loopVars, mu, webVars>>

Handle(s) == Lock(s) \/ Write(s) \/ Unlock(s)

Next ==
    \/ Run \/ Call \/ Close
    \/ \E s \in Scrapers : Request(s) \/ Handle(s) \/ Read(s)

Spec == Init /\ [][Next]_vars

(* sync.Mutex hands itself over to who has waited longest, so whoever      *)
(* waits gets it in the end.  Clients owe nothing.                         *)
FairSpec ==
    /\ Spec
    /\ SF_vars(Call)
    /\ \A s \in Scrapers : WF_vars(Write(s) \/ Unlock(s)) /\ SF_vars(Lock(s))

-----------------------------------------------------------------------------
(* Properties *)

(* A page is of one moment: between the Inc and the Set that end a         *)
(* successful run, or after both, but never with the time of a success it  *)
(* does not count, nor with results of runs whose fetch it does not show.  *)
PageIsCoherent ==
    \A s \in Scrapers : handler[s] = "done" =>
        LET p == page[s]
            results == p["succeeded"] + p["failed"]
        IN  /\ p["fetched"] - results \in {0, 1}
            /\ p["last_success"] <= p["fetched"]
            /\ p["last_success"] > 0 => p["succeeded"] > 0

(* The loop gets through its calls however many clients ask, in whatever   *)
(* order they are served and however slowly they read, unless one of them  *)
(* stops reading for good and leaves its connection full: there is no      *)
(* write timeout, and the loop then waits for the mutex for ever.          *)
EveryClientReadsOn == \A s \in Scrapers : []<>(unread[s] < Buffer)

RunsGoOn == EveryClientReadsOn => ((todo # <<>>) ~> (todo = <<>>))
=============================================================================
