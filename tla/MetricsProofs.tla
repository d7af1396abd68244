---------------------------- MODULE MetricsProofs ----------------------------
(***************************************************************************)
(* Every page of the metrics server is of one moment, for any number of    *)
(* clients and runs and any size of buffers.                               *)
(*                                                                         *)
(* The registry is coherent after every call of the loop (LoopInv relates  *)
(* it to the calls the run has still to make), and while a handler writes, *)
(* it has the mutex and the registry stands still: what is on its page is  *)
(* what the registry holds (PageInv).                                      *)
(***************************************************************************)
EXTENDS Metrics, TLAPS

Keys == Counters \cup Gauges

(* Runs whose fetch is counted and whose result is not.                    *)
Unfinished ==
    {<<"planned", "succeeded", "last_success">>, <<"succeeded", "last_success">>,
     <<"planned", "failed">>, <<"failed">>}

(* A registry, or a page, that PageIsCoherent allows.                      *)
Coherent(p) ==
    /\ p["fetched"] - (p["succeeded"] + p["failed"]) \in {0, 1}
    /\ p["last_success"] <= p["fetched"]
    /\ p["last_success"] > 0 => p["succeeded"] > 0

(* The counters follow the calls the run has made.                         *)
LoopInv ==
    /\ registry \in [Keys -> Nat] /\ runs \in Nat
    /\ todo \in CallsOfARun \cup Unfinished \cup {<<"last_success">>, <<>>}
    /\ registry["fetched"] = registry["succeeded"] + registry["failed"]
                               + IF todo \in Unfinished THEN 1 ELSE 0
    /\ runs = registry["fetched"] + IF todo \in CallsOfARun THEN 1 ELSE 0
    /\ registry["last_success"] <= registry["fetched"]
    /\ registry["last_success"] > 0 => registry["succeeded"] > 0
    /\ todo = <<"last_success">> => registry["succeeded"] > 0

(* Who writes has the mutex; what has been written is still so; and what   *)
(* is finished was so at one moment.                                       *)
PageInv(s) ==
    /\ handler[s] = "writing" =>
          /\ mu = s
          /\ \A n \in Keys \ left[s] : page[s][n] = registry[n]
    /\ handler[s] = "done" => Coherent(page[s])

Shape ==
    /\ handler \in [Scrapers -> {"none", "waiting", "writing", "done"}]
    /\ left \in [Scrapers -> SUBSET Keys]
    /\ page \in [Scrapers -> [Keys -> Nat]]

IInv == LoopInv /\ Shape /\ \A s \in Scrapers : PageInv(s)

(* The names are different ones.                                           *)
LEMMA KeysAre ==
    /\ Keys = {"fetched", "succeeded", "failed", "planned", "last_success"}
    /\ Zero = [n \in Keys |-> 0] /\ Zero \in [Keys -> Nat]
BY DEF Keys, Counters, Gauges, Zero

(* The registry is coherent whatever the run has come to.                  *)
LEMMA RegistryCoherent ==
    ASSUME LoopInv PROVE Coherent(registry)
BY KeysAre DEF LoopInv, Coherent

(* What is left of a run after each of its calls.                          *)
LEMMA CallsLeft ==
    ASSUME NEW t \in CallsOfARun \cup Unfinished \cup {<<"last_success">>, <<>>}, t # <<>>
    PROVE  \/ t \in CallsOfARun /\ Head(t) = "fetched" /\ Tail(t) \in Unfinished
           \/ t \in Unfinished /\ Head(t) = "planned" /\ Tail(t) \in Unfinished
           \/ t \in Unfinished /\ Head(t) = "succeeded" /\ Tail(t) = <<"last_success">>
           \/ t \in Unfinished /\ Head(t) = "failed" /\ Tail(t) = <<>>
           \/ t = <<"last_success">> /\ Head(t) = "last_success" /\ Tail(t) = <<>>
<1>1. CASE t = <<"fetched", "planned", "succeeded", "last_success">>
  <2>1. Head(t) = "fetched" /\ Tail(t) = <<"planned", "succeeded", "last_success">>
    BY <1>1
  <2> QED
    BY <1>1, <2>1 DEF CallsOfARun, Unfinished
<1>2. CASE t = <<"fetched", "succeeded", "last_success">>
  <2>1. Head(t) = "fetched" /\ Tail(t) = <<"succeeded", "last_success">>
    BY <1>2
  <2> QED
    BY <1>2, <2>1 DEF CallsOfARun, Unfinished
<1>3. CASE t = <<"fetched", "planned", "failed">>
  <2>1. Head(t) = "fetched" /\ Tail(t) = <<"planned", "failed">>
    BY <1>3
  <2> QED
    BY <1>3, <2>1 DEF CallsOfARun, Unfinished
<1>4. CASE t = <<"fetched", "failed">>
  <2>1. Head(t) = "fetched" /\ Tail(t) = <<"failed">>
    BY <1>4
  <2> QED
    BY <1>4, <2>1 DEF CallsOfARun, Unfinished
<1>5. CASE t = <<"planned", "succeeded", "last_success">>
  <2>1. Head(t) = "planned" /\ Tail(t) = <<"succeeded", "last_success">>
    BY <1>5
  <2> QED
    BY <1>5, <2>1 DEF Unfinished
<1>6. CASE t = <<"succeeded", "last_success">>
  <2>1. Head(t) = "succeeded" /\ Tail(t) = <<"last_success">>
    BY <1>6
  <2> QED
    BY <1>6, <2>1 DEF Unfinished
<1>7. CASE t = <<"planned", "failed">>
  <2>1. Head(t) = "planned" /\ Tail(t) = <<"failed">>
    BY <1>7
  <2> QED
    BY <1>7, <2>1 DEF Unfinished
<1>8. CASE t = <<"failed">>
  <2>1. Head(t) = "failed" /\ Tail(t) = <<>>
    BY <1>8
  <2> QED
    BY <1>8, <2>1 DEF Unfinished
<1>9. CASE t = <<"last_success">>
  BY <1>9
<1> QED
  BY <1>1, <1>2, <1>3, <1>4, <1>5, <1>6, <1>7, <1>8, <1>9, Zenon DEF CallsOfARun, Unfinished

(* A run is in one of these stages only.                                   *)
LEMMA StagesDiffer ==
    /\ CallsOfARun \cap Unfinished = {}
    /\ \A t \in {<<"last_success">>, <<>>} : t \notin CallsOfARun /\ t \notin Unfinished
    /\ <<"last_success">> # <<>>
BY DEF CallsOfARun, Unfinished

(* A call keeps the counters in step with the run.                         *)
LEMMA CallKeepsLoop ==
    ASSUME LoopInv, Call PROVE LoopInv'
<1> DEFINE n == Head(todo)
<1>1. /\ todo # <<>> /\ todo' = Tail(todo) /\ runs' = runs
      /\ registry' = [registry EXCEPT ![n] = IF n \in Counters THEN @ + 1 ELSE runs]
  BY DEF Call
<1>2. registry \in [Keys -> Nat] /\ runs \in Nat
  BY DEF LoopInv
<1>3. CASE todo \in CallsOfARun /\ n = "fetched" /\ todo' \in Unfinished
  <2>1. /\ registry'["fetched"] = registry["fetched"] + 1
        /\ registry'["succeeded"] = registry["succeeded"]
        /\ registry'["failed"] = registry["failed"]
        /\ registry'["last_success"] = registry["last_success"]
        /\ registry' \in [Keys -> Nat] /\ \A k \in Keys : registry[k] \in Nat
        /\ "fetched" \in Keys /\ "succeeded" \in Keys /\ "failed" \in Keys
        /\ "last_success" \in Keys
    BY <1>1, <1>2, <1>3, KeysAre DEF Counters
  <2>2. /\ todo \in CallsOfARun /\ todo \notin Unfinished
        /\ todo' \notin CallsOfARun /\ todo' \in Unfinished
        /\ todo' # <<"last_success">>
    BY <1>3, StagesDiffer
  <2> QED
    BY <1>1, <1>2, <2>1, <2>2, <1>3 DEF LoopInv
<1>4. CASE todo \in Unfinished /\ n = "planned" /\ todo' \in Unfinished
  <2>1. /\ registry'["fetched"] = registry["fetched"]
        /\ registry'["succeeded"] = registry["succeeded"]
        /\ registry'["failed"] = registry["failed"]
        /\ registry'["last_success"] = registry["last_success"]
        /\ registry' \in [Keys -> Nat] /\ \A k \in Keys : registry[k] \in Nat
        /\ "fetched" \in Keys /\ "succeeded" \in Keys /\ "failed" \in Keys
        /\ "last_success" \in Keys
    BY <1>1, <1>2, <1>4, KeysAre DEF Counters
  <2>2. /\ todo \notin CallsOfARun /\ todo \in Unfinished
        /\ todo' \notin CallsOfARun /\ todo' \in Unfinished
        /\ todo' # <<"last_success">>
    BY <1>4, StagesDiffer
  <2> QED
    BY <1>1, <1>2, <2>1, <2>2, <1>4 DEF LoopInv
<1>5. CASE todo \in Unfinished /\ n = "succeeded" /\ todo' = <<"last_success">>
  <2>1. /\ registry'["fetched"] = registry["fetched"]
        /\ registry'["succeeded"] = registry["succeeded"] + 1
        /\ registry'["failed"] = registry["failed"]
        /\ registry'["last_success"] = registry["last_success"]
        /\ registry' \in [Keys -> Nat] /\ \A k \in Keys : registry[k] \in Nat
        /\ "fetched" \in Keys /\ "succeeded" \in Keys /\ "failed" \in Keys
        /\ "last_success" \in Keys
    BY <1>1, <1>2, <1>5, KeysAre DEF Counters
  <2>2. /\ todo \notin CallsOfARun /\ todo \in Unfinished
        /\ todo' \notin CallsOfARun /\ todo' \notin Unfinished
        /\ todo' = <<"last_success">>
    BY <1>5, StagesDiffer
  <2>3. registry["fetched"] = registry["succeeded"] + registry["failed"] + 1
        /\ runs = registry["fetched"] /\ registry["last_success"] <= registry["fetched"]
    BY <1>2, <2>1, <2>2 DEF LoopInv
  <2>4. registry'["fetched"] = registry'["succeeded"] + registry'["failed"]
        /\ runs' = registry'["fetched"] /\ registry'["last_success"] <= registry'["fetched"]
        /\ registry'["succeeded"] > 0
    <3>1. /\ registry["fetched"] \in Nat /\ registry["succeeded"] \in Nat
          /\ registry["failed"] \in Nat /\ registry["last_success"] \in Nat
      BY <2>1
    <3> QED
      BY <1>1, <2>1, <2>3, <3>1
  <2> QED
    BY <1>1, <1>2, <2>1, <2>2, <2>4, <1>5 DEF LoopInv
<1>6. CASE todo \in Unfinished /\ n = "failed" /\ todo' = <<>>
  <2>1. /\ registry'["fetched"] = registry["fetched"]
        /\ registry'["succeeded"] = registry["succeeded"]
        /\ registry'["failed"] = registry["failed"] + 1
        /\ registry'["last_success"] = registry["last_success"]
        /\ registry' \in [Keys -> Nat] /\ \A k \in Keys : registry[k] \in Nat
        /\ "fetched" \in Keys /\ "succeeded" \in Keys /\ "failed" \in Keys
        /\ "last_success" \in Keys
    BY <1>1, <1>2, <1>6, KeysAre DEF Counters
  <2>2. /\ todo \notin CallsOfARun /\ todo \in Unfinished
        /\ todo' \notin CallsOfARun /\ todo' \notin Unfinished
        /\ todo' # <<"last_success">>
    BY <1>6, StagesDiffer
  <2> QED
    BY <1>1, <1>2, <2>1, <2>2, <1>6 DEF LoopInv
<1>7. CASE todo = <<"last_success">> /\ n = "last_success" /\ todo' = <<>>
  <2>1. /\ registry'["fetched"] = registry["fetched"]
        /\ registry'["succeeded"] = registry["succeeded"]
        /\ registry'["failed"] = registry["failed"]
        /\ registry'["last_success"] = runs
        /\ registry' \in [Keys -> Nat] /\ \A k \in Keys : registry[k] \in Nat
        /\ "fetched" \in Keys /\ "succeeded" \in Keys /\ "failed" \in Keys
        /\ "last_success" \in Keys
    BY <1>1, <1>2, <1>7, KeysAre DEF Counters
  <2>2. /\ todo \notin CallsOfARun /\ todo \notin Unfinished
        /\ todo' \notin CallsOfARun /\ todo' \notin Unfinished
        /\ todo' # <<"last_success">>
    BY <1>7, StagesDiffer
  <2> QED
    BY <1>1, <1>2, <2>1, <2>2, <1>7 DEF LoopInv
<1> QED
  BY <1>1, <1>3, <1>4, <1>5, <1>6, <1>7, CallsLeft DEF LoopInv

(* The invariant holds at first.                                           *)
LEMMA InitIInv == Init => IInv
<1> SUFFICES ASSUME Init PROVE IInv
  OBVIOUS
<1>1. LoopInv
  BY KeysAre, StagesDiffer DEF Init, LoopInv
<1>2. Shape
  BY KeysAre DEF Init, Shape
<1>3. \A s \in Scrapers : PageInv(s)
  BY DEF Init, PageInv
<1> QED
  BY <1>1, <1>2, <1>3 DEF IInv

(* Every step keeps it: nobody changes the registry while a page is being  *)
(* written.                                                                *)
LEMMA NextIInv == IInv /\ [Next]_vars => IInv'
<1> SUFFICES ASSUME IInv, [Next]_vars PROVE IInv'
  OBVIOUS
<1> USE DEF IInv
<1>0. \A s \in Scrapers : PageInv(s) /\ s # "free"
  BY ScrapersAssumption
<1>1. CASE UNCHANGED vars
  BY <1>1 DEF vars, LoopInv, Shape, PageInv, Coherent
<1>2. CASE Run
  <2>1. LoopInv'
    <3>1. /\ todo \notin CallsOfARun /\ todo \notin Unfinished
          /\ todo' \in CallsOfARun /\ todo' \notin Unfinished /\ todo' # <<"last_success">>
      BY <1>2, StagesDiffer DEF Run
    <3>2. UNCHANGED registry /\ runs' = runs + 1 /\ \A k \in Keys : registry[k] \in Nat
      BY <1>2 DEF Run, LoopInv
    <3> QED
      BY <3>1, <3>2, KeysAre DEF LoopInv
  <2>2. Shape' /\ \A s \in Scrapers : PageInv(s)'
    BY <1>2 DEF Run, webVars, Shape, PageInv, Coherent
  <2> QED
    BY <2>1, <2>2
<1>3. CASE Call
  <2>1. LoopInv'
    BY <1>3, CallKeepsLoop
  <2>2. Shape' /\ \A s \in Scrapers : PageInv(s)'
    BY <1>0, <1>3 DEF Call, webVars, Shape, PageInv, Coherent
  <2> QED
    BY <2>1, <2>2
<1>4. CASE Close
  BY <1>4 DEF Close, loopVars, webVars, LoopInv, Shape, PageInv, Coherent
<1>5. ASSUME NEW s \in Scrapers, Request(s) \/ Handle(s) \/ Read(s)
      PROVE  IInv'
  <2>1. LoopInv'
    <3>1. UNCHANGED loopVars
      BY <1>5 DEF Request, Handle, Lock, Write, Unlock, Read
    <3> QED
      BY <3>1 DEF loopVars, LoopInv
  <2>2. CASE Request(s)
    <3>1. Shape'
      BY <2>2, KeysAre DEF Request, Shape
    <3>2. \A t \in Scrapers : PageInv(t)'
      BY <2>2 DEF Request, loopVars, PageInv, Coherent, Shape
    <3> QED
      BY <2>1, <3>1, <3>2
  <2>3. CASE Lock(s)
    <3>1. Shape'
      BY <2>3 DEF Lock, Shape, Keys
    <3>2. \A t \in Scrapers : PageInv(t)'
      BY <1>0, <2>3 DEF Lock, loopVars, PageInv, Coherent, Shape, Keys
    <3> QED
      BY <2>1, <3>1, <3>2
  <2>4. CASE Write(s)
    <3>1. PICK n \in left[s] : /\ left' = [left EXCEPT ![s] = @ \ {n}]
                               /\ page' = [page EXCEPT ![s][n] = registry[n]]
      BY <2>4 DEF Write
    <3>2. n \in Keys /\ registry[n] \in Nat
      BY <3>1 DEF Shape, LoopInv
    <3>3. Shape'
      BY <2>4, <3>1, <3>2 DEF Write, Shape
    <3>4. /\ page'[s] = [page[s] EXCEPT ![n] = registry[n]] /\ left'[s] = left[s] \ {n}
          /\ \A t \in Scrapers \ {s} : page'[t] = page[t] /\ left'[t] = left[t]
          /\ UNCHANGED <<registry, mu, handler>>
      BY <2>4, <3>1 DEF Write, loopVars, Shape
    <3>5. PageInv(s)'
      <4>1. handler[s] = "writing"
        BY <2>4 DEF Write
      <4>2. \A m \in Keys \ left'[s] : page'[s][m] = registry[m]
        BY <3>2, <3>4, <4>1 DEF PageInv, Shape
      <4> QED
        BY <3>4, <4>1, <4>2 DEF PageInv
    <3>6. \A t \in Scrapers \ {s} : PageInv(t)'
      BY <3>4 DEF PageInv, Coherent
    <3> QED
      BY <2>1, <3>3, <3>5, <3>6
  <2>5. CASE Unlock(s)
    <3>1. Shape'
      BY <2>5 DEF Unlock, Shape
    <3>2. /\ handler[s] = "writing" /\ left[s] = {} /\ mu = s
          /\ handler' = [handler EXCEPT ![s] = "done"]
          /\ UNCHANGED <<registry, left, page>>
      BY <2>5 DEF Unlock, loopVars, PageInv
    <3>3. page[s] = registry
      BY <3>2 DEF PageInv, Shape, LoopInv
    <3>4. PageInv(s)'
      BY <3>2, <3>3, RegistryCoherent DEF PageInv, Shape, Coherent
    <3>5. \A t \in Scrapers \ {s} : PageInv(t)'
      BY <1>0, <3>2 DEF PageInv, Shape, Coherent
    <3> QED
      BY <2>1, <3>1, <3>4, <3>5
  <2>6. CASE Read(s)
    BY <2>1, <2>6 DEF Read, loopVars, Shape, PageInv, Coherent
  <2> QED
    BY <1>5, <2>2, <2>3, <2>4, <2>5, <2>6 DEF Handle
<1> QED
  BY <1>1, <1>2, <1>3, <1>4, <1>5 DEF Next

(* No client is ever shown a page that mixes two moments: see              *)
(* PageIsCoherent.                                                         *)
THEOREM PagesAreCoherent == Spec => []PageIsCoherent
<1>1. IInv => PageIsCoherent
  BY DEF IInv, PageInv, PageIsCoherent, Coherent
<1> QED
  BY <1>1, InitIInv, NextIInv, PTL DEF Spec
=============================================================================
