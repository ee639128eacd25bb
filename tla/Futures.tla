------------------------------- MODULE Futures -------------------------------
(***************************************************************************)
(* The combinators of async/future.h (then, on_error, finally,             *)
(* with_timeout) and Promise::sequential (async/promise.h): each hangs a   *)
(* reaction on a promise, which the dispatcher task runs once the promise  *)
(* is resolved and which resolves, or not yet, the promise that was        *)
(* returned.                                                               *)
(*                                                                         *)
(* Promises are what OneShot says: the first outcome stays, and each       *)
(* reaction on a resolved promise runs once, in any order.  The dispatcher *)
(* runs them one at a time; the task of SystemTimer runs beside it, and so *)
(* the two parties to with_timeout test the promise and then resolve it in *)
(* two steps.  Handlers return any future that does not wait for their own *)
(* result.                                                                 *)
(***************************************************************************)
EXTENDS Naturals, FiniteSets

CONSTANTS MaxPromises,    (* bound: the promises ever made                  *)
          MaxSteps,       (* bound: has_next_fn says no after that many     *)
          Values, Failed, Pending,
          None

Promises == 1..MaxPromises
Outcomes == Values \cup {Failed}

ASSUME FuturesAssumption ==
  /\ MaxPromises \in Nat
  /\ MaxSteps \in Nat \ {0}
  /\ Failed \notin Values
  /\ Pending \notin Outcomes
  /\ None \notin Promises

VARIABLES
  made,      (* how many promises exist: 1..made                            *)
  outcome,   (* per promise                                                 *)
  by,        (* per promise: the combinator it comes from, and what it is on*)
  via,       (* per promise: the future its handler returned last, or None  *)
  calls,     (* per promise: how often its handler was called               *)
  hung,      (* the reactions that are to run                               *)
  tested,    (* the reaction of with_timeout past its test, or None         *)
  timers,    (* per promise: its timer is "none", "armed" or "gone" off     *)
  expiring   (* the one it is about to reject, past its test, or None       *)

futuresVars == <<made, outcome, by, via, calls, hung, tested, timers, expiring>>
tree == <<made, by>>
timerTask == <<timers, expiring>>

Kinds == {"then", "then_future", "on_error", "finally", "with_timeout", "sequential"}

FuturesInit ==
  /\ made = 0
  /\ outcome = [p \in Promises |-> Pending]
  /\ by = [p \in Promises |-> [kind |-> "source", on |-> None]]
  /\ via = [p \in Promises |-> None]
  /\ calls = [p \in Promises |-> 0]
  /\ hung = {}
  /\ tested = None
  /\ timers = [p \in Promises |-> "none"]
  /\ expiring = None

Reaction(kind, on, to) == [kind |-> kind, on |-> on, to |-> to]

\* set_success and set_error: the first one decides.
Settle(p, o) ==
  outcome' = IF outcome[p] = Pending THEN [outcome EXCEPT ![p] = o] ELSE outcome

(***************************************************************************)
(* What tasks and handlers do at any time.                                 *)
(***************************************************************************)
Create ==
  /\ made < MaxPromises
  /\ made' = made + 1
  /\ UNCHANGED <<outcome, by, via, calls, hung, tested, timerTask>>

Resolve(p, o) ==
  /\ p <= made
  /\ by[p].kind = "source"
  /\ outcome[p] = Pending
  /\ Settle(p, o)
  /\ UNCHANGED <<tree, via, calls, hung, tested, timerTask>>

\* A combinator applied to p: a promise is made, and the reaction registered.
\* with_timeout goes on without a timer if SystemTimer cannot start its task.
Chain(kind, p) ==
  /\ p <= made
  /\ made < MaxPromises
  /\ made' = made + 1
  /\ by' = [by EXCEPT ![made'] = [kind |-> kind, on |-> p]]
  /\ hung' = hung \cup {Reaction(kind, p, made')}
  /\ \/ kind = "with_timeout" /\ timers' = [timers EXCEPT ![made'] = "armed"]
     \/ UNCHANGED timers
  /\ UNCHANGED <<outcome, via, calls, tested, expiring>>

(***************************************************************************)
(* The dispatcher task runs the reactions.                                 *)
(***************************************************************************)
Due(r) ==
  /\ tested = None
  /\ outcome[r.on] # Pending

Waits(p) == {by[p].on, via[p]} \ {None}

\* The futures a handler on the way to p may return.
Returnable(p) ==
  {ret \in 1..made : \E S \in SUBSET Promises :
     ret \in S /\ p \notin S /\ \A x \in S : Waits(x) \subseteq S}

Called(r) == calls' = [calls EXCEPT ![r.to] = @ + 1]

\* then() with a handler that returns a value.
RunThen(r) ==
  /\ Due(r)
  /\ r.kind = "then"
  /\ hung' = hung \ {r}
  /\ IF outcome[r.on] = Failed
       THEN Settle(r.to, Failed) /\ UNCHANGED calls
       ELSE Called(r) /\ \E v \in Values : Settle(r.to, v)
  /\ UNCHANGED <<tree, via, tested, timerTask>>

\* The handler returns a future, and the promise is to follow it.
Follow(r, kind) ==
  /\ Called(r)
  /\ \E ret \in Returnable(r.to) :
       /\ via' = [via EXCEPT ![r.to] = ret]
       /\ hung' = (hung \ {r}) \cup {Reaction(kind, ret, r.to)}
  /\ UNCHANGED outcome

\* Passes the outcome on.
Pass(r) ==
  /\ Settle(r.to, outcome[r.on])
  /\ hung' = hung \ {r}
  /\ UNCHANGED <<calls, via>>

\* then() with a handler that returns a future.
RunThenFuture(r) ==
  /\ Due(r)
  /\ r.kind = "then_future"
  /\ IF outcome[r.on] = Failed THEN Pass(r) ELSE Follow(r, "relay")
  /\ UNCHANGED <<tree, tested, timerTask>>

\* on_error(); a handler without a result returns the future it is given.
RunOnError(r) ==
  /\ Due(r)
  /\ r.kind = "on_error"
  /\ IF outcome[r.on] = Failed THEN Follow(r, "relay") ELSE Pass(r)
  /\ UNCHANGED <<tree, tested, timerTask>>

\* Passes the outcome of outer_future, which the callback has at hand as well.
RunRelayOuter(r) ==
  /\ Due(r)
  /\ r.kind = "relay"
  /\ Settle(r.to, outcome[by[r.to].on])
  /\ hung' = hung \ {r}
  /\ UNCHANGED <<tree, calls, via, tested, timerTask>>

\* The future that the handler returned is resolved.
RunRelay(r) ==
  /\ Due(r)
  /\ r.kind = "relay"
  /\ Pass(r)
  /\ UNCHANGED <<tree, tested, timerTask>>

\* The promise that finally() makes is dropped: it returns the one it is given.
RunFinally(r) ==
  /\ Due(r)
  /\ r.kind = "finally"
  /\ Called(r)
  /\ hung' = hung \ {r}
  /\ UNCHANGED <<tree, outcome, via, tested, timerTask>>

\* _sequential_step that does not ask has_next_fn.
RunSequentialForever(r) ==
  /\ Due(r)
  /\ r.kind = "sequential"
  /\ Follow(r, "sequential")
  /\ UNCHANGED <<tree, tested, timerTask>>

\* _sequential_step that forgets to resolve the sequence after its last step.
RunSequentialLost(r) ==
  /\ Due(r)
  /\ r.kind = "sequential"
  /\ IF calls[r.to] < MaxSteps
       THEN Follow(r, "sequential")
       ELSE hung' = hung \ {r} /\ UNCHANGED <<outcome, calls, via>>
  /\ UNCHANGED <<tree, tested, timerTask>>

\* _sequential_step: the next future, or the last one decides.
RunSequential(r) ==
  /\ Due(r)
  /\ r.kind = "sequential"
  /\ \/ calls[r.to] < MaxSteps /\ Follow(r, "sequential")
     \/ Pass(r)
  /\ UNCHANGED <<tree, tested, timerTask>>

\* with_timeout: `if (result->finished()) return' ...
TestTimeout(r) ==
  /\ Due(r)
  /\ r.kind = "with_timeout"
  /\ hung' = hung \ {r}
  /\ tested' = IF outcome[r.to] = Pending THEN r ELSE None
  /\ UNCHANGED <<tree, outcome, via, calls, timerTask>>

\* ... and then the outcome is passed on, if SystemTimer's task is not faster.
SettleTested ==
  /\ tested # None
  /\ Settle(tested.to, outcome[tested.on])
  /\ tested' = None
  /\ UNCHANGED <<tree, via, calls, hung, timerTask>>

(***************************************************************************)
(* The task of SystemTimer runs the other callback of with_timeout.        *)
(***************************************************************************)
\* `if (!result->finished())' ...
Expire(p) ==
  /\ timers[p] = "armed"
  /\ expiring = None
  /\ timers' = [timers EXCEPT ![p] = "gone"]
  /\ expiring' = IF outcome[p] = Pending THEN p ELSE None
  /\ UNCHANGED <<tree, outcome, via, calls, hung, tested>>

\* ... `result->set_error()'.
SettleExpired ==
  /\ expiring # None
  /\ Settle(expiring, Failed)
  /\ expiring' = None
  /\ UNCHANGED <<tree, via, calls, hung, tested, timers>>

React(r) ==
  \/ RunThen(r)
  \/ RunThenFuture(r)
  \/ RunOnError(r)
  \/ RunRelay(r)
  \/ RunFinally(r)
  \/ RunSequential(r)
  \/ TestTimeout(r)

FuturesNext ==
  \/ Create
  \/ \E p \in Promises :
       \/ \E o \in Outcomes : Resolve(p, o)
       \/ \E kind \in Kinds : Chain(kind, p)
       \/ Expire(p)
  \/ \E r \in hung : React(r)
  \/ SettleTested
  \/ SettleExpired

(***************************************************************************)
(* The dispatcher and SystemTimer run what they have accepted; nobody has  *)
(* to resolve a source.                                                    *)
(***************************************************************************)
Reactions == [kind : Kinds \cup {"relay"}, on : Promises, to : Promises]

FuturesFairness ==
  /\ \A r \in Reactions : WF_futuresVars(r \in hung /\ React(r))
  /\ WF_futuresVars(SettleTested)
  /\ \A p \in Promises : WF_futuresVars(Expire(p))
  /\ WF_futuresVars(SettleExpired)

FuturesSafeSpec == FuturesInit /\ [][FuturesNext]_futuresVars
FuturesSpec == FuturesSafeSpec /\ FuturesFairness

(***************************************************************************)
(* Properties.                                                             *)
(***************************************************************************)
FuturesTypeOK ==
  /\ made \in 0..MaxPromises
  /\ outcome \in [Promises -> Outcomes \cup {Pending}]
  /\ by \in [Promises -> [kind : Kinds \cup {"source"}, on : Promises \cup {None}]]
  /\ via \in [Promises -> Promises \cup {None}]
  /\ calls \in [Promises -> 0..MaxSteps]
  /\ hung \in SUBSET Reactions
  /\ tested \in Reactions \cup {None}
  /\ timers \in [Promises -> {"none", "armed", "gone"}]
  /\ expiring \in Promises \cup {None}

Is(p, kind) == p <= made /\ by[p].kind = kind
On(p) == outcome[by[p].on]
Last(p) == outcome[IF via[p] = None THEN by[p].on ELSE via[p]]

OutcomeFits(p) ==
  /\ Is(p, "then") => (outcome[p] = Failed <=> On(p) = Failed)
  /\ Is(p, "then_future") => On(p) # Pending /\ outcome[p] = Last(p)
  /\ Is(p, "on_error") => On(p) # Pending /\ outcome[p] = Last(p)
  /\ Is(p, "sequential") => outcome[p] = Last(p)
  /\ Is(p, "with_timeout") =>
       outcome[p] = On(p) \/ (outcome[p] = Failed /\ timers[p] = "gone")

HandlerFits(p) ==
  /\ Is(p, "then") \/ Is(p, "then_future") => calls[p] = 1 /\ On(p) \in Values
  /\ Is(p, "on_error") => calls[p] = 1 /\ On(p) = Failed
  /\ Is(p, "finally") => calls[p] = 1 /\ On(p) # Pending

\* Every outcome of a chained promise is accounted for by the promise it hangs
\* on and by the future its handler returned: failures skip then(), successes
\* skip on_error(), a sequence ends as its last step did, and with_timeout fails
\* by itself only if its timer has gone off.  A handler is called at most once
\* and only on its side of the outcome, and a sequence never has two steps under
\* way.
Explained ==
  \A p \in Promises :
    /\ outcome[p] # Pending => OutcomeFits(p)
    /\ calls[p] > 0 => HandlerFits(p)
    /\ Cardinality({r \in hung : r.to = p}) <= 1

\* A chained promise does not stay open when all it waits for is resolved: no
\* reaction is lost between the promise, the handler's future and the dispatcher.
ChainsEnd ==
  <>[](\A p \in 1..made :
         by[p].kind \notin {"source", "finally"} /\ (\A x \in Waits(p) : outcome[x] # Pending)
           => outcome[p] # Pending)

\* A future with a timeout whose timer was accepted ends, even if what it hangs
\* on never does.
TimeoutsEnd == <>[](\A p \in Promises : timers[p] # "none" => outcome[p] # Pending)

\* No future of a combinator stays open for ever without a promise it waits for
\* that is open as well: the relays of then(), on_error() and sequential() are
\* not lost, and the timer of with_timeout needs no promise at all.
FuturesEnd == ChainsEnd /\ TimeoutsEnd
=============================================================================
