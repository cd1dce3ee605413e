---------------------------- MODULE TermDelivery ----------------------------
(***************************************************************************)
(* How a term gets from content-service's bank to a player: the cache in   *)
(* front of the GetById call (infrastructure/grpc_term_repository.py), the *)
(* consumer that evicts from it (term_cache_invalidator.py), and the bank  *)
(* they read from and listen to (TermBank).                                *)
(*                                                                         *)
(* One process of game-service serves any number of lookups.  A lookup is  *)
(* a coroutine that only waits for the RPC, so what it does before and     *)
(* after the RPC is one step each.  On the other side, GetById selects the *)
(* term's row and then its child rows in statements of their own, each of  *)
(* which sees what is committed by then: a copy has two parts.             *)
(***************************************************************************)
EXTENDS TermBank

CONSTANTS
  Lookup,       \* coroutines that may be in by_id at the same time
  TTL,          \* CACHE_TTL_SECONDS, in ticks
  RpcTicks,     \* bound on the ticks an RPC takes; the code sets none
  MaxFailures,  \* bound on failing RPCs
  MaxRestarts   \* bound on restarts of game-service

ASSUME TermDeliveryConstants ==
  /\ TTL \in Nat \ {0}
  /\ {RpcTicks, MaxFailures, MaxRestarts} \subseteq Nat

VARIABLES
  entries,   \* _cache: for each term the copy held, and its age
  offset,    \* how many events the consumer has taken
  step,      \* where each lookup stands
  wanted,    \* the term it is after
  cached,    \* cached: the copy it found when it started
  reply,     \* what the server has read for it
  lag,       \* ticks since it called the server
  answer,    \* what it returned
  failures, restarts,
  gone       \* history: ticks since each version was replaced, up to Forgotten

cache  == <<entries, offset>>
lookup == <<step, wanted, cached, reply, lag, answer>>
faults == <<failures, restarts>>
vars   == <<bank, cache, lookup, faults, gone>>

Version   == Req \cup {NoTerm}
Copy      == [row : Version, children : Version]
Whole(v)  == [row |-> v, children |-> v]
Nothing   == Whole(NoTerm)
Entry     == [term : Copy, age : 0..TTL]
NoEntry   == [term |-> Nothing, age |-> 0]
Via       == {"cache", "reply", "fallback"}
Answer    == [term : Copy, via : Via]
NoAnswer  == [term |-> Nothing, via |-> "reply"]
Forgotten == TTL + RpcTicks + 1

TypeOK ==
  /\ BankTypeOK
  /\ entries \in [TermId -> Entry]
  /\ offset \in 0..Len(topic)
  /\ step \in [Lookup -> {"idle", "called", "row", "sent", "done"}]
  /\ wanted \in [Lookup -> TermId]
  /\ cached \in [Lookup -> Copy]
  /\ reply \in [Lookup -> Copy]
  /\ \A l \in Lookup : step[l] = "sent" /\ reply[l] # Nothing
                         => NoTerm \notin {reply[l].row, reply[l].children}
  /\ lag \in [Lookup -> 0..RpcTicks]
  /\ answer \in [Lookup -> Answer]
  /\ failures \in 0..MaxFailures
  /\ restarts \in 0..MaxRestarts
  /\ gone \in [Req -> 0..Forgotten]

Init ==
  /\ BankInit
  /\ entries = [t \in TermId |-> NoEntry]
  /\ offset = 0
  /\ step = [l \in Lookup |-> "idle"]
  /\ wanted \in [Lookup -> TermId]
  /\ cached = [l \in Lookup |-> Nothing]
  /\ reply = [l \in Lookup |-> Nothing]
  /\ lag = [l \in Lookup |-> 0]
  /\ answer = [l \in Lookup |-> NoAnswer]
  /\ failures = 0
  /\ restarts = 0
  /\ gone = [q \in Req |-> 0]

InFlight(l) == step[l] \in {"called", "row", "sent"}

Go(l, from, to) == step[l] = from /\ step' = [step EXCEPT ![l] = to]

\* by_id returns; its locals are gone.
Return(l, from, term, via) ==
  /\ Go(l, from, "done")
  /\ answer' = [answer EXCEPT ![l] = [term |-> term, via |-> via]]
  /\ cached' = [cached EXCEPT ![l] = Nothing]
  /\ reply' = [reply EXCEPT ![l] = Nothing]
  /\ lag' = [lag EXCEPT ![l] = 0]

-----------------------------------------------------------------------------
(* by_id.                                                                  *)

\* Mutant of Fresh: an entry is good until it is evicted.
FreshForever(t) == entries[t].term # Nothing

Fresh(t) == entries[t].term # Nothing /\ entries[t].age < TTL

Hit(l, t) ==
  /\ Fresh(t)
  /\ Return(l, "idle", entries[t].term, "cache")
  /\ wanted' = [wanted EXCEPT ![l] = t]
  /\ UNCHANGED <<bank, cache, faults, gone>>

Miss(l, t) ==
  /\ ~Fresh(t)
  /\ Go(l, "idle", "called")
  /\ wanted' = [wanted EXCEPT ![l] = t]
  /\ cached' = [cached EXCEPT ![l] = entries[t].term]
  /\ UNCHANGED <<bank, cache, reply, lag, answer, faults, gone>>

\* The server selects the term's row; without one there is no more to select.
SelectRow(l) ==
  /\ Go(l, "called", IF terms[wanted[l]] = NoTerm THEN "sent" ELSE "row")
  /\ reply' = [reply EXCEPT ![l].row = terms[wanted[l]]]
  /\ UNCHANGED <<bank, cache, wanted, cached, lag, answer, faults, gone>>

\* selectinload: the child rows of the version committed by now.
SelectChildren(l) ==
  /\ Go(l, "row", "sent")
  /\ reply' = [reply EXCEPT ![l].children = terms[wanted[l]]]
  /\ UNCHANGED <<bank, cache, wanted, cached, lag, answer, faults, gone>>

\* The reply is in: a term that was found is cached as of now, whatever has
\* been evicted or cached since the call.
Receive(l) ==
  /\ Return(l, "sent", reply[l], "reply")
  /\ entries' = IF reply[l] = Nothing THEN entries
                ELSE [entries EXCEPT ![wanted[l]] = [term |-> reply[l], age |-> 0]]
  /\ UNCHANGED <<bank, offset, wanted, faults, gone>>

\* Mutant of Fail: the fallback goes back into the cache as if it were new.
FailRenews(l) ==
  /\ failures < MaxFailures
  /\ failures' = failures + 1
  /\ \E from \in {"called", "row", "sent"} : Return(l, from, cached[l], "fallback")
  /\ entries' = [entries EXCEPT ![wanted[l]] = [term |-> cached[l], age |-> 0]]
  /\ UNCHANGED <<bank, offset, wanted, restarts, gone>>

\* AioRpcError: what was cached when the lookup started, however old.
Fail(l) ==
  /\ failures < MaxFailures
  /\ failures' = failures + 1
  /\ \E from \in {"called", "row", "sent"} : Return(l, from, cached[l], "fallback")
  /\ UNCHANGED <<bank, cache, wanted, restarts, gone>>

\* The caller has used the answer.
Finish(l) ==
  /\ Go(l, "done", "idle")
  /\ answer' = [answer EXCEPT ![l] = NoAnswer]
  /\ UNCHANGED <<bank, cache, wanted, cached, reply, lag, faults, gone>>

-----------------------------------------------------------------------------
(* The consumer of terms.published, the clock, and restarts.               *)

\* Mutant of Invalidate: the position moves on by one too many.
InvalidateSkips ==
  /\ offset < Len(topic)
  /\ offset' = offset + 2
  /\ entries' = [entries EXCEPT ![topic[offset + 1].term_id] = NoEntry]
  /\ UNCHANGED <<bank, lookup, faults, gone>>

Invalidate ==
  /\ offset < Len(topic)
  /\ offset' = offset + 1
  /\ entries' = [entries EXCEPT ![topic[offset + 1].term_id] = NoEntry]
  /\ UNCHANGED <<bank, lookup, faults, gone>>

Live(q) == \E t \in TermId : terms[t] = q

Older(n, max) == IF n < max THEN n + 1 ELSE max

Tick ==
  /\ \A l \in Lookup : InFlight(l) => lag[l] < RpcTicks
  /\ entries' = [t \in TermId |->
       IF entries[t].term = Nothing THEN NoEntry
       ELSE [entries[t] EXCEPT !.age = Older(@, TTL)]]
  /\ lag' = [l \in Lookup |-> IF InFlight(l) THEN lag[l] + 1 ELSE lag[l]]
  /\ gone' = [q \in Req |-> IF q \in Committed /\ Publishes(q) /\ ~Live(q)
                            THEN Older(gone[q], Forgotten) ELSE gone[q]]
  /\ UNCHANGED <<bank, offset, step, wanted, cached, reply, answer, faults>>

\* The cache and the lookups die with the process.  The consumer's next
\* incarnation starts where its group committed last (auto-commit lags
\* behind), or, if it never did, after the latest event.
Restart ==
  /\ restarts < MaxRestarts
  /\ restarts' = restarts + 1
  /\ entries' = [t \in TermId |-> NoEntry]
  /\ offset' \in 0..offset \cup {Len(topic)}
  /\ step' = [l \in Lookup |-> "idle"]
  /\ cached' = [l \in Lookup |-> Nothing]
  /\ reply' = [l \in Lookup |-> Nothing]
  /\ lag' = [l \in Lookup |-> 0]
  /\ answer' = [l \in Lookup |-> NoAnswer]
  /\ UNCHANGED <<bank, wanted, failures, gone>>

-----------------------------------------------------------------------------
\* What goes on by itself once a lookup has called the server.
Serve(l) == SelectRow(l) \/ SelectChildren(l) \/ Receive(l)

Next ==
  \/ BankNext /\ UNCHANGED <<cache, lookup, faults, gone>>
  \/ \E l \in Lookup : Serve(l) \/ Fail(l) \/ Finish(l)
  \/ \E l \in Lookup, t \in TermId : Hit(l, t) \/ Miss(l, t)
  \/ Invalidate
  \/ Tick
  \/ Restart

Spec == Init /\ [][Next]_vars

\* Time passes and calls are answered.  Nothing is asked of the bank, of the
\* broker or of the consumer: freshness must not depend on them.
Fairness == WF_vars(Tick) /\ \A l \in Lookup : WF_vars(Serve(l))

FairSpec == Spec /\ Fairness

-----------------------------------------------------------------------------
(* Properties.                                                             *)

Returns(l) == step[l] # "done" /\ step'[l] = "done"

Parts(copy) == {copy.row, copy.children} \ {NoTerm}

\* Unless the RPC failed, no part of what a lookup returns was replaced longer
\* ago than an RPC takes plus the TTL, whether its event was lost, came too
\* early or met a reply on its way (GrpcTermRepository.by_id; "the 300s TTL
\* as a correctness backstop", ADR-0011).
StaleBounded ==
  [][\A l \in Lookup : (Returns(l) /\ answer'[l].via # "fallback") =>
       \A v \in Parts(answer'[l].term) : gone[v] < TTL + RpcTicks]_vars

\* Once nobody publishes any more and the server answers, every lookup ends up
\* with the live version, and all of it: a stale or torn copy is not kept alive
\* by being used (by_id, CACHE_TTL_SECONDS).
EventuallyFresh ==
  <>[][\A l \in Lookup : Returns(l) =>
         answer'[l].term = Whole(terms[wanted'[l]])]_vars
=============================================================================
