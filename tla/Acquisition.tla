------------------------------ MODULE Acquisition ------------------------------
(***************************************************************************)
(* Overlapping requests for one remote source (data-acquisition):          *)
(* executeRest looks into the cache, waits for the rate limiter before     *)
(* every page and collects the pages; httpFetch repeats a failed attempt   *)
(* without asking the limiter again.                                       *)
(*                                                                         *)
(* Time passes in ticks of half a second.  Of a result the model keeps the *)
(* number of pages it is made of.                                          *)
(***************************************************************************)
EXTENDS Integers, FiniteSets

CONSTANTS
  Calls,
  Sources,     \* [kind, pages, short, cyclic, cached, itemsPath]
  Policies,    \* [min, max, window]; max = 0: no window
  MaxPages,
  Attempts,
  RetryAfter   \* what a server asks for

ASSUME AttemptsAssumption == MaxPages \in Nat \ {0} /\ Attempts \in Nat \ {0} /\ RetryAfter \in Nat
ASSUME SourcesAssumption ==
  /\ Sources \subseteq [kind : {"none", "next-link", "page-number"}, pages : Nat \ {0},
                        short : BOOLEAN, cyclic : BOOLEAN, cached : BOOLEAN, itemsPath : STRING]
  /\ \A s \in Sources : s.cyclic => s.kind = "next-link"
ASSUME PoliciesAssumption == Policies \subseteq [min : Nat, max : Nat, window : Nat]

VARIABLES
  source, policy,
  cache,   \* {} or {pages}
  call,
  gap,     \* time since lastAt, up to policy.min
  age,     \* time since windowStart, up to policy.window
  count,   \* windowCount
  sent,    \* the last request: how long ago, up to policy.min, and whether it was a retry
  lost     \* history: a page that failed has been left out

bucket == <<gap, age, count>>
vars == <<source, policy, cache, call, bucket, sent, lost>>
-----------------------------------------------------------------------------
Paginated == source.kind # "none"
Idle == [pc |-> "idle", wake |-> 0, slots |-> 0, pages |-> 0, try |-> 0,
         overtaken |-> FALSE, hit |-> FALSE, items |-> 0]

\* A new bucket has waited long enough.
Init ==
  /\ source \in Sources /\ policy \in Policies
  /\ cache = {}
  /\ call = [c \in Calls |-> Idle]
  /\ gap = policy.min /\ age = policy.window /\ count = 0
  /\ sent = [since |-> policy.min, retry |-> FALSE]
  /\ lost = FALSE
-----------------------------------------------------------------------------
(***************************************************************************)
(* The cache.                                                              *)
(***************************************************************************)
\* A cached result of several pages is {items, lastPage}: itemsPath, meant for a
\* page, finds the items in it only by accident.
Misread     == -1
Reprojected == Paginated /\ source.itemsPath # "items"

Hit(c) ==
  /\ source.cached /\ cache # {}
  /\ \E n \in cache : call' = [call EXCEPT ![c] = [Idle EXCEPT !.pc = "ok", !.hit = TRUE,
                                                  !.items = IF Reprojected THEN Misread ELSE n]]

\* Before the first of several pages the limiter is asked twice.
Miss(c) ==
  /\ ~(source.cached /\ cache # {})
  /\ call' = [call EXCEPT ![c].pc = "acquire", ![c].slots = IF Paginated THEN 2 ELSE 1]

Lookup(c) ==
  /\ call[c].pc = "idle"
  /\ Hit(c) \/ Miss(c)
  /\ UNCHANGED <<source, policy, cache, bucket, sent, lost>>
-----------------------------------------------------------------------------
(***************************************************************************)
(* The limiter: acquire(), from one sleep to the next.                     *)
(***************************************************************************)
Sleep(c, pc, time) ==
  /\ call' = [call EXCEPT ![c].pc = pc, ![c].wake = time]
  /\ UNCHANGED <<gap, sent>>

\* acquire() returns, having found n in the window.  Those who sleep computed their
\* time before.
Grant(c, n) ==
  LET again == call[c].slots = 2 IN
  /\ gap' = 0 /\ count' = n + 1
  /\ call' = [d \in Calls |->
       IF d = c THEN IF again THEN [call[c] EXCEPT !.pc = "acquire", !.slots = 1, !.overtaken = FALSE]
                     ELSE [call[c] EXCEPT !.pc = "request", !.try = 1, !.overtaken = FALSE]
       ELSE IF call[d].pc \in {"window", "interval"} THEN [call[d] EXCEPT !.overtaken = TRUE]
       ELSE call[d]]
  /\ sent' = IF again THEN sent ELSE [since |-> 0, retry |-> FALSE]

\* Mutant of Interval: the time to wait is not what is left but nothing.
IntervalSkipped(c, n) == Grant(c, n)

Interval(c, n) ==
  \/ gap = policy.min /\ Grant(c, n)
  \/ gap < policy.min /\ count' = n /\ Sleep(c, "interval", policy.min - gap)

Acquire(c) ==
  LET expired == age = policy.window
      n == IF policy.max > 0 /\ expired THEN 0 ELSE count
  IN
  /\ call[c].pc = "acquire"
  /\ age' = IF policy.max > 0 /\ expired THEN 0 ELSE age
  /\ \/ policy.max > 0 /\ n >= policy.max /\ count' = n /\ Sleep(c, "window", policy.window - age)
     \/ ~(policy.max > 0 /\ n >= policy.max) /\ Interval(c, n)
  /\ UNCHANGED <<source, policy, cache, lost>>

\* Whoever wakes up opens a window of its own.
WakeWindow(c) ==
  /\ call[c].pc = "window" /\ call[c].wake = 0
  /\ age' = 0
  /\ Interval(c, 0)
  /\ UNCHANGED <<source, policy, cache, lost>>

WakeInterval(c) ==
  /\ call[c].pc = "interval" /\ call[c].wake = 0
  /\ Grant(c, count)
  /\ UNCHANGED <<source, policy, cache, age, lost>>
-----------------------------------------------------------------------------
(***************************************************************************)
(* Requests and pages.                                                     *)
(***************************************************************************)
Finish(c, n) ==
  /\ call' = [call EXCEPT ![c] = [Idle EXCEPT !.pc = "ok", !.items = n]]
  /\ cache' = IF source.cached THEN {n} ELSE cache

GiveUp(c) ==
  /\ call' = [call EXCEPT ![c] = [Idle EXCEPT !.pc = "failed"]]
  /\ UNCHANGED cache

NextPage(c, n) ==
  /\ call' = [call EXCEPT ![c] = [Idle EXCEPT !.pc = "acquire", !.slots = 1, !.pages = n]]
  /\ UNCHANGED cache

\* Mutant of More: a link is followed whatever the number of pages.
MoreLinks(n) ==
  \/ source.kind = "next-link" /\ (n < source.pages \/ source.cyclic)
  \/ source.kind = "page-number" /\ n < MaxPages /\ ~(source.short /\ n = source.pages)

\* After n pages there is another one to ask for.
More(n) ==
  /\ n < MaxPages
  /\ \/ source.kind = "next-link" /\ (n < source.pages \/ source.cyclic)
     \/ source.kind = "page-number" /\ ~(source.short /\ n = source.pages)

\* The pages a complete result is made of.
All == IF ~Paginated THEN 1 ELSE IF source.cyclic \/ source.pages > MaxPages THEN MaxPages
       ELSE source.pages

\* httpFetch returns the next page; the page after the last one is empty.
Arrived(c) ==
  LET n == call[c].pages + 1 IN
  /\ \/ source.kind = "page-number" /\ n > source.pages /\ Finish(c, n - 1)
     \/ ~(source.kind = "page-number" /\ n > source.pages) /\ More(n) /\ NextPage(c, n)
     \/ ~(source.kind = "page-number" /\ n > source.pages) /\ ~More(n) /\ Finish(c, n)
  /\ UNCHANGED <<sent, lost>>

\* Mutant of Failed: no kind of pagination reports a failed page.
FailedSilently(c) ==
  /\ \/ ~Paginated /\ GiveUp(c) /\ UNCHANGED lost
     \/ Paginated /\ Finish(c, call[c].pages) /\ lost' = TRUE
  /\ UNCHANGED sent

\* httpFetch returns an error: page-number and offset loops end as if it had been the
\* last page.
Failed(c) ==
  /\ \/ source.kind # "page-number" /\ GiveUp(c) /\ UNCHANGED lost
     \/ source.kind = "page-number" /\ Finish(c, call[c].pages) /\ lost' = TRUE
  /\ UNCHANGED sent

\* A body that is not JSON: the call throws.
Unreadable(c) == GiveUp(c) /\ UNCHANGED <<sent, lost>>

\* 429, 5xx or a network error.
Backoff(c) ==
  /\ call[c].try < Attempts
  /\ \E time \in {2 ^ (call[c].try - 1), RetryAfter} :
       call' = [call EXCEPT ![c].pc = "backoff", ![c].wake = time]
  /\ UNCHANGED <<cache, sent, lost>>

Response(c) ==
  /\ call[c].pc = "request"
  /\ Arrived(c) \/ Failed(c) \/ Unreadable(c) \/ Backoff(c)
  /\ UNCHANGED <<source, policy, bucket>>

\* Mutant of Retry: attempts are not counted.
RetryForever(c) ==
  /\ call[c].pc = "backoff" /\ call[c].wake = 0
  /\ call' = [call EXCEPT ![c].pc = "request"]
  /\ sent' = [since |-> 0, retry |-> TRUE]
  /\ UNCHANGED <<source, policy, cache, bucket, lost>>

\* The next attempt does not go through the limiter.
Retry(c) ==
  /\ call[c].pc = "backoff" /\ call[c].wake = 0
  /\ call' = [call EXCEPT ![c].pc = "request", ![c].try = @ + 1]
  /\ sent' = [since |-> 0, retry |-> TRUE]
  /\ UNCHANGED <<source, policy, cache, bucket, lost>>
-----------------------------------------------------------------------------
UpTo(time, limit) == IF time < limit THEN time + 1 ELSE limit

\* A timer fires when its time has come, or later.
Tick ==
  /\ call' = [c \in Calls |-> [call[c] EXCEPT !.wake = IF @ > 0 THEN @ - 1 ELSE 0]]
  /\ gap' = UpTo(gap, policy.min) /\ age' = UpTo(age, policy.window)
  /\ sent' = [sent EXCEPT !.since = UpTo(@, policy.min)]
  /\ UNCHANGED <<source, policy, cache, count, lost>>

Step(c) ==
  \/ Acquire(c) \/ WakeWindow(c) \/ WakeInterval(c)
  \/ Response(c) \/ Retry(c)

Next == Tick \/ \E c \in Calls : Lookup(c) \/ Step(c)

\* Timers fire, and every request is answered or fails.
Fairness == WF_vars(Tick) /\ \A c \in Calls : WF_vars(Step(c))

Spec == Init /\ [][Next]_vars /\ Fairness
-----------------------------------------------------------------------------
(***************************************************************************)
(* Properties                                                              *)
(***************************************************************************)
TypeOK ==
  /\ source \in Sources /\ policy \in Policies
  /\ cache \subseteq 0..MaxPages /\ Cardinality(cache) <= 1
  /\ \A c \in Calls :
       /\ call[c].pc \in {"idle", "acquire", "window", "interval", "request", "backoff", "ok", "failed"}
       /\ call[c].wake \in Nat /\ call[c].slots \in 0..2
       /\ call[c].pages \in 0..(MaxPages - 1) /\ call[c].try \in 0..Attempts
       /\ call[c].overtaken \in BOOLEAN /\ call[c].hit \in BOOLEAN
       /\ call[c].items \in 0..MaxPages \cup {Misread}
  /\ gap \in 0..policy.min /\ age \in 0..policy.window /\ count \in Nat
  /\ sent.since \in 0..policy.min /\ sent.retry \in BOOLEAN /\ lost \in BOOLEAN

\* The host's policy is kept, whatever call asks: a request follows another one after
\* the minimum interval and within the window's number, unless that one was a retry,
\* or another call was released while this one slept.
LimitsKept ==
  [][\A c \in Calls :
       (call[c].pc \in {"acquire", "window", "interval"} /\ call'[c].pc = "request") =>
         \/ call[c].overtaken
         \/ /\ sent.since = policy.min \/ sent.retry
            /\ policy.max > 0 => count' <= policy.max]_vars

\* What a call reports as a success has all the pages, from the cache as well,
\* unless a numbered page failed, now or when the cache was filled, or the cached
\* pages are searched for items as if they were a single one.
AnswersAreComplete ==
  \A c \in Calls : call[c].pc = "ok" =>
    \/ call[c].items = All
    \/ source.kind = "page-number" /\ lost
    \/ call[c].hit /\ Reprojected

\* A call ends, though every page fail several times and links lead in circles.
CallsEnd ==
  \A c \in Calls : call[c].pc = "acquire" ~> call[c].pc \in {"ok", "failed"}
=============================================================================
