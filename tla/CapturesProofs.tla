--------------------------- MODULE CapturesProofs ---------------------------
(***************************************************************************)
(* Captures for any pages, hosts, retry policies and rules.  The host's    *)
(* lock is what makes three of its promises inductive: while a request of  *)
(* ours is out, nothing else is written about that host.                   *)
(***************************************************************************)
EXTENDS Captures, FiniteSetTheorems, TLAPS

\* One request of ours at a host at a time.
Alone ==
  \A j, k \in doing : HostOfJob(j) = HostOfJob(k) => j = k

\* A page was asked for while its host was open, or its probe due, and still is.
Open == \A p \in doing \cap Pages : ~ Refusing(HostOf[p])

\* Once a refresh has begun, every refusal of that host is older than its answer.
Renewing ==
  \A h \in doing \cap Hosts : \A p \in Pages : HostOf[p] = h => rows[p].refused # "after"

\* Where a page waits or is worked on: the sweeps that hold it, a job waiting, a job running.
Holding(p) == {s \in Slots : p \in batch[s]}

InQueue(p) == (IF p \in todo THEN 1 ELSE 0) + (IF p \in doing THEN 1 ELSE 0)

Places(p) == Cardinality(Holding(p)) + InQueue(p)

\* Each of those may still fail once.
Tries ==
  \A p \in Pages :
    rows[p].failures + Places(p) <= PageRetry.max_failures + Cardinality(Slots)

\* `wait` is a function of all pages and hosts.
Waits == DOMAIN wait = Pages \cup Hosts

IInv == StoreOK /\ Waits /\ Alone /\ Open /\ Renewing /\ Tries /\ RefusedByTheRulesHeld

-----------------------------------------------------------------------------
(* Rows.                                                                   *)

\* What a visit changes of a page's row.
LEMMA NotedRow ==
  ASSUME NEW row \in Row, NEW outcome
  PROVE  /\ Noted(row, outcome) \in Row
         /\ outcome # "failed" => Noted(row, outcome).failures = row.failures
         /\ outcome = "failed" => Noted(row, outcome).failures = row.failures + 1
         /\ outcome # "disallowed" => Noted(row, outcome).refused = row.refused
         /\ outcome = "disallowed" => Noted(row, outcome).refused = "after"
<1> DEFINE held == row.held \/ outcome = "ok"
           unasked == row.unasked \/ outcome = "unknown_rules"
           refused == IF outcome = "disallowed" THEN "after" ELSE row.refused
           failures == IF outcome = "failed" THEN row.failures + 1 ELSE row.failures
<1>1. held \in BOOLEAN /\ unasked \in BOOLEAN /\ failures \in Nat
      /\ refused \in {"no", "before", "after"}
  BY DEF Row
<1>2. Noted(row, outcome) = [row EXCEPT !.visited = TRUE, !.held = held, !.unasked = unasked,
                                        !.refused = refused, !.failures = failures]
  BY DEF Noted
<1> HIDE DEF held, unasked, refused, failures
<1>3. /\ Noted(row, outcome) \in Row
      /\ Noted(row, outcome).failures = failures /\ Noted(row, outcome).refused = refused
  BY <1>1, <1>2 DEF Row
<1> QED
  BY <1>3 DEF refused, failures

\* A run stays within its bound, and only a failure lengthens it.
LEMMA CountedRun ==
  ASSUME NEW length \in 0 .. MaxRun, NEW outcome
  PROVE  Counted(length, outcome) \in 0 .. MaxRun
  BY CapturesAssumption DEF Counted

\* What _store leaves of the tables.
LEMMA RecordStore ==
  ASSUME StoreOK, NEW p \in Pages, NEW outcome, Record(p, outcome)
  PROVE  /\ rows' \in [Pages -> Row] /\ run' \in [Hosts -> 0 .. MaxRun] /\ policy' = policy
         /\ rows'[p] = Noted(rows[p], outcome)
         /\ \A q \in Pages \ {p} : rows'[q] = rows[q]
         /\ \A h \in Hosts \ {HostOf[p]} : run'[h] = run[h]
  <1>1. /\ rows' = [rows EXCEPT ![p] = Noted(rows[p], outcome)]
        /\ run' = [run EXCEPT ![HostOf[p]] = Counted(run[HostOf[p]], outcome)]
        /\ policy' = policy
    BY DEF Record
  <1>2. Noted(rows[p], outcome) \in Row /\ HostOf[p] \in Hosts
    BY NotedRow, CapturesAssumption DEF StoreOK
  <1>3. Counted(run[HostOf[p]], outcome) \in 0 .. MaxRun
    BY <1>2, CountedRun DEF StoreOK
  <1> QED
    BY <1>1, <1>2, <1>3 DEF StoreOK

\* A visit that does not fail leaves the breaker of a shut host as it was, but for an answer.
LEMMA DeclineBreaker ==
  ASSUME StoreOK, NEW p \in Pages, Decline(p)
  PROVE  run' = run /\ wait' = wait /\ doing' = doing /\ batch' = batch
<1>1. Verdict(p) \in {"unknown_rules", "disallowed", "refused"}
  BY DEF Decline, Verdict
<1>2. run' = [run EXCEPT ![HostOf[p]] = run[HostOf[p]]] /\ wait' = wait
  BY <1>1 DEF Decline, Record, Counted
<1> QED
  BY <1>2 DEF StoreOK, Decline, Start

\* Nothing of ours is out at the host of a job that starts.
LEMMA StartAlone ==
  ASSUME NEW k \in Pages \cup Hosts, Start(k)
  PROVE  /\ k \in todo /\ todo' = todo \ {k} /\ batch' = batch
         /\ \A j \in doing : HostOfJob(j) # HostOfJob(k)
         /\ published' = published
  BY DEF Start, LockFree, world

-----------------------------------------------------------------------------
(* Places.                                                                 *)

LEMMA HoldingIsFinite ==
  ASSUME NEW p
  PROVE  IsFiniteSet(Holding(p)) /\ Cardinality(Holding(p)) \in Nat
<1>1. Holding(p) \subseteq Slots /\ IsFiniteSet(Slots)
  BY CapturesAssumption DEF Holding
<1> QED
  BY <1>1, FS_Subset, FS_CardinalityType

\* What the counts of one page are.
LEMMA CountsAreNat ==
  ASSUME StoreOK, NEW p \in Pages
  PROVE  /\ rows[p].failures \in Nat /\ PageRetry.max_failures \in Nat
         /\ PageRetry.max_failures > 0
         /\ InQueue(p) \in 0 .. 2 /\ Places(p) \in Nat /\ Cardinality(Slots) \in Nat
<1>1. rows[p].failures \in Nat /\ PageRetry.max_failures \in Nat /\ PageRetry.max_failures > 0
  BY CapturesAssumption DEF StoreOK, Row, Policy
<1>2. InQueue(p) \in 0 .. 2
  BY DEF InQueue
<1>3. Cardinality(Holding(p)) \in Nat /\ Cardinality(Slots) \in Nat
  BY HoldingIsFinite, FS_CardinalityType, CapturesAssumption
<1> QED
  BY <1>1, <1>2, <1>3 DEF Places

\* Nothing reads a sweep's batch but a sweep: the other steps only pass a page on.
LEMMA TriesKept ==
  ASSUME IInv, batch' = batch, NEW q \in Pages,
         rows'[q].failures + InQueue(q)' <= rows[q].failures + InQueue(q),
         rows'[q].failures \in Nat
  PROVE  (rows[q].failures + Places(q) <= PageRetry.max_failures + Cardinality(Slots))'
<1>1. PICK held : held = Cardinality(Holding(q))
  OBVIOUS
<1>2. held \in Nat /\ Cardinality(Slots) \in Nat
  BY <1>1, HoldingIsFinite, FS_CardinalityType, CapturesAssumption
<1>3. Places(q) = held + InQueue(q) /\ Places(q)' = held + InQueue(q)'
  BY <1>1 DEF Places, Holding
<1>4. rows[q].failures \in Nat /\ PageRetry.max_failures \in Nat /\ InQueue(q) \in 0 .. 2
  BY CountsAreNat DEF IInv
<1>5. rows[q].failures + Places(q) <= PageRetry.max_failures + Cardinality(Slots)
  BY DEF IInv, Tries
<1>6. InQueue(q)' \in 0 .. 2
  BY DEF InQueue
<1> QED
  BY <1>2, <1>3, <1>4, <1>5, <1>6

\* A sweep that finds a slot free leaves room for one job of a page waiting besides: the
\* sweeps that hold it and the job that fetches it are in different slots.
LEMMA SweepsHaveRoom ==
  ASSUME IInv, NEW s \in Slots, SweepPages(s), NEW p \in Pages
  PROVE  Places(p)' \in Nat /\ Places(p)' <= Cardinality(Slots) + 1
<1> DEFINE busy == {t \in Slots : batch[t] # {}}
           at == doing \cap Pages
<1>1. /\ batch[s] = {} /\ Cardinality(busy) + Cardinality(at) < Cardinality(Slots)
      /\ UNCHANGED <<todo, doing>>
      /\ \A t \in Slots \ {s} : batch'[t] = batch[t]
  BY DEF SweepPages, SlotFree, IInv, StoreOK
<1>2. busy \subseteq Slots /\ at \subseteq Pages /\ s \notin busy
  BY <1>1
<1>3. IsFiniteSet(busy) /\ IsFiniteSet(at) /\ IsFiniteSet(Slots)
  BY <1>2, CapturesAssumption, FS_Subset
<1>4. /\ Cardinality(busy) \in Nat /\ Cardinality(at) \in Nat /\ Cardinality(Slots) \in Nat
      /\ IsFiniteSet(busy \cup {s}) /\ Cardinality(busy \cup {s}) = Cardinality(busy) + 1
  BY <1>2, <1>3, FS_CardinalityType, FS_AddElement
<1>5. Holding(p)' \subseteq busy \cup {s}
  BY <1>1 DEF Holding
<1>6. Cardinality(Holding(p)') <= Cardinality(busy) + 1 /\ Cardinality(Holding(p)') \in Nat
  BY <1>4, <1>5, FS_Subset, FS_CardinalityType
<1>7. InQueue(p)' <= 1 + Cardinality(at) /\ InQueue(p)' \in 0 .. 2
  <2>1. p \in doing => at # {}
    OBVIOUS
  <2>2. p \in doing => Cardinality(at) >= 1
    BY <1>3, <1>4, <2>1, FS_EmptySet
  <2> QED
    BY <1>1, <1>4, <2>2 DEF InQueue
<1>8. Places(p)' = Cardinality(Holding(p)') + InQueue(p)'
  BY DEF Places
<1> HIDE DEF busy, at
<1> QED
  BY <1>1, <1>4, <1>6, <1>7, <1>8

-----------------------------------------------------------------------------
(* The invariant, action by action.                                        *)

LEMMA InitInv == Init => IInv
<1> SUFFICES ASSUME Init PROVE IInv
  OBVIOUS
<1>1. \A p \in Pages : rows[p] = Unvisited
  BY DEF Init
<1>2. Unvisited \in Row
  BY DEF Unvisited, Row
<1>3. StoreOK
  <2>1. run \in [Hosts -> 0 .. MaxRun]
    BY CapturesAssumption DEF Init
  <2>2. published \in [ArticleHosts -> SUBSET Pages]
    BY CapturesAssumption DEF Init
  <2> QED
    BY <1>2, <2>1, <2>2 DEF Init, StoreOK
<1>4. Waits /\ Alone /\ Open /\ Renewing
  BY DEF Init, Waits, Alone, Open, Renewing
<1>5. Tries
  <2> SUFFICES ASSUME NEW p \in Pages
               PROVE  rows[p].failures + Places(p) <= PageRetry.max_failures + Cardinality(Slots)
    BY DEF Tries
  <2>1. Holding(p) = {} /\ InQueue(p) = 0
    BY DEF Init, Holding, InQueue
  <2>2. Places(p) = 0 /\ rows[p].failures = 0
    BY <1>1, <2>1, FS_EmptySet DEF Places, Unvisited
  <2> QED
    BY <1>3, <2>2, CountsAreNat
<1>6. RefusedByTheRulesHeld
  BY <1>1 DEF RefusedByTheRulesHeld, Unvisited
<1> QED
  BY <1>3, <1>4, <1>5, <1>6 DEF IInv

LEMMA RepublishInv ==
  ASSUME IInv, NEW h \in ArticleHosts, Republish(h)
  PROVE  IInv'
<1>1. UNCHANGED <<policy, rows, run, wait, batch, todo, doing>>
  BY DEF Republish, store, queue
<1>2. published' \in [ArticleHosts -> SUBSET Pages]
  BY CapturesAssumption DEF Republish, IInv, StoreOK
<1> QED
  BY <1>1, <1>2 DEF IInv, StoreOK, Waits, Alone, Open, Renewing, Tries, Places, Holding,
                    InQueue, RefusedByTheRulesHeld, Refusing, Forbids

\* Time opens hosts and never shuts one, and leaves the rules held as they are.
LEMMA TickInv ==
  ASSUME IInv, Tick
  PROVE  IInv'
<1>1. UNCHANGED <<published, rows, run, batch, todo, doing>>
  BY DEF Tick, world, queue
<1>2. \A h \in Hosts : ~ Refusing(h) => ~ Refusing(h)'
  BY <1>1 DEF Tick, Less, Refusing
<1>3. policy' \in [Hosts -> {Unread} \cup RobotsPolicy]
  BY DEF Tick, Less, IInv, StoreOK, RobotsPolicy
<1>4. \A h \in Hosts, p \in Pages : Forbids(h, p) => Forbids(h, p)'
  BY CapturesAssumption DEF Tick, Less, IInv, StoreOK, RobotsPolicy, Forbids
<1>5. Waits'
  BY DEF Waits, Tick
<1>6. \A p \in Pages : HostOf[p] \in Hosts
  BY CapturesAssumption
<1> QED
  BY <1>1, <1>2, <1>3, <1>4, <1>5, <1>6
     DEF IInv, StoreOK, Alone, Open, Renewing, Tries, Places, Holding, InQueue,
         RefusedByTheRulesHeld

\* A sweep picks a page that has a try left, and so room for one more place.
LEMMA SweepPagesInv ==
  ASSUME IInv, NEW s \in Slots, SweepPages(s)
  PROVE  IInv'
<1>1. UNCHANGED <<published, policy, rows, run, wait, todo, doing>>
  BY DEF SweepPages, world, store
<1>2. /\ batch' = [batch EXCEPT ![s] = DueCaptures] /\ DueCaptures \subseteq Pages
      /\ batch[s] = {}
  BY DEF SweepPages, DueCaptures, Due
<1>3. \A p \in DueCaptures : rows[p].failures < PageRetry.max_failures
  BY CapturesAssumption DEF DueCaptures, Due, MayTry
<1>4. Tries'
  <2> SUFFICES ASSUME NEW p \in Pages
               PROVE  (rows[p].failures + Places(p) <= PageRetry.max_failures + Cardinality(Slots))'
    BY DEF Tries
  <2>1. /\ rows[p].failures \in Nat /\ PageRetry.max_failures \in Nat
        /\ Cardinality(Slots) \in Nat
    BY CountsAreNat DEF IInv
  <2>2. CASE p \in DueCaptures
    <3>1. Places(p)' \in Nat /\ Places(p)' <= Cardinality(Slots) + 1
      BY SweepsHaveRoom
    <3> QED
      BY <1>1, <1>3, <2>1, <2>2, <3>1
  <2>3. CASE p \notin DueCaptures
    <3>1. Holding(p)' = Holding(p)
      BY <1>2, <2>3 DEF Holding, IInv, StoreOK
    <3>2. Places(p)' = Places(p)
      BY <1>1, <3>1 DEF Places, InQueue
    <3> QED
      BY <1>1, <3>2 DEF IInv, Tries
  <2> QED
    BY <2>2, <2>3
<1>5. StoreOK'
  BY <1>1, <1>2 DEF IInv, StoreOK
<1> QED
  BY <1>1, <1>4, <1>5 DEF IInv, Waits, Alone, Open, Renewing,
                          RefusedByTheRulesHeld, Refusing, Forbids

LEMMA SweepRobotsInv ==
  ASSUME IInv, SweepRobots
  PROVE  IInv'
<1>1. UNCHANGED <<published, policy, rows, run, wait, batch, doing>>
  BY DEF SweepRobots, world, store
<1>2. todo' = todo \cup StaleHosts /\ StaleHosts \subseteq ArticleHosts
  BY DEF SweepRobots, StaleHosts
<1>3. StaleHosts \cap Pages = {}
  BY <1>2, CapturesAssumption DEF ArticleHosts
<1>4. Tries'
  <2> SUFFICES ASSUME NEW q \in Pages
               PROVE  (rows[q].failures + Places(q) <= PageRetry.max_failures + Cardinality(Slots))'
    BY DEF Tries
  <2>1. InQueue(q)' = InQueue(q)
    BY <1>1, <1>2, <1>3 DEF InQueue
  <2>2. rows[q].failures \in Nat /\ InQueue(q) \in 0 .. 2
    BY CountsAreNat DEF IInv
  <2> QED
    BY <1>1, <2>1, <2>2, TriesKept
<1> QED
  BY <1>1, <1>2, <1>4 DEF IInv, StoreOK, Waits, Alone, Open, Renewing,
                          RefusedByTheRulesHeld, Refusing, Forbids

LEMMA DeferInv ==
  ASSUME IInv, NEW s \in Slots, NEW p \in Pages, Defer(s, p)
  PROVE  IInv'
<1>1. UNCHANGED <<published, policy, rows, run, wait, doing>>
  BY DEF Defer, world, store
<1>2. /\ p \in batch[s] /\ batch' = [batch EXCEPT ![s] = batch[s] \ {p}]
      /\ todo' = todo \cup {p}
  BY DEF Defer
<1>3. Tries'
  <2> SUFFICES ASSUME NEW q \in Pages
               PROVE  (rows[q].failures + Places(q) <= PageRetry.max_failures + Cardinality(Slots))'
    BY DEF Tries
  <2>1. /\ rows[q].failures \in Nat /\ PageRetry.max_failures \in Nat
        /\ Cardinality(Slots) \in Nat /\ InQueue(q) \in 0 .. 2
    BY CountsAreNat DEF IInv
  <2>2. rows[q].failures + Places(q) <= PageRetry.max_failures + Cardinality(Slots)
    BY DEF IInv, Tries
  <2>3. CASE q = p
    <3>1. Holding(p)' = Holding(p) \ {s} /\ s \in Holding(p)
      BY <1>2 DEF Holding, IInv, StoreOK
    <3>2. /\ Cardinality(Holding(p)') = Cardinality(Holding(p)) - 1
          /\ Cardinality(Holding(p)) \in Nat
      BY <3>1, HoldingIsFinite, FS_RemoveElement
    <3>3. InQueue(p)' <= InQueue(p) + 1 /\ InQueue(p)' \in 0 .. 2
      BY <1>1, <1>2 DEF InQueue
    <3>4. Places(p)' = Cardinality(Holding(p)') + InQueue(p)'
      BY DEF Places
    <3>5. Places(p) = Cardinality(Holding(p)) + InQueue(p)
      BY DEF Places
    <3> QED
      BY <1>1, <2>1, <2>2, <2>3, <3>2, <3>3, <3>4, <3>5
  <2>4. CASE q # p
    <3>1. Holding(q)' = Holding(q)
      BY <1>2, <2>4 DEF Holding, IInv, StoreOK
    <3>2. Places(q)' = Places(q)
      BY <1>1, <1>2, <2>4, <3>1 DEF Places, InQueue
    <3> QED
      BY <1>1, <2>2, <3>2
  <2> QED
    BY <2>3, <2>4
<1> QED
  BY <1>1, <1>2, <1>3 DEF IInv, StoreOK, Waits, Alone, Open, Renewing,
                          RefusedByTheRulesHeld, Refusing, Forbids

\* A visit decided against: refusals it adds are by the rules held, and no refresh is out.
LEMMA DeclineInv ==
  ASSUME IInv, NEW p \in Pages, Decline(p)
  PROVE  IInv'
<1> DEFINE outcome == Verdict(p)
<1>1. /\ Record(p, outcome) /\ Start(p)
      /\ outcome = "disallowed" => Forbids(HostOf[p], p)
      /\ outcome # "failed"
  BY DEF Decline, Verdict
<1>2. /\ UNCHANGED <<published, run, wait, doing, batch>>
      /\ p \in todo /\ todo' = todo \ {p}
      /\ \A j \in doing : HostOfJob(j) # HostOfJob(p)
  BY <1>1, DeclineBreaker, StartAlone DEF IInv
<1> HIDE DEF outcome
<1>3. /\ rows' \in [Pages -> Row] /\ policy' = policy
      /\ rows'[p] = Noted(rows[p], outcome)
      /\ \A q \in Pages \ {p} : rows'[q] = rows[q]
  BY <1>1, RecordStore DEF IInv
<1>4. rows[p] \in Row
  BY DEF IInv, StoreOK
<1>5. /\ rows'[p].failures = rows[p].failures
      /\ rows'[p].refused # rows[p].refused => outcome = "disallowed"
  BY <1>1, <1>3, <1>4, NotedRow
<1>6. StoreOK'
  BY <1>2, <1>3 DEF IInv, StoreOK
<1>7. Renewing'
  <2> SUFFICES ASSUME NEW h \in doing \cap Hosts, NEW q \in Pages, HostOf[q] = h
               PROVE  rows'[q].refused # "after"
    BY <1>2 DEF Renewing
  <2>1. h \notin Pages
    BY CapturesAssumption
  <2>2. q # p
    BY <1>2, <2>1 DEF HostOfJob
  <2> QED
    BY <1>3, <2>2 DEF IInv, Renewing
<1>8. Tries'
  <2> SUFFICES ASSUME NEW q \in Pages
               PROVE  (rows[q].failures + Places(q) <= PageRetry.max_failures + Cardinality(Slots))'
    BY DEF Tries
  <2>1. rows[q].failures \in Nat /\ rows'[q].failures = rows[q].failures
    BY <1>3, <1>5, CountsAreNat DEF IInv
  <2>2. InQueue(q)' <= InQueue(q)
    BY <1>2 DEF InQueue
  <2>3. InQueue(q) \in 0 .. 2 /\ InQueue(q)' \in 0 .. 2
    BY DEF InQueue
  <2> QED
    BY <1>2, <2>1, <2>2, <2>3, TriesKept
<1>9. RefusedByTheRulesHeld'
  BY <1>1, <1>3, <1>5 DEF IInv, RefusedByTheRulesHeld, Forbids
<1> QED
  BY <1>2, <1>3, <1>6, <1>7, <1>8, <1>9 DEF IInv, Waits, Alone, Open, Refusing

LEMMA SendInv ==
  ASSUME IInv, NEW p \in Pages, Send(p)
  PROVE  IInv'
<1>1. /\ UNCHANGED <<published, policy, rows, run, wait, batch>>
      /\ p \in todo /\ todo' = todo \ {p} /\ doing' = doing \cup {p}
      /\ \A j \in doing : HostOfJob(j) # HostOfJob(p)
  BY StartAlone DEF Send, store
<1>2. ~ Refusing(HostOf[p])
  BY DEF Send, Verdict
<1>3. Alone'
  BY <1>1 DEF IInv, Alone
<1>4. Open'
  BY <1>1, <1>2 DEF IInv, Open, Refusing
<1>5. Renewing'
  BY <1>1, CapturesAssumption DEF IInv, Renewing
<1>6. Tries'
  <2> SUFFICES ASSUME NEW q \in Pages
               PROVE  (rows[q].failures + Places(q) <= PageRetry.max_failures + Cardinality(Slots))'
    BY DEF Tries
  <2>1. rows[q].failures \in Nat
    BY CountsAreNat DEF IInv
  <2>2. InQueue(q)' <= InQueue(q)
    BY <1>1 DEF InQueue
  <2>3. InQueue(q) \in 0 .. 2 /\ InQueue(q)' \in 0 .. 2
    BY DEF InQueue
  <2> QED
    BY <1>1, <2>1, <2>2, <2>3, TriesKept
<1>7. StoreOK'
  BY <1>1 DEF IInv, StoreOK
<1> QED
  BY <1>1, <1>3, <1>4, <1>5, <1>6, <1>7 DEF IInv, Waits, RefusedByTheRulesHeld, Forbids

\* A reply is written about the one host that has a request out.
LEMMA AnswerInv ==
  ASSUME IInv, NEW p \in Pages, Answer(p)
  PROVE  IInv'
<1>1. PICK reply \in Replies(p) : Record(p, Outcome(p, reply))
  BY DEF Answer
<1> DEFINE outcome == Outcome(p, reply)
<1>2. outcome = "disallowed" => FinalHost[p] # HostOf[p]
  BY <1>1 DEF Outcome, AllowedAfterRedirect, Replies
<1>3. Record(p, outcome)
  BY <1>1
<1> HIDE DEF outcome
<1>4. /\ UNCHANGED <<published, batch, todo>>
      /\ p \in doing /\ doing' = doing \ {p}
  BY DEF Answer, world
<1>5. /\ rows' \in [Pages -> Row] /\ run' \in [Hosts -> 0 .. MaxRun] /\ policy' = policy
      /\ rows'[p] = Noted(rows[p], outcome)
      /\ \A q \in Pages \ {p} : rows'[q] = rows[q]
      /\ \A h \in Hosts \ {HostOf[p]} : run'[h] = run[h]
  BY <1>3, RecordStore DEF IInv
<1>6. /\ DOMAIN wait' = DOMAIN wait
      /\ \A h \in Hosts \ {HostOf[p]} : wait'[h] = wait[h]
  BY <1>3, CapturesAssumption DEF Record, IInv, Waits
<1>7. \A j \in doing' : HostOfJob(j) # HostOf[p]
  BY <1>4 DEF IInv, Alone, HostOfJob
<1>8. rows[p] \in Row
  BY DEF IInv, StoreOK
<1>9. Open'
  BY <1>4, <1>5, <1>6, <1>7, CapturesAssumption DEF IInv, Open, Refusing, HostOfJob
<1>10. Renewing'
  <2> SUFFICES ASSUME NEW h \in doing' \cap Hosts, NEW q \in Pages, HostOf[q] = h
               PROVE  rows'[q].refused # "after"
    BY DEF Renewing
  <2>1. q # p
    BY <1>7, CapturesAssumption DEF HostOfJob
  <2> QED
    BY <1>4, <1>5, <2>1 DEF IInv, Renewing
<1>11. Tries'
  <2> SUFFICES ASSUME NEW q \in Pages
               PROVE  (rows[q].failures + Places(q) <= PageRetry.max_failures + Cardinality(Slots))'
    BY DEF Tries
  <2>1. rows[q].failures \in Nat
    BY CountsAreNat DEF IInv
  <2>2. InQueue(q) \in 0 .. 2 /\ InQueue(q)' \in 0 .. 2
    BY DEF InQueue
  <2>3. CASE q = p
    <3>1. rows'[p].failures \in {rows[p].failures, rows[p].failures + 1}
      BY <1>5, <1>8, NotedRow
    <3>2. InQueue(p)' = InQueue(p) - 1
      BY <1>4 DEF InQueue
    <3> QED
      BY <1>4, <2>1, <2>2, <2>3, <3>1, <3>2, TriesKept
  <2>4. CASE q # p
    <3>1. InQueue(q)' = InQueue(q)
      BY <1>4, <2>4 DEF InQueue
    <3> QED
      BY <1>4, <1>5, <2>1, <2>2, <2>4, <3>1, TriesKept
  <2> QED
    BY <2>3, <2>4
<1>12. RefusedByTheRulesHeld'
  <2>1. outcome # "disallowed" => rows'[p].refused = rows[p].refused
    BY <1>5, <1>8, NotedRow
  <2> QED
    BY <1>2, <1>5, <2>1 DEF IInv, RefusedByTheRulesHeld, Forbids
<1>13. StoreOK'
  BY <1>4, <1>5 DEF IInv, StoreOK
<1>14. Alone'
  BY <1>4 DEF IInv, Alone
<1> QED
  BY <1>6, <1>9, <1>10, <1>11, <1>12, <1>13, <1>14 DEF IInv, Waits

LEMMA RefreshInv ==
  ASSUME IInv, NEW h \in ArticleHosts, Refresh(h)
  PROVE  IInv'
<1>1. h \in Hosts /\ h \notin Pages
  BY CapturesAssumption DEF ArticleHosts
<1>2. /\ UNCHANGED <<published, policy, run, wait, batch>>
      /\ h \in todo /\ todo' = todo \ {h} /\ doing' = doing \cup {h}
      /\ \A j \in doing : HostOfJob(j) # HostOfJob(h)
  BY <1>1, StartAlone DEF Refresh
<1>3. /\ rows' \in [Pages -> Row]
      /\ \A q \in Pages : /\ rows'[q].failures = rows[q].failures
                          /\ rows'[q].refused = "no" <=> rows[q].refused = "no"
                          /\ rows'[q].refused = "after" => rows[q].refused = "after"
                          /\ HostOf[q] = h => rows'[q].refused # "after"
  BY DEF Refresh, IInv, StoreOK, Row
<1>4. StoreOK'
  BY <1>2, <1>3 DEF IInv, StoreOK
<1>5. Alone'
  BY <1>2 DEF IInv, Alone
<1>6. Open'
  BY <1>1, <1>2 DEF IInv, Open, Refusing
<1>7. Renewing'
  BY <1>2, <1>3 DEF IInv, Renewing
<1>8. Tries'
  <2> SUFFICES ASSUME NEW q \in Pages
               PROVE  (rows[q].failures + Places(q) <= PageRetry.max_failures + Cardinality(Slots))'
    BY DEF Tries
  <2>1. rows[q].failures \in Nat /\ rows'[q].failures = rows[q].failures
    BY <1>3, CountsAreNat DEF IInv
  <2>2. InQueue(q)' = InQueue(q)
    BY <1>1, <1>2 DEF InQueue
  <2>3. InQueue(q) \in 0 .. 2
    BY DEF InQueue
  <2> QED
    BY <1>2, <2>1, <2>2, <2>3, TriesKept
<1>9. RefusedByTheRulesHeld'
  BY <1>2, <1>3 DEF IInv, RefusedByTheRulesHeld, Forbids
<1> QED
  BY <1>2, <1>4, <1>5, <1>6, <1>7, <1>8, <1>9 DEF IInv, Waits

\* The rules of a host change, and with them every refusal they replace ends.
LEMMA StorePolicyInv ==
  ASSUME IInv, NEW h \in ArticleHosts, StorePolicy(h)
  PROVE  IInv'
<1>1. h \in Hosts /\ h \notin Pages
  BY CapturesAssumption DEF ArticleHosts
<1>2. /\ UNCHANGED <<published, run, wait, batch, todo>>
      /\ h \in doing /\ doing' = doing \ {h}
  BY DEF StorePolicy, world
<1>3. PICK answered \in BOOLEAN : policy' = [policy EXCEPT ![h] = RulesReceived(h, answered)]
  BY DEF StorePolicy
<1>4. RulesReceived(h, answered) \in RobotsPolicy
  BY CapturesAssumption DEF RulesReceived, RobotsPolicy, IInv, StoreOK
<1>5. /\ policy' \in [Hosts -> {Unread} \cup RobotsPolicy]
      /\ \A g \in Hosts \ {h} : policy'[g] = policy[g]
  BY <1>3, <1>4 DEF IInv, StoreOK
<1>6. \A q \in Pages : HostOf[q] = h => rows[q].refused # "after"
  BY <1>1, <1>2 DEF IInv, Renewing
<1>7. /\ rows' \in [Pages -> Row]
      /\ \A q \in Pages : /\ rows'[q].failures = rows[q].failures
                          /\ rows'[q].refused \in {"no", rows[q].refused}
                          /\ HostOf[q] = h => rows'[q].refused # "before"
  BY DEF StorePolicy, IInv, StoreOK, Row
<1>8. \A q \in Pages : HostOf[q] = h => rows'[q].refused = "no"
  BY <1>6, <1>7 DEF IInv, StoreOK, Row
<1>9. StoreOK'
  BY <1>2, <1>5, <1>7 DEF IInv, StoreOK
<1>10. Alone'
  BY <1>2 DEF IInv, Alone
<1>11. Open'
  BY <1>2 DEF IInv, Open, Refusing
<1>12. Renewing'
  BY <1>2, <1>7 DEF IInv, Renewing
<1>13. Tries'
  <2> SUFFICES ASSUME NEW q \in Pages
               PROVE  (rows[q].failures + Places(q) <= PageRetry.max_failures + Cardinality(Slots))'
    BY DEF Tries
  <2>1. rows[q].failures \in Nat /\ rows'[q].failures = rows[q].failures
    BY <1>7, CountsAreNat DEF IInv
  <2>2. InQueue(q)' = InQueue(q)
    BY <1>1, <1>2 DEF InQueue
  <2>3. InQueue(q) \in 0 .. 2
    BY DEF InQueue
  <2> QED
    BY <1>2, <2>1, <2>2, <2>3, TriesKept
<1>14. RefusedByTheRulesHeld'
  <2> SUFFICES ASSUME NEW q \in Pages, rows'[q].refused # "no", FinalHost[q] = HostOf[q]
               PROVE  Forbids(HostOf[q], q)'
    BY DEF RefusedByTheRulesHeld
  <2>1. HostOf[q] \in Hosts \ {h} /\ rows[q].refused # "no"
    BY <1>7, <1>8, CapturesAssumption
  <2> QED
    BY <1>5, <2>1 DEF IInv, RefusedByTheRulesHeld, Forbids
<1> QED
  BY <1>2, <1>9, <1>10, <1>11, <1>12, <1>13, <1>14 DEF IInv, Waits

\* A step that changes nothing.
LEMMA StutterInv ==
  ASSUME IInv, UNCHANGED vars
  PROVE  IInv'
  BY DEF IInv, StoreOK, Waits, Alone, Open, Renewing, Tries, Places, Holding, InQueue,
         RefusedByTheRulesHeld, Refusing, Forbids, vars, world, store, queue

LEMMA NextInv ==
  ASSUME IInv, [Next]_vars
  PROVE  IInv'
<1>1. CASE \E h \in ArticleHosts : Republish(h) \/ Refresh(h) \/ StorePolicy(h)
  BY <1>1, RepublishInv, RefreshInv, StorePolicyInv
<1>2. CASE \E p \in Pages : Decline(p) \/ Send(p) \/ Answer(p)
  BY <1>2, DeclineInv, SendInv, AnswerInv
<1>3. CASE \/ \E s \in Slots : SweepPages(s) \/ \E p \in Pages : Defer(s, p)
           \/ SweepRobots \/ Tick
  BY <1>3, SweepPagesInv, DeferInv, SweepRobotsInv, TickInv
<1>4. CASE UNCHANGED vars
  BY <1>4, StutterInv
<1> QED
  BY <1>1, <1>2, <1>3, <1>4 DEF Next

THEOREM Inductive == Spec => []IInv
<1>1. Init => IInv
  BY InitInv
<1>2. IInv /\ [Next]_vars => IInv'
  BY NextInv
<1> QED
  BY <1>1, <1>2, PTL DEF Spec

-----------------------------------------------------------------------------
(* What follows from it.                                                   *)

\* A page fails beyond the limit of `capture_retry` at most once a slot of the pages queue,
\* however sweeps overlap and interleave with the queue and the requests (due.py, capture.py).
THEOREM TriesAreBounded == Spec => []TriesBounded
<1>1. IInv => TriesBounded
  <2> SUFFICES ASSUME IInv, NEW p \in Pages
               PROVE  rows[p].failures <= PageRetry.max_failures + Cardinality(Slots)
    BY DEF TriesBounded
  <2>1. /\ rows[p].failures \in Nat /\ PageRetry.max_failures \in Nat
        /\ Cardinality(Slots) \in Nat /\ Places(p) \in Nat
    BY CountsAreNat DEF IInv
  <2>2. rows[p].failures + Places(p) <= PageRetry.max_failures + Cardinality(Slots)
    BY DEF IInv, Tries
  <2> QED
    BY <2>1, <2>2
<1> QED
  BY <1>1, Inductive, PTL

\* A page is held back only by the rules held of its host (robots/service.py, due.py): the
\* host's lock keeps a refusal from falling between a refresh and its answer.
THEOREM RefusedOnlyByTheRulesHeld == Spec => []RefusedByTheRulesHeld
<1>1. IInv => RefusedByTheRulesHeld
  BY DEF IInv
<1> QED
  BY <1>1, Inductive, PTL

\* Only an answer adds to a page's failures.
LEMMA AnswersAloneFail ==
  ASSUME IInv, [Next]_vars, NEW p \in Pages, rows'[p].failures > rows[p].failures
  PROVE  Answer(p)
<1>1. rows[p].failures \in Nat
  BY DEF IInv, StoreOK, Row
<1>2. rows'[p].failures # rows[p].failures
  BY <1>1
<1>3. ASSUME NEW h \in ArticleHosts, Refresh(h) \/ StorePolicy(h)
      PROVE  rows'[p].failures = rows[p].failures
  BY <1>3 DEF Refresh, StorePolicy, IInv, StoreOK, Row
<1>4. ASSUME NEW q \in Pages, Decline(q)
      PROVE  rows'[p].failures = rows[p].failures
  <2>1. Verdict(q) # "failed" /\ Record(q, Verdict(q))
    BY <1>4 DEF Decline, Verdict
  <2>2. rows'[q] = Noted(rows[q], Verdict(q)) /\ (p # q => rows'[p] = rows[p])
    BY <2>1, RecordStore DEF IInv
  <2>3. rows[q] \in Row
    BY DEF IInv, StoreOK
  <2> QED
    BY <2>1, <2>2, <2>3, NotedRow
<1>5. ASSUME NEW q \in Pages, Answer(q), p # q
      PROVE  rows'[p].failures = rows[p].failures
  BY <1>5, RecordStore DEF Answer, IInv
<1>6. ASSUME \/ \E h \in ArticleHosts : Republish(h)
             \/ \E s \in Slots : SweepPages(s) \/ \E q \in Pages : Defer(s, q)
             \/ \E q \in Pages : Send(q)
             \/ SweepRobots \/ Tick \/ UNCHANGED vars
      PROVE  rows' = rows
  BY <1>6 DEF Republish, Defer, Send, SweepPages, SweepRobots, Tick, vars, store
<1> QED
  BY <1>2, <1>3, <1>4, <1>5, <1>6 DEF Next

\* No failure is logged of a host that is shut (breaker.py): only an answer logs one, its
\* page was asked for while the host was open, and nothing shuts a host meanwhile.
THEOREM HostHasOneClock == Spec => OneClockPerHost
<1>1. IInv /\ [Next]_vars =>
        [\A p \in Pages : rows'[p].failures > rows[p].failures => ~ Refusing(HostOf[p])]_vars
  <2> SUFFICES ASSUME IInv, [Next]_vars, NEW p \in Pages,
                      rows'[p].failures > rows[p].failures
               PROVE  ~ Refusing(HostOf[p])
    OBVIOUS
  <2>1. Answer(p)
    BY AnswersAloneFail
  <2> QED
    BY <2>1 DEF Answer, IInv, Open
<1> QED
  BY <1>1, Inductive, PTL DEF Spec, OneClockPerHost

-----------------------------------------------------------------------------
(* Waits.                                                                  *)

\* That a power of naturals is a natural.  The provers take `^` as they find it, so its type
\* is a hypothesis here; PollingProofs derives it for powers of two, which a page's retries
\* are not.
PowersAreNatural == \A base \in Nat \ {0}, n \in Nat : base ^ n \in Nat

\* due_at's arithmetic stays in the naturals.
LEMMA DueAfterNatural ==
  ASSUME PowersAreNatural, NEW retry \in Policy, NEW n \in Nat
  PROVE  DueAfter(retry, n) \in Nat
<1>1. PICK power : power = retry.factor ^ n
  OBVIOUS
<1>2. retry.factor \in Nat \ {0} /\ retry.minimum \in Nat /\ retry.maximum \in Nat
  BY DEF Policy
<1>3. power \in Nat
  BY <1>1, <1>2 DEF PowersAreNatural
<1>4. PICK grown : grown = retry.minimum * power
  OBVIOUS
<1>5. grown \in Nat
  BY <1>2, <1>3, <1>4
<1>6. DueAfter(retry, n) = LET greatest == IF grown >= retry.minimum THEN grown ELSE retry.minimum
                           IN  IF greatest <= retry.maximum THEN greatest ELSE retry.maximum
  BY <1>1, <1>4 DEF DueAfter
<1> QED
  BY <1>2, <1>5, <1>6

NumericWaits == wait \in [Pages \cup Hosts -> Nat]

\* A failure sets the waits of a page and of its host, each from its policy.
LEMMA RecordWaits ==
  ASSUME PowersAreNatural, StoreOK, NumericWaits, NEW p \in Pages, NEW outcome, Record(p, outcome)
  PROVE  NumericWaits'
<1>1. PICK h : h = HostOf[p]
  OBVIOUS
<1>2. h \in Hosts /\ run'[h] \in Nat
  BY <1>1, RecordStore, CapturesAssumption
<1>3. PICK backoff : backoff = DueAfter(PageRetry, rows[p].failures + 1)
  OBVIOUS
<1>4. backoff \in Nat
  <2>1. rows[p].failures + 1 \in Nat
    BY DEF StoreOK, Row
  <2> QED
    BY <1>3, <2>1, CapturesAssumption, DueAfterNatural
<1>5. PICK probe : probe = IF run'[h] < Threshold THEN 0 ELSE DueAfter(Probe, run'[h] - Threshold)
  OBVIOUS
<1>6. probe \in Nat
  <2>1. CASE run'[h] < Threshold
    BY <1>5, <2>1
  <2>2. CASE ~ (run'[h] < Threshold)
    <3>1. run'[h] - Threshold \in Nat
      BY <1>2, <2>2, CapturesAssumption
    <3> QED
      BY <1>5, <2>2, <3>1, CapturesAssumption, DueAfterNatural
  <2> QED
    BY <2>1, <2>2
<1>7. wait' = IF outcome # "failed" THEN wait ELSE [wait EXCEPT ![p] = backoff, ![h] = probe]
  BY <1>1, <1>3, <1>5 DEF Record
<1> QED
  BY <1>4, <1>6, <1>7 DEF NumericWaits

\* Every wait of a page or of a shut host is a number of minutes (backoff.due_at), and the
\* tables keep their types.
THEOREM CaptureTypes ==
  ASSUME PowersAreNatural
  PROVE  Spec => []TypeOK
<1>1. Init => NumericWaits
  BY DEF Init, NumericWaits
<1>2. IInv /\ NumericWaits /\ [Next]_vars => NumericWaits'
  <2> SUFFICES ASSUME IInv, NumericWaits, [Next]_vars PROVE NumericWaits'
    OBVIOUS
  <2>1. ASSUME NEW p \in Pages, Decline(p) PROVE NumericWaits'
    BY <2>1, DeclineBreaker DEF IInv, NumericWaits
  <2>2. ASSUME NEW p \in Pages, Answer(p) PROVE NumericWaits'
    BY <2>2, RecordWaits DEF Answer, IInv
  <2>3. CASE Tick
    BY <2>3 DEF Tick, Less, NumericWaits
  <2>4. CASE \/ \E h \in ArticleHosts : Republish(h) \/ Refresh(h) \/ StorePolicy(h)
             \/ \E s \in Slots : SweepPages(s) \/ \E p \in Pages : Defer(s, p)
             \/ \E p \in Pages : Send(p)
             \/ SweepRobots \/ UNCHANGED vars
    <3>1. wait' = wait
      BY <2>4 DEF Republish, Refresh, StorePolicy, Defer, Send, SweepPages, SweepRobots, vars, store
    <3> QED
      BY <3>1 DEF NumericWaits
  <2> QED
    BY <2>1, <2>2, <2>3, <2>4 DEF Next
<1>3. IInv /\ NumericWaits => TypeOK
  BY DEF IInv, NumericWaits, TypeOK
<1> QED
  BY <1>1, <1>2, <1>3, Inductive, PTL DEF Spec

=============================================================================
