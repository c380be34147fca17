---------------------------- MODULE KindleProofs ----------------------------
(***************************************************************************)
(* For any items, window, period, number of hands and bounds: an item is   *)
(* in two issues only if they were built at once, an issue stamped as sent *)
(* has reached Amazon, and a window as long as the time between two builds *)
(* lets go only of what lapsed or had no text in time.                     *)
(*                                                                         *)
(* IInv says what a build holds and when a stamp is earned.  OnTime, on    *)
(* top of it, relates the clock to the items no build has taken yet: the   *)
(* cron fires before one of them is a period old, so its build finds them  *)
(* all inside the window.                                                  *)
(***************************************************************************)
EXTENDS Kindle, TLAPS

\* What a build holds is disjoint from every issue recorded before it looked.
Holding(p) ==
  job[p].pc = "converting" =>
    /\ job[p].after <= Len(issues)
    /\ \A n \in 1 .. job[p].after : job[p].items \cap issues[n].items = {}

\* A process about to stamp a success saw the mail go.
Posted(p) == (job[p].pc = "stamping" /\ job[p].ok) => mailed[job[p].issue] > 0

IInv ==
  /\ TypeOK
  /\ \A p \in Processes : Holding(p) /\ Posted(p)
  /\ TwiceOnlyIfOverlapping
  /\ SentIsMailed

-----------------------------------------------------------------------------
\* A row appended is last, and the rows before it are where they were.
LEMMA Appended ==
  ASSUME NEW S, NEW s \in Seq(S), NEW e \in S
  PROVE  /\ Append(s, e) \in Seq(S)
         /\ Len(Append(s, e)) = Len(s) + 1
         /\ DOMAIN Append(s, e) = 1 .. Len(s) + 1
         /\ \A n \in DOMAIN s : Append(s, e)[n] = s[n]
         /\ Append(s, e)[Len(s) + 1] = e
  OBVIOUS

\* Writing one row of a sequence leaves it as long as it was.
LEMMA Rewritten ==
  ASSUME NEW S, NEW s \in Seq(S), NEW n \in DOMAIN s, NEW e \in S
  PROVE  /\ [s EXCEPT ![n] = e] \in Seq(S)
         /\ Len([s EXCEPT ![n] = e]) = Len(s)
         /\ DOMAIN [s EXCEPT ![n] = e] = DOMAIN s
  OBVIOUS

\* Every process starts idle and every table empty.
LEMMA Starts == Init => IInv
<1> SUFFICES ASSUME Init PROVE IInv
  OBVIOUS
<1>1. issues = <<>> /\ mailed = <<>> /\ job = [p \in Processes |-> Idle]
  BY DEF Init
<1>2. TypeOK
  <2>1. issues \in Seq(Rows) /\ mailed \in Seq(Nat) /\ Len(mailed) = Len(issues)
    BY <1>1
  <2>2. job \in [Processes -> Jobs]
    BY <1>1 DEF Jobs
  <2> QED BY <2>1, <2>2, KindleAssumption DEF Init, TypeOK
<1>3. \A p \in Processes : Holding(p) /\ Posted(p)
  BY <1>1 DEF Holding, Posted, Idle
<1>4. TwiceOnlyIfOverlapping /\ SentIsMailed
  BY <1>1 DEF TwiceOnlyIfOverlapping, SentIsMailed
<1> QED BY <1>2, <1>3, <1>4 DEF IInv

\* A step that leaves the issues, the mail and the jobs alone keeps what is said of them.
LEMMA Untouched ==
  ASSUME IInv, UNCHANGED <<issues, mailed, job>>, TypeOK'
  PROVE  IInv'
BY DEF IInv, Holding, Posted, TwiceOnlyIfOverlapping, SentIsMailed

\* The archive, the reader and the clock touch neither the ledger nor the mail.
LEMMA WorldKeeps ==
  ASSUME IInv,
         (\E i \in Items : Arrive(i) \/ StoreReading(i) \/ Toggle(i)) \/ Tick \/ Cron \/ MissCron
  PROVE  IInv'
<1> USE KindleAssumption DEF Seen
<1>1. UNCHANGED <<issues, mailed, job>> /\ TypeOK
  BY DEF IInv, Arrive, StoreReading, Toggle, Tick, Cron, MissCron, mail
<1>2. /\ mode' \in Modes /\ cronIn' \in Nat /\ queued' \in BOOLEAN /\ moves' \in Nat
      /\ faults' \in Nat
  <2>1. CASE \E i \in Items : Arrive(i) \/ StoreReading(i) \/ Toggle(i)
    BY <1>1, <2>1 DEF TypeOK, Arrive, StoreReading, Toggle
  <2>2. CASE Tick
    BY <1>1, <2>2 DEF TypeOK, Tick
  <2>3. CASE Cron
    BY <1>1, <2>3 DEF TypeOK, Cron
  <2>4. CASE MissCron
    BY <1>1, <2>4 DEF TypeOK, MissCron
  <2> QED BY <2>1, <2>2, <2>3, <2>4
<1>3. /\ wanted' \subseteq Items /\ lapsed' \subseteq Items
      /\ readable' \subseteq Items /\ bare' \subseteq Items
  BY <1>1 DEF TypeOK, Arrive, StoreReading, Toggle, Tick, Cron, MissCron
<1>4. age' \in [Items -> Nat \cup {Unseen}]
  <2>1. CASE Tick
    <3>1. \A i \in Items : i \in Seen => age[i] \in Nat
      BY <1>1 DEF TypeOK
    <3> QED BY <1>1, <2>1, <3>1 DEF TypeOK, Tick
  <2> QED BY <1>1, <2>1 DEF TypeOK, Arrive, StoreReading, Toggle, Cron, MissCron
<1>5. TypeOK'
  BY <1>1, <1>2, <1>3, <1>4 DEF TypeOK, Jobs
<1> QED BY <1>1, <1>5, Untouched

\* A process may take up anything whose contents are in no issue and whose stamp is earned.
LEMMA JobMoves ==
  ASSUME IInv, NEW p \in Processes, NEW j \in Jobs,
         job' = [job EXCEPT ![p] = j],
         UNCHANGED <<issues, mailed, mode, age, wanted, readable, cronIn>>,
         queued' \in BOOLEAN, lapsed' \subseteq Items, bare' \subseteq Items,
         moves' \in Nat, faults' \in Nat,
         j.pc = "converting" =>
           /\ j.after <= Len(issues)
           /\ \A n \in 1 .. j.after : j.items \cap issues[n].items = {},
         (j.pc = "stamping" /\ j.ok) => mailed[j.issue] > 0
  PROVE  IInv'
<1>1. job \in [Processes -> Jobs]
  BY DEF IInv, TypeOK
<1>2. \A q \in Processes : job'[q] = IF q = p THEN j ELSE job[q]
  BY <1>1
<1>3. TypeOK'
  BY <1>1 DEF IInv, TypeOK, Jobs
<1>4. \A q \in Processes : Holding(q)' /\ Posted(q)'
  BY <1>2 DEF IInv, Holding, Posted
<1> QED BY <1>3, <1>4 DEF IInv, TwiceOnlyIfOverlapping, SentIsMailed

\* Nothing selected is in an issue already, posted or not.
LEMMA SelectKeeps ==
  ASSUME IInv, NEW p \in Processes, Select(p),
         UNCHANGED <<issues, mailed, mode, age, wanted, readable, cronIn, moves, lapsed, faults>>,
         queued' \in BOOLEAN, bare' \subseteq Items
  PROVE  IInv'
<1> DEFINE j == IF Queued = {} THEN Idle ELSE Converting(Queued, Len(issues))
<1>1. Len(issues) \in Nat /\ DOMAIN issues = 1 .. Len(issues)
  BY DEF IInv, TypeOK
<1>2. j \in Jobs
  BY <1>1 DEF Jobs, Converting, Queued, Seen
<1>3. \A n \in 1 .. Len(issues) : Queued \cap issues[n].items = {}
  BY <1>1 DEF Queued, Ledger
<1>4. j.pc = "converting" =>
        /\ j.after <= Len(issues)
        /\ \A n \in 1 .. j.after : j.items \cap issues[n].items = {}
  BY <1>1, <1>3 DEF Converting, Idle
<1>5. j.pc # "stamping"
  BY DEF Converting, Idle
<1>6. lapsed' \subseteq Items /\ moves' \in Nat /\ faults' \in Nat
  BY DEF IInv, TypeOK
<1>7. job' = [job EXCEPT ![p] = j]
  BY DEF Select
<1> HIDE DEF j
<1> QED BY <1>2, <1>4, <1>5, <1>6, <1>7, JobMoves

\* A job given up on leaves the tables as they are.
LEMMA StopKeeps ==
  ASSUME IInv, NEW p \in Processes, FailToConvert(p) \/ Kill(p)
  PROVE  IInv'
<1>1. Idle \in Jobs /\ Idle.pc # "converting" /\ Idle.pc # "stamping"
  BY DEF Jobs, Idle
<1>2. Carrying(p) \subseteq Items
  <2>1. job[p] \in Jobs
    BY DEF IInv, TypeOK
  <2>2. job[p].pc = "converting" => job[p].items \subseteq Items
    BY <2>1 DEF Jobs, Idle
  <2> QED BY <2>2 DEF Carrying
<1>3. /\ UNCHANGED <<issues, mailed, mode, age, wanted, readable, cronIn>>
      /\ job' = [job EXCEPT ![p] = Idle]
      /\ queued' \in BOOLEAN /\ lapsed' \subseteq Items /\ bare' \subseteq Items
      /\ moves' \in Nat /\ faults' \in Nat
  BY <1>2 DEF FailToConvert, Kill, world, mail, IInv, TypeOK
<1> QED BY <1>1, <1>3, JobMoves

\* Any issue may be posted again.
LEMMA ResendKeeps ==
  ASSUME IInv, NEW p \in Processes, Resend(p)
  PROVE  IInv'
<1>1. PICK n \in DOMAIN issues : job' = [job EXCEPT ![p] = Posting(n)]
  BY DEF Resend
<1>2. Posting(n) \in Jobs /\ Posting(n).pc = "posting"
  BY DEF Jobs, Posting
<1>3. /\ UNCHANGED <<issues, mailed, mode, age, wanted, readable, cronIn>>
      /\ queued' \in BOOLEAN /\ lapsed' \subseteq Items /\ bare' \subseteq Items
      /\ moves' \in Nat /\ faults' \in Nat
  BY DEF Resend, mail, IInv, TypeOK
<1> HIDE DEF Posting
<1> QED BY <1>1, <1>2, <1>3, JobMoves

\* An issue recorded shares an item only with one recorded since its contents were selected.
LEMMA RecordKeeps ==
  ASSUME IInv, NEW p \in Processes, Record(p)
  PROVE  IInv'
<1> DEFINE row == [items |-> job[p].items, sent |-> FALSE, after |-> job[p].after]
           next == IF mode = "posted" THEN Posting(Len(issues')) ELSE Idle
<1>1. /\ issues \in Seq(Rows) /\ mailed \in Seq(Nat) /\ Len(mailed) = Len(issues)
      /\ job \in [Processes -> Jobs] /\ Len(issues) \in Nat
      /\ DOMAIN issues = 1 .. Len(issues) /\ DOMAIN mailed = 1 .. Len(issues)
  BY DEF IInv, TypeOK
<1>2. job[p].pc = "converting" /\ job[p].items \subseteq Items /\ job[p].after \in Nat
  BY <1>1 DEF Record, Jobs, Idle
<1>3. row \in Rows /\ row.items = job[p].items /\ row.after = job[p].after /\ row.sent = FALSE
  BY <1>2 DEF Rows
<1>4. /\ issues' \in Seq(Rows) /\ DOMAIN issues' = 1 .. Len(issues) + 1
      /\ Len(issues') = Len(issues) + 1
      /\ \A n \in DOMAIN issues : issues'[n] = issues[n]
      /\ issues'[Len(issues) + 1] = row
  <2>1. issues' = Append(issues, row)
    BY DEF Record
  <2> HIDE DEF row
  <2> QED BY <1>1, <1>3, <2>1, Appended
<1>5. /\ mailed' \in Seq(Nat) /\ Len(mailed') = Len(issues) + 1
      /\ \A n \in DOMAIN issues : mailed'[n] = mailed[n]
  BY <1>1, Appended DEF Record
<1>6. next \in Jobs' /\ next.pc # "converting" /\ next.pc # "stamping"
  BY <1>1, <1>4 DEF Jobs, Posting, Idle
<1>7. job' = [job EXCEPT ![p] = next]
  BY DEF Record
<1> HIDE DEF row, next
<1>8. \A q \in Processes : job'[q] = IF q = p THEN next ELSE job[q]
  BY <1>1, <1>7
<1>9. TypeOK'
  <2>1. Jobs \subseteq Jobs'
    BY <1>1, <1>4 DEF Jobs
  <2>2. job' \in [Processes -> Jobs']
    BY <1>1, <1>6, <1>7, <2>1
  <2> QED BY <1>4, <1>5, <2>2 DEF Record, world, IInv, TypeOK
<1>10. \A q \in Processes : Holding(q)' /\ Posted(q)'
  <2> SUFFICES ASSUME NEW q \in Processes, q # p PROVE Holding(q)' /\ Posted(q)'
    BY <1>6, <1>8 DEF Holding, Posted
  <2>1. job'[q] = job[q] /\ job[q] \in Jobs
    BY <1>1, <1>8
  <2>2. Holding(q)'
    <3>1. job[q].pc = "converting" => job[q].after \in Nat
      BY <2>1 DEF Jobs, Idle
    <3>2. Holding(q)
      BY DEF IInv
    <3>3. ASSUME job[q].pc = "converting"
          PROVE  /\ job[q].after <= Len(issues')
                 /\ \A n \in 1 .. job[q].after : job[q].items \cap issues'[n].items = {}
      <4>1. job[q].after <= Len(issues)
        BY <3>2, <3>3 DEF Holding
      <4>2. \A n \in 1 .. job[q].after : n \in DOMAIN issues /\ issues'[n] = issues[n]
        <5> SUFFICES ASSUME NEW n \in 1 .. job[q].after PROVE n \in 1 .. Len(issues)
          BY <1>1, <1>4
        <5> QED BY <1>1, <3>1, <3>3, <4>1
      <4>3. \A n \in 1 .. job[q].after : job[q].items \cap issues[n].items = {}
        BY <3>2, <3>3 DEF Holding
      <4>4. job[q].after <= Len(issues')
        BY <1>1, <1>4, <3>1, <3>3, <4>1
      <4> QED BY <4>2, <4>3, <4>4
    <3> QED BY <2>1, <3>3 DEF Holding
  <2>3. Posted(q)'
    <3>1. job[q].pc = "stamping" => job[q].issue \in DOMAIN issues
      BY <2>1 DEF Jobs, Idle
    <3> QED BY <1>5, <2>1, <3>1 DEF IInv, Posted
  <2> QED BY <2>2, <2>3
<1>11. TwiceOnlyIfOverlapping'
  <2> SUFFICES ASSUME NEW m \in DOMAIN issues', NEW n \in DOMAIN issues', m < n,
                      issues'[m].items \cap issues'[n].items # {}
               PROVE  m > issues'[n].after
    BY DEF TwiceOnlyIfOverlapping
  <2>1. m \in DOMAIN issues /\ issues'[m] = issues[m]
    BY <1>1, <1>4
  <2>2. CASE n \in DOMAIN issues
    BY <1>4, <2>1, <2>2 DEF IInv, TwiceOnlyIfOverlapping
  <2>3. CASE n = Len(issues) + 1
    <3>1. \A k \in 1 .. job[p].after : job[p].items \cap issues[k].items = {}
      BY <1>2 DEF IInv, Holding
    <3>2. issues'[n].items = job[p].items /\ issues'[n].after = job[p].after
      BY <1>3, <1>4, <2>3
    <3> QED BY <1>1, <1>2, <2>1, <3>1, <3>2
  <2> QED BY <1>1, <1>4, <2>2, <2>3
<1>12. SentIsMailed'
  <2> SUFFICES ASSUME NEW n \in DOMAIN issues', issues'[n].sent PROVE mailed'[n] > 0
    BY DEF SentIsMailed
  <2>1. n \in DOMAIN issues
    BY <1>1, <1>3, <1>4
  <2> QED BY <1>4, <1>5, <2>1 DEF IInv, SentIsMailed
<1> QED BY <1>9, <1>10, <1>11, <1>12 DEF IInv

\* The mail is sent before the stamp: a success is in the mail.
LEMMA SendKeeps ==
  ASSUME IInv, NEW p \in Processes, Send(p)
  PROVE  IInv'
<1> DEFINE n == job[p].issue
<1>1. /\ issues \in Seq(Rows) /\ mailed \in Seq(Nat) /\ Len(mailed) = Len(issues)
      /\ job \in [Processes -> Jobs] /\ Len(issues) \in Nat
      /\ DOMAIN issues = 1 .. Len(issues) /\ DOMAIN mailed = 1 .. Len(issues)
  BY DEF IInv, TypeOK
<1>2. n \in DOMAIN issues /\ mailed[n] \in Nat
  BY <1>1 DEF Send, Jobs, Idle
<1>3. PICK taken \in {0, 1}, ok \in BOOLEAN :
        /\ mailed' = [mailed EXCEPT ![n] = @ + taken] /\ (ok => taken = 1)
        /\ job' = [job EXCEPT ![p] = Stamping(n, ok)]
        /\ faults' \in Nat
  <2>1. faults \in Nat
    BY DEF IInv, TypeOK
  <2>2. CASE mailed' = [mailed EXCEPT ![n] = @ + 1] /\ job' = [job EXCEPT ![p] = Stamping(n, TRUE)]
             /\ UNCHANGED faults
    BY <2>1, <2>2
  <2>3. CASE \E t \in {0, 1} : /\ mailed' = [mailed EXCEPT ![n] = @ + t] /\ faults' = faults + 1
                               /\ job' = [job EXCEPT ![p] = Stamping(n, FALSE)]
    <3>1. faults' \in Nat
      BY <2>1, <2>3
    <3> QED BY <2>3, <3>1
  <2> HIDE DEF n, Stamping
  <2> QED BY <2>2, <2>3 DEF Send, n
<1>4. UNCHANGED <<issues, mode, age, wanted, readable, cronIn, moves, queued, lapsed, bare>>
  BY DEF Send, world
<1> HIDE DEF n
<1>5. /\ mailed' \in Seq(Nat) /\ Len(mailed') = Len(mailed)
      /\ mailed'[n] = mailed[n] + taken
      /\ \A m \in DOMAIN issues : mailed'[m] >= mailed[m]
  BY <1>1, <1>2, <1>3
<1>6. Stamping(n, ok) \in Jobs /\ Stamping(n, ok).pc = "stamping"
      /\ Stamping(n, ok).issue = n /\ Stamping(n, ok).ok = ok
  BY <1>2 DEF Jobs, Stamping
<1>7. \A q \in Processes : job'[q] = IF q = p THEN Stamping(n, ok) ELSE job[q]
  BY <1>1, <1>3
<1> HIDE DEF Stamping
<1>8. TypeOK'
  BY <1>1, <1>3, <1>4, <1>5, <1>6 DEF IInv, TypeOK, Jobs
<1>9. \A q \in Processes : Holding(q)' /\ Posted(q)'
  <2> SUFFICES ASSUME NEW q \in Processes PROVE Holding(q)' /\ Posted(q)'
    OBVIOUS
  <2>1. CASE q = p
    BY <1>2, <1>3, <1>5, <1>6, <1>7, <2>1 DEF Holding, Posted
  <2>2. CASE q # p
    <3>1. job'[q] = job[q] /\ (job[q].pc = "stamping" => job[q].issue \in DOMAIN issues)
      BY <1>1, <1>7, <2>2 DEF Jobs, Idle
    <3>2. \A m \in DOMAIN issues : mailed[m] > 0 => mailed'[m] > 0
      BY <1>1, <1>5
    <3> QED BY <1>4, <3>1, <3>2 DEF IInv, Holding, Posted
  <2> QED BY <2>1, <2>2
<1>10. SentIsMailed'
  BY <1>1, <1>4, <1>5 DEF IInv, SentIsMailed
<1> QED BY <1>4, <1>8, <1>9, <1>10 DEF IInv, TwiceOnlyIfOverlapping

\* The stamp is only set by a process that saw the mail go.
LEMMA StampKeeps ==
  ASSUME IInv, NEW p \in Processes, Stamp(p)
  PROVE  IInv'
<1> DEFINE n == job[p].issue
           row == [issues[n] EXCEPT !.sent = job[p].ok]
<1>1. /\ issues \in Seq(Rows) /\ mailed \in Seq(Nat) /\ Len(mailed) = Len(issues)
      /\ job \in [Processes -> Jobs] /\ Len(issues) \in Nat
      /\ DOMAIN issues = 1 .. Len(issues) /\ DOMAIN mailed = 1 .. Len(issues)
  BY DEF IInv, TypeOK
<1>2. n \in DOMAIN issues /\ job[p].ok \in BOOLEAN
  BY <1>1 DEF Stamp, Jobs, Idle
<1>3. /\ row \in Rows /\ row.sent = job[p].ok /\ row.items = issues[n].items
      /\ row.after = issues[n].after
  <2>1. issues[n] \in Rows
    BY <1>1, <1>2
  <2> QED BY <1>2, <2>1 DEF Rows
<1>4. issues' = [issues EXCEPT ![n] = row]
  BY <1>1, <1>2 DEF Stamp
<1>5. job[p].ok => mailed[n] > 0
  BY DEF Stamp, IInv, Posted
<1>6. UNCHANGED <<mailed, mode, age, wanted, readable, cronIn, moves, queued, lapsed, bare,
                  faults>>
      /\ job' = [job EXCEPT ![p] = Idle]
  BY DEF Stamp, world
<1> HIDE DEF n, row
<1>7. /\ issues' \in Seq(Rows) /\ Len(issues') = Len(issues) /\ DOMAIN issues' = DOMAIN issues
  BY <1>1, <1>2, <1>3, <1>4, Rewritten
<1>8. \A m \in DOMAIN issues : /\ issues'[m].items = issues[m].items
                               /\ issues'[m].after = issues[m].after
                               /\ issues'[m].sent => issues[m].sent \/ mailed[m] > 0
  BY <1>1, <1>2, <1>3, <1>4, <1>5
<1>9. Idle \in Jobs /\ Idle.pc = "idle"
  BY DEF Jobs, Idle
<1>10. \A q \in Processes : job'[q] = IF q = p THEN Idle ELSE job[q]
  BY <1>1, <1>6
<1> HIDE DEF Idle
<1>11. TypeOK'
  BY <1>1, <1>6, <1>7, <1>9 DEF IInv, TypeOK, Jobs
<1>12. \A q \in Processes : Holding(q)' /\ Posted(q)'
  <2> SUFFICES ASSUME NEW q \in Processes, q # p PROVE Holding(q)' /\ Posted(q)'
    BY <1>9, <1>10 DEF Holding, Posted
  <2>1. job'[q] = job[q] /\ job[q] \in Jobs
    BY <1>1, <1>10
  <2>2. ASSUME job[q].pc = "converting"
        PROVE  \A m \in 1 .. job[q].after : m \in DOMAIN issues
    <3>1. job[q].after \in Nat /\ job[q].after <= Len(issues)
      BY <2>1, <2>2 DEF Jobs, Idle, IInv, Holding
    <3> QED BY <1>1, <3>1
  <2> QED BY <1>6, <1>7, <1>8, <2>1, <2>2 DEF IInv, Holding, Posted
<1>13. TwiceOnlyIfOverlapping'
  BY <1>7, <1>8 DEF IInv, TwiceOnlyIfOverlapping
<1>14. SentIsMailed'
  BY <1>6, <1>7, <1>8 DEF IInv, SentIsMailed
<1> QED BY <1>11, <1>12, <1>13, <1>14 DEF IInv

\* Every step keeps the invariant.
LEMMA Steps == IInv /\ [Next]_vars => IInv'
<1> SUFFICES ASSUME IInv, [Next]_vars PROVE IInv'
  OBVIOUS
<1>1. CASE UNCHANGED vars
  <2>1. TypeOK'
    BY <1>1 DEF vars, IInv, TypeOK, Jobs
  <2> QED BY <1>1, <2>1, Untouched DEF vars
<1>2. CASE (\E i \in Items : Arrive(i) \/ StoreReading(i) \/ Toggle(i)) \/ Tick \/ Cron \/ MissCron
  BY <1>2, WorldKeeps
<1>3. CASE BuildByTimer
  <2>1. bare' \subseteq Items
    BY <1>3 DEF BuildByTimer, Seen
  <2> QED BY <1>3, <2>1, SelectKeeps DEF BuildByTimer, world, mail, Processes
<1>4. CASE \E p \in Hands : BuildByHand(p)
  <2>1. queued \in BOOLEAN /\ bare \subseteq Items
    BY DEF IInv, TypeOK
  <2> QED BY <1>4, <2>1, SelectKeeps DEF BuildByHand, world, mail, Processes
<1>5. CASE \E p \in Hands : Resend(p)
  BY <1>5, ResendKeeps DEF Processes
<1>6. CASE \E p \in Processes : Record(p) \/ FailToConvert(p) \/ Send(p) \/ Stamp(p) \/ Kill(p)
  BY <1>6, RecordKeeps, StopKeeps, SendKeeps, StampKeeps
<1> QED BY <1>1, <1>2, <1>3, <1>4, <1>5, <1>6 DEF Next

-----------------------------------------------------------------------------
\* Every state the periodical can reach is well typed.
THEOREM TypeCorrect == Spec => []TypeOK
<1>1. IInv => TypeOK
  BY DEF IInv
<1> QED BY Starts, Steps, <1>1, PTL DEF Spec

\* An item is in a second issue only if the two were built at once: neither a failed mail, nor a
\* kill, nor a resend sends it out of the ledger again.
THEOREM NothingGoesTwice == Spec => []TwiceOnlyIfOverlapping
<1>1. IInv => TwiceOnlyIfOverlapping
  BY DEF IInv
<1> QED BY Starts, Steps, <1>1, PTL DEF Spec

\* An issue with a sent_at has reached Amazon.
THEOREM StampedIsMailed == Spec => []SentIsMailed
<1>1. IInv => SentIsMailed
  BY DEF IInv
<1> QED BY Starts, Steps, <1>1, PTL DEF Spec

-----------------------------------------------------------------------------
(* What no build has taken yet is still due to the next one.               *)

Carried == UNION {Carrying(p) : p \in Processes}
Covered == Ledger \cup lapsed \cup bare \cup Carried

\* Seen, never lapsed or passed over, and in no build's hands yet: the next build takes it, if it
\* comes in time and there is text.
Awaited == Seen \ Covered

\* The cron fires, and with it the build, before an awaited item is a period old.
OnTime ==
  /\ Seen \ lapsed \subseteq wanted
  /\ cronIn <= Period
  /\ mode # "off" =>
       \A i \in Awaited : age[i] + (IF queued THEN 0 ELSE cronIn) <= Period

\* A step that only takes items into hand, into an issue or off the list.
LEMMA CoveredGrows ==
  ASSUME OnTime, UNCHANGED <<age, wanted, cronIn, queued, mode>>, Covered \subseteq Covered',
         lapsed \subseteq lapsed'
  PROVE  OnTime'
<1>1. Seen' = Seen
  BY DEF Seen
<1>2. Awaited' \subseteq Awaited
  BY <1>1 DEF Awaited
<1>3. \A i \in Awaited' : age'[i] + (IF queued' THEN 0 ELSE cronIn') <= Period
                            <=> age[i] + (IF queued THEN 0 ELSE cronIn) <= Period
  OBVIOUS
<1> QED
  BY <1>1, <1>2, <1>3 DEF OnTime

\* The covered items, of a step of one process that leaves the others' hands alone.
LEMMA StillCovered ==
  ASSUME IInv, NEW p \in Processes, NEW j, job' = [job EXCEPT ![p] = j],
         Ledger \subseteq Ledger', lapsed \subseteq lapsed', bare' = bare,
         Carrying(p) \subseteq Covered'
  PROVE  Covered \subseteq Covered'
<1>1. \A q \in Processes \ {p} : job'[q] = job[q]
  BY DEF IInv, TypeOK
<1>2. \A q \in Processes \ {p} : Carrying(q)' = Carrying(q)
  BY <1>1 DEF Carrying
<1>3. Carried \subseteq Covered'
  <2> SUFFICES ASSUME NEW i \in Carried PROVE i \in Covered'
    OBVIOUS
  <2>1. PICK q \in Processes : i \in Carrying(q)
    BY DEF Carried
  <2>2. CASE q = p
    BY <2>1, <2>2
  <2>3. CASE q # p
    BY <1>2, <2>1, <2>3 DEF Covered, Carried
  <2> QED
    BY <2>2, <2>3
<1> QED
  BY <1>3 DEF Covered

\* Nothing is in the hands of a process that starts a build, posts or stamps.
LEMMA EmptyHands ==
  ASSUME IInv, OnTime, NEW p \in Processes, NEW j, job' = [job EXCEPT ![p] = j],
         job[p].pc # "converting", Ledger \subseteq Ledger',
         UNCHANGED <<age, wanted, cronIn, queued, mode, lapsed, bare>>
  PROVE  OnTime'
<1>1. Carrying(p) = {}
  BY DEF Carrying
<1>2. Covered \subseteq Covered'
  BY <1>1, StillCovered
<1> QED
  BY <1>2, CoveredGrows

\* An issue recorded holds what its build carried.
LEMMA RecordOnTime ==
  ASSUME IInv, OnTime, NEW p \in Processes, Record(p)
  PROVE  OnTime'
<1>1. PICK row : row = [items |-> job[p].items, sent |-> FALSE, after |-> job[p].after]
  OBVIOUS
<1>2. PICK next : next = IF mode = "posted" THEN Posting(Len(issues')) ELSE Idle
  OBVIOUS
<1>3. issues \in Seq(Rows) /\ Len(issues) \in Nat /\ DOMAIN issues = 1 .. Len(issues)
  BY DEF IInv, TypeOK
<1>4. /\ job[p].pc = "converting" /\ job' = [job EXCEPT ![p] = next]
      /\ issues' = Append(issues, row)
      /\ UNCHANGED <<age, wanted, cronIn, queued, mode, lapsed, bare>>
  BY <1>1, <1>2 DEF Record, world
<1>5. row \in Rows /\ row.items = job[p].items
  <2>1. job[p] \in Jobs
    BY DEF IInv, TypeOK
  <2>2. job[p].items \subseteq Items /\ job[p].after \in Nat
    BY <1>4, <2>1 DEF Jobs, Idle
  <2> QED
    BY <1>1, <2>2 DEF Rows
<1>6. /\ DOMAIN issues' = 1 .. Len(issues) + 1
      /\ \A n \in DOMAIN issues : issues'[n] = issues[n]
      /\ issues'[Len(issues) + 1] = row
  BY <1>3, <1>4, <1>5, Appended
<1>7. Ledger \subseteq Ledger'
  BY <1>3, <1>6 DEF Ledger
<1>8. Carrying(p) \subseteq Ledger'
  <2>1. Len(issues) + 1 \in DOMAIN issues'
    BY <1>3, <1>6
  <2> QED
    BY <1>4, <1>5, <1>6, <2>1 DEF Ledger, Carrying
<1>9. Covered \subseteq Covered'
  BY <1>4, <1>7, <1>8, StillCovered DEF Covered
<1> QED
  BY <1>4, <1>9, CoveredGrows

\* A build that comes to nothing lets its items lapse.
LEMMA StopOnTime ==
  ASSUME IInv, OnTime, NEW p \in Processes, FailToConvert(p) \/ Kill(p)
  PROVE  OnTime'
<1>1. /\ job' = [job EXCEPT ![p] = Idle] /\ lapsed' = lapsed \cup Carrying(p)
      /\ UNCHANGED <<age, wanted, cronIn, queued, mode, issues, bare>>
  BY DEF FailToConvert, Kill, world, mail
<1>2. PICK j : j = Idle
  OBVIOUS
<1>3. Ledger' = Ledger
  BY <1>1 DEF Ledger
<1>4. Covered \subseteq Covered'
  BY <1>1, <1>2, <1>3, StillCovered DEF Covered
<1> QED
  BY <1>1, <1>4, CoveredGrows

\* Neither the mail nor the stamp takes an item out of the ledger.
LEMMA MailOnTime ==
  ASSUME IInv, OnTime, NEW p \in Processes, Resend(p) \/ Send(p) \/ Stamp(p)
  PROVE  OnTime'
<1>1. job[p].pc # "converting"
  <2>1. CASE Resend(p)
    BY <2>1 DEF Resend, Idle
  <2>2. CASE Send(p) \/ Stamp(p)
    BY <2>2 DEF Send, Stamp
  <2> QED
    BY <2>1, <2>2
<1>2. UNCHANGED <<age, wanted, cronIn, queued, mode, lapsed, bare>>
  BY DEF Resend, Send, Stamp, world
<1>3. PICK j : job' = [job EXCEPT ![p] = j]
  <2>1. CASE Resend(p)
    BY <2>1 DEF Resend
  <2>2. CASE Send(p)
    BY <2>2 DEF Send
  <2>3. CASE Stamp(p)
    BY <2>3 DEF Stamp
  <2> QED
    BY <2>1, <2>2, <2>3
<1>4. Ledger' = Ledger
  <2>1. CASE Resend(p) \/ Send(p)
    BY <2>1 DEF Resend, Send, mail, Ledger
  <2>2. CASE Stamp(p)
    <3>1. PICK n : n = job[p].issue
      OBVIOUS
    <3>2. PICK ok : ok = job[p].ok
      OBVIOUS
    <3>3. issues' = [issues EXCEPT ![n].sent = ok]
      BY <2>2, <3>1, <3>2 DEF Stamp
    <3>4. issues \in Seq(Rows)
      BY DEF IInv, TypeOK
    <3>5. DOMAIN issues' = DOMAIN issues
      BY <3>3, <3>4
    <3>6. \A m \in DOMAIN issues : issues'[m].items = issues[m].items
      BY <3>3, <3>4 DEF Rows
    <3> QED
      BY <3>5, <3>6 DEF Ledger
  <2> QED
    BY <2>1, <2>2
<1> QED
  BY <1>1, <1>2, <1>3, <1>4, EmptyHands

\* A build by hand takes what it finds, and a quiet week ends it.
LEMMA HandOnTime ==
  ASSUME IInv, OnTime, NEW p \in Processes, BuildByHand(p)
  PROVE  OnTime'
<1>1. PICK j : job' = [job EXCEPT ![p] = j]
  BY DEF BuildByHand, Select
<1>2. job[p].pc # "converting"
  BY DEF BuildByHand, Idle
<1>3. UNCHANGED <<age, wanted, cronIn, queued, mode, lapsed, bare, issues>>
  BY DEF BuildByHand, world, mail
<1>4. Ledger' = Ledger
  BY <1>3 DEF Ledger
<1> QED
  BY <1>1, <1>2, <1>3, <1>4, EmptyHands


\* The build the cron deferred finds every awaited item inside the window: what has text it
\* takes, and what has none is passed over.
LEMMA TimerOnTime ==
  ASSUME IInv, OnTime, Period <= Window, BuildByTimer
  PROVE  OnTime'
<1>1. /\ queued /\ job[Worker] = Idle /\ queued' = FALSE /\ Select(Worker)
      /\ bare' = {i \in Seen : IF age[i] <= Window THEN i \notin readable ELSE i \in bare}
      /\ UNCHANGED <<age, wanted, cronIn, mode, lapsed, issues>>
  BY DEF BuildByTimer, world, mail
<1>2. Seen' = Seen /\ Ledger' = Ledger
  BY <1>1 DEF Seen, Ledger
<1>3. Queued \subseteq Carried'
  <2> SUFFICES ASSUME Queued # {} PROVE Queued \subseteq Carried'
    OBVIOUS
  <2>1. PICK taken : taken = Queued
    OBVIOUS
  <2>2. PICK j : j = Converting(taken, Len(issues))
    OBVIOUS
  <2>3. job' = [job EXCEPT ![Worker] = j]
    BY <1>1, <2>1, <2>2 DEF Select
  <2>4. j.pc = "converting" /\ j.items = taken
    BY <2>2 DEF Converting
  <2>5. Worker \in Processes
    BY DEF Processes
  <2>6. Carrying(Worker)' = taken
    BY <2>3, <2>4, <2>5 DEF Carrying, IInv, TypeOK
  <2> QED
    BY <2>1, <2>5, <2>6 DEF Carried
<1>4. Carried \subseteq Carried'
  <2> SUFFICES ASSUME NEW p \in Processes, NEW i \in Carrying(p) PROVE i \in Carrying(p)'
    BY DEF Carried
  <2>1. p # Worker
    BY <1>1 DEF Carrying, Idle
  <2>2. job'[p] = job[p]
    BY <1>1, <2>1 DEF Select, IInv, TypeOK
  <2> QED
    BY <2>2 DEF Carrying
<1>5. ASSUME mode # "off", NEW i \in Seen, i \notin Ledger \cup lapsed \cup Carried
      PROVE  i \in Covered'
  <2>1. i \in wanted
    BY <1>5 DEF OnTime
  <2>2. CASE age[i] <= Window
    <3>1. CASE i \in readable
      BY <1>3, <1>5, <2>1, <2>2, <3>1 DEF Queued, Covered
    <3>2. CASE i \notin readable
      BY <1>1, <2>2, <3>2 DEF Covered
    <3> QED
      BY <3>1, <3>2
  <2>3. CASE ~ (age[i] <= Window)
    <3>1. age[i] \in Nat
      BY DEF Seen, IInv, TypeOK
    <3>2. i \notin Awaited
      <4> SUFFICES ASSUME i \in Awaited PROVE FALSE
        OBVIOUS
      <4>1. age[i] + 0 <= Period
        BY <1>1, <1>5 DEF OnTime
      <4> QED
        BY <2>3, <3>1, <4>1, KindleAssumption
    <3>3. i \in bare
      BY <1>5, <3>2 DEF Awaited, Covered
    <3> QED
      BY <1>1, <2>3, <3>3 DEF Covered
  <2> QED
    BY <2>2, <2>3
<1>6. mode # "off" => Awaited' = {}
  <2> SUFFICES ASSUME mode # "off", NEW i \in Seen PROVE i \in Covered'
    BY <1>2 DEF Awaited
  <2>1. CASE i \in Ledger \cup lapsed \cup Carried
    BY <1>1, <1>2, <1>4, <2>1 DEF Covered
  <2>2. CASE i \notin Ledger \cup lapsed \cup Carried
    BY <1>5, <2>2
  <2> QED
    BY <2>1, <2>2
<1> QED
  BY <1>1, <1>2, <1>6 DEF OnTime

\* An item arrives awaited for at most a period.
LEMMA ArriveOnTime ==
  ASSUME IInv, OnTime, NEW i \in Items, Arrive(i)
  PROVE  OnTime'
<1>1. /\ age' = [age EXCEPT ![i] = 0] /\ age \in [Items -> Nat \cup {Unseen}]
      /\ UNCHANGED <<mode, issues, cronIn, queued, job, lapsed, bare>>
      /\ wanted' = wanted \cup {i}
  BY DEF Arrive, mail, IInv, TypeOK
<1>2. Seen' = Seen \cup {i} /\ \A k \in Items \ {i} : age'[k] = age[k]
  BY <1>1, KindleAssumption DEF Seen
<1>3. Awaited' \subseteq Awaited \cup {i}
  BY <1>1, <1>2 DEF Awaited, Covered, Ledger, Carried, Carrying
<1>4. Seen' \ lapsed' \subseteq wanted'
  BY <1>1, <1>2 DEF OnTime
<1>5. cronIn \in Nat /\ cronIn <= Period /\ Period \in Nat
  BY KindleAssumption DEF OnTime, IInv, TypeOK
<1>6. ASSUME mode # "off", NEW k \in Awaited'
      PROVE  age'[k] + (IF queued THEN 0 ELSE cronIn) <= Period
  <2>1. CASE k = i
    <3>1. age'[k] = 0
      BY <1>1, <2>1
    <3> QED
      BY <1>5, <3>1
  <2>2. CASE k # i
    <3>1. k \in Awaited /\ k \in Items /\ age'[k] = age[k]
      BY <1>2, <1>3, <2>2 DEF Awaited, Seen
    <3> QED
      BY <1>6, <3>1 DEF OnTime
  <2> QED
    BY <2>1, <2>2
<1> QED
  BY <1>1, <1>4, <1>5, <1>6 DEF OnTime

\* A reading moves neither clock nor ledger.
LEMMA ReadingOnTime ==
  ASSUME OnTime, NEW i \in Items, StoreReading(i)
  PROVE  OnTime'
<1>1. UNCHANGED <<mode, age, wanted, issues, cronIn, queued, job, lapsed, bare>>
  BY DEF StoreReading, mail
<1> QED
  BY <1>1 DEF OnTime, Awaited, Covered, Ledger, Carried, Carrying, Seen

\* What the reader changes their mind about has lapsed.
LEMMA ToggleOnTime ==
  ASSUME IInv, OnTime, NEW i \in Items, Toggle(i)
  PROVE  OnTime'
<1>1. /\ UNCHANGED <<mode, age, issues, cronIn, queued, job, bare>> /\ lapsed' = lapsed \cup {i}
      /\ wanted \ {i} \subseteq wanted'
  BY DEF Toggle, mail
<1>2. Seen' = Seen
  BY <1>1 DEF Seen
<1>3. Awaited' \subseteq Awaited
  BY <1>1, <1>2 DEF Awaited, Covered, Ledger, Carried, Carrying
<1>4. Seen' \ lapsed' \subseteq wanted'
  BY <1>1, <1>2 DEF OnTime
<1> QED
  BY <1>1, <1>3, <1>4 DEF OnTime

\* What was missed, or is still waiting on a later day, has lapsed.
LEMMA AllLapsed ==
  ASSUME OnTime, lapsed' = lapsed \cup Seen, Seen' = Seen, cronIn' <= Period
  PROVE  OnTime'
<1>1. Awaited' = {} /\ Seen' \ lapsed' = {}
  BY DEF Awaited, Covered
<1> QED
  BY <1>1 DEF OnTime

\* A day brings an awaited item and the cron a day nearer to each other.
LEMMA TickOnTime ==
  ASSUME IInv, OnTime, Tick
  PROVE  OnTime'
<1>1. /\ cronIn > 0 /\ cronIn' = cronIn - 1 /\ cronIn \in Nat /\ cronIn <= Period /\ Period \in Nat
      /\ age' = [k \in Items |-> IF k \in Seen /\ age[k] <= Window THEN age[k] + 1 ELSE age[k]]
      /\ lapsed' = IF queued THEN lapsed \cup Seen ELSE lapsed
      /\ UNCHANGED <<mode, wanted, issues, queued, job, bare>>
  BY KindleAssumption DEF Tick, mail, OnTime, IInv, TypeOK
<1>2. \A k \in Seen : k \in Items /\ age[k] \in Nat /\ age'[k] \in Nat /\ age'[k] <= age[k] + 1
  BY <1>1 DEF Seen, IInv, TypeOK
<1>3. Seen' = Seen
  <2>1. \A k \in Items \ Seen : age'[k] = age[k]
    BY <1>1
  <2> QED
    BY <1>2, <2>1, KindleAssumption DEF Seen
<1>4. cronIn' \in Nat /\ cronIn' <= Period
  BY <1>1
<1>5. CASE queued
  BY <1>1, <1>3, <1>4, <1>5, AllLapsed
<1>6. CASE ~ queued
  <2>1. lapsed' = lapsed /\ ~ queued'
    BY <1>1, <1>6
  <2>2. Awaited' = Awaited
    BY <1>1, <1>3, <2>1 DEF Awaited, Covered, Ledger, Carried, Carrying
  <2>3. ASSUME mode # "off", NEW k \in Awaited
        PROVE  age'[k] + cronIn' <= Period
    <3>1. age[k] + cronIn <= Period
      BY <1>6, <2>3 DEF OnTime
    <3>2. age[k] \in Nat /\ age'[k] \in Nat /\ age'[k] <= age[k] + 1
      BY <1>2 DEF Awaited
    <3> QED
      BY <1>1, <1>4, <3>1, <3>2
  <2>4. Seen' \ lapsed' \subseteq wanted'
    BY <1>1, <1>3, <2>1 DEF OnTime
  <2> QED
    BY <1>1, <1>4, <2>1, <2>2, <2>3, <2>4 DEF OnTime
<1> QED
  BY <1>5, <1>6

\* When it fires, nothing awaited is older than a period.
LEMMA CronOnTime ==
  ASSUME IInv, OnTime, Cron \/ MissCron
  PROVE  OnTime'
<1>1. /\ cronIn = 0 /\ cronIn' = Period /\ Period \in Nat
      /\ UNCHANGED <<mode, age, wanted, issues, job, bare>>
  BY KindleAssumption DEF Cron, MissCron, mail
<1>2. Seen' = Seen
  BY <1>1 DEF Seen
<1>3. CASE MissCron
  BY <1>1, <1>2, <1>3, AllLapsed DEF MissCron
<1>4. CASE Cron
  <2>1. lapsed' = lapsed /\ (mode # "off" => queued')
    BY <1>4 DEF Cron
  <2>2. Awaited' = Awaited
    BY <1>1, <1>2, <2>1 DEF Awaited, Covered, Ledger, Carried, Carrying
  <2>3. ASSUME mode # "off", NEW k \in Awaited
        PROVE  age'[k] + (IF queued' THEN 0 ELSE cronIn') <= Period
    <3>1. age[k] + 0 <= Period
      BY <1>1, <2>3 DEF OnTime
    <3> QED
      BY <1>1, <2>1, <2>3, <3>1
  <2> QED
    BY <1>1, <1>2, <2>1, <2>2, <2>3 DEF OnTime
<1> QED
  BY <1>3, <1>4

LEMMA OnTimeSteps == Period <= Window /\ IInv /\ OnTime /\ [Next]_vars => OnTime'
<1> SUFFICES ASSUME Period <= Window, IInv, OnTime, [Next]_vars PROVE OnTime'
  OBVIOUS
<1>1. CASE UNCHANGED vars
  <2>1. UNCHANGED <<mode, age, wanted, issues, cronIn, queued, job, lapsed, bare>>
    BY <1>1 DEF vars
  <2> QED
    BY <2>1 DEF OnTime, Awaited, Covered, Ledger, Carried, Carrying, Seen
<1>2. CASE \E i \in Items : Arrive(i) \/ StoreReading(i) \/ Toggle(i)
  BY <1>2, ArriveOnTime, ReadingOnTime, ToggleOnTime
<1>3. CASE Tick \/ Cron \/ MissCron
  BY <1>3, TickOnTime, CronOnTime
<1>4. CASE BuildByTimer
  BY <1>4, TimerOnTime
<1>5. CASE \E p \in Hands : BuildByHand(p) \/ Resend(p)
  BY <1>5, HandOnTime, MailOnTime DEF Processes
<1>6. CASE \E p \in Processes : Record(p) \/ FailToConvert(p) \/ Send(p) \/ Stamp(p) \/ Kill(p)
  BY <1>6, RecordOnTime, StopOnTime, MailOnTime
<1> QED
  BY <1>1, <1>2, <1>3, <1>4, <1>5, <1>6 DEF Next

\* A window as long as the time between two builds loses nothing that has text in time: an item
\* readable when the last build of its window looks is in an issue or in a build's hands before
\* it is too old, unless a build that should have taken it came late, failed or was missed, or
\* the reader changed their mind (config/kindle.py:10-15, a week and a week).
THEOREM WindowIsLongEnough ==
  ASSUME Period <= Window PROVE Spec => []OnlyLapsesLose
<1>1. Init => OnTime
  <2> SUFFICES ASSUME Init PROVE OnTime
    OBVIOUS
  <2>1. Seen = {} /\ cronIn = Period
    BY DEF Init, Seen
  <2>2. Awaited = {}
    BY <2>1 DEF Awaited
  <2> QED
    BY <2>1, <2>2, KindleAssumption DEF OnTime
<1>2. IInv /\ OnTime => OnlyLapsesLose
  <2> SUFFICES ASSUME IInv, OnTime, mode # "off", NEW i \in Seen, age[i] > Window, i \in Awaited
               PROVE  FALSE
    BY DEF OnlyLapsesLose, Awaited, Covered, Carried
  <2>1. age[i] \in Nat /\ cronIn \in Nat
    BY DEF Seen, IInv, TypeOK
  <2>2. age[i] + (IF queued THEN 0 ELSE cronIn) <= Period
    BY DEF OnTime
  <2> QED
    BY <2>1, <2>2, KindleAssumption
<1> QED
  BY Starts, Steps, <1>1, <1>2, OnTimeSteps, PTL DEF Spec
=============================================================================
