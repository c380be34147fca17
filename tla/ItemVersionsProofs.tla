------------------------- MODULE ItemVersionsProofs -------------------------
(***************************************************************************)
(* The version chains of ItemVersions, for any feeds, documents and number *)
(* of overlapping transactions.                                            *)
(*                                                                         *)
(* Chained is not inductive alone.  A commit adds at most one version of   *)
(* an item because a transaction read at most one head of it (HeadsRead),  *)
(* that head is still the head when the row goes in because the unique     *)
(* index on supersedes says so, and nothing supersedes the new row already *)
(* because no key is as young as the clock (Stamped).                      *)
(*                                                                         *)
(* The refinement of Archive rests on AloneInv: until two polls of a feed  *)
(* overlap, what an open transaction has read is still so when it commits  *)
(* (StillSo) and its document will be the newest (DocumentsDated), so its  *)
(* commit is one step of Archive, and nothing before it is.                *)
(***************************************************************************)
EXTENDS ItemVersionsAlone, WellFoundedInduction, TLAPS

Stamped ==
  \A v \in versions :
    v.id.stamp < clock /\ (v.supersedes # NoVersion => v.supersedes.stamp < clock)

Keyed == \A u, v \in versions : u.id = v.id => u = v

HeadsRead ==
  \A w \in Writers : txn[w].pc = "applying" =>
    /\ txn[w].heads \subseteq versions
    /\ \A v \in txn[w].heads : v.id.feed = txn[w].feed
    /\ \A u, v \in txn[w].heads : u.id.item = v.id.item => u = v

IInv == TypeOK /\ Stamped /\ Keyed /\ HeadsRead /\ Chained /\ EditsChange

-----------------------------------------------------------------------------
\* A set of naturals that is not empty has a least element.
LEMMA Least ==
  ASSUME NEW S \in SUBSET Nat, S # {}
  PROVE  \E n \in S : \A m \in S : n <= m
<1>1. PICK n \in S : \A m \in S : ~ (<<m, n>> \in OpToRel(<, Nat))
  BY WFMin, NatLessThanWellFounded
<1>2. \A m \in S : ~ (m < n)
  BY <1>1 DEF OpToRel
<1> QED
  BY <1>2

\* An element of a sequence is of the sequence's type.
LEMMA Element ==
  ASSUME NEW S, NEW s \in Seq(S), NEW k \in DOMAIN s
  PROVE  s[k] \in S
OBVIOUS

\* What a document says of an item is a text, or that it says nothing.
LEMMA SaidType ==
  ASSUME NEW b \in Bodies, NEW i
  PROVE  FirstSaid(b, i) \in Texts \cup {Unsaid}
<1>1. CASE Mentions(b, i) = {}
  BY <1>1 DEF FirstSaid
<1>2. CASE Mentions(b, i) # {}
  <2>1. Entries[b] \in Seq([item : Items, text : Texts])
    BY EntriesAssumption
  <2>2. Mentions(b, i) \in SUBSET Nat
    BY <2>1 DEF Mentions
  <2>3. \E n \in Mentions(b, i) : \A m \in Mentions(b, i) : n <= m
    BY <1>2, <2>2, Least
  <2> DEFINE n == CHOOSE n \in Mentions(b, i) : \A m \in Mentions(b, i) : n <= m
  <2>4. n \in Mentions(b, i)
    BY <2>3
  <2>5. FirstSaid(b, i) = Entries[b][n].text
    BY <1>2 DEF FirstSaid
  <2>6. \A k \in Mentions(b, i) : Entries[b][k].text \in Texts
    <3> SUFFICES ASSUME NEW k \in Mentions(b, i) PROVE Entries[b][k].text \in Texts
      OBVIOUS
    <3>1. k \in DOMAIN Entries[b]
      BY DEF Mentions
    <3>2. Entries[b][k] \in [item : Items, text : Texts]
      BY <2>1, <3>1, Element
    <3> QED
      BY <3>2
  <2> HIDE DEF n
  <2> QED
    BY <2>4, <2>5, <2>6
<1> QED
  BY <1>1, <1>2
-----------------------------------------------------------------------------
\* What a transaction that reached apply_items knows.
LEMMA ApplyingType ==
  ASSUME TypeOK, NEW w \in Writers, txn[w].pc = "applying"
  PROVE  /\ txn[w].feed \in Feeds /\ txn[w].body \in Bodies /\ txn[w].at \in Nat
         /\ txn[w].heads \in SUBSET versions
         /\ Document(w) \in Documents
<1>1. txn[w] \in Transactions /\ txn[w] \notin {Closed}
  BY DEF TypeOK, Closed
<1> QED
  BY <1>1 DEF Transactions, Document, Documents

\* Every row of a commit carries the clock and the transaction's feed, and either begins
\* an item nobody holds or follows a head that read otherwise.
LEMMA RowFacts ==
  ASSUME TypeOK, HeadsRead, NEW w \in Writers, txn[w].pc = "applying", ~ Violates(w),
         NEW r \in NewRows(w)
  PROVE  /\ r.id.feed = txn[w].feed /\ r.id.item \in Items /\ r.id.stamp = clock
         /\ r \in Versions
         /\ \/ /\ r.supersedes = NoVersion
               /\ VersionsOf(r.id.feed, r.id.item) = {}
            \/ \E v \in versions :
                 /\ v \in txn[w].heads /\ IsHead(v)
                 /\ r.supersedes = v.id /\ r.supersedes # NoVersion
                 /\ v.id.feed = r.id.feed /\ v.id.item = r.id.item
                 /\ v.id.stamp < clock /\ v.text # r.text
<1>1. clock \in Nat /\ versions \subseteq Versions
  BY DEF TypeOK
<1>2. CASE r \in Firsts(w)
  <2>1. PICK i \in Items : Says(w, i) # Unsaid /\ r = Row(w, i, NoVersion)
    BY <1>2 DEF Firsts
  <2>2. Says(w, i) \in Texts
    BY <2>1, SaidType, ApplyingType DEF Says
  <2>3. r \in Versions
    BY <1>1, <2>1, <2>2, ApplyingType DEF Row, Versions, Keys
  <2>4. VersionsOf(r.id.feed, r.id.item) = {}
    BY <2>1 DEF Violates, Row
  <2> QED
    BY <2>1, <2>3, <2>4 DEF Row
<1>3. CASE r \in Edits(w)
  <2>1. PICK v \in txn[w].heads :
          Says(w, v.id.item) \notin {Unsaid, v.text} /\ r = Row(w, v.id.item, v.id)
    BY <1>3 DEF Edits
  <2>2. v \in versions /\ v.id.feed = txn[w].feed
    BY ApplyingType DEF HeadsRead
  <2>3. v.id \in Keys /\ v.id.item \in Items /\ v.id.stamp \in Nat /\ v.id # NoVersion
    BY <1>1, <2>2, NoVersionAssumption DEF Versions, Keys
  <2>4. Says(w, v.id.item) \in Texts
    BY <2>1, SaidType, ApplyingType DEF Says
  <2>5. r \in Versions
    BY <1>1, <2>1, <2>3, <2>4, ApplyingType DEF Row, Versions, Keys
  <2>6. r.supersedes = v.id /\ r.id.stamp = clock
    BY <2>1 DEF Row
  <2>7. IsHead(v) /\ ~ (v.id.stamp >= clock)
    BY <2>3, <2>6 DEF Violates, IsHead
  <2> QED
    BY <1>1, <2>1, <2>2, <2>3, <2>5, <2>6, <2>7 DEF Row
<1> QED
  BY <1>2, <1>3 DEF NewRows

\* One version of an item per commit.
LEMMA OneRowPerItem ==
  ASSUME TypeOK, HeadsRead, NEW w \in Writers, txn[w].pc = "applying",
         NEW q \in NewRows(w), NEW r \in NewRows(w), q.id.item = r.id.item
  PROVE  q = r
<1>1. \A x \in Firsts(w) : x = Row(w, x.id.item, NoVersion) /\ Found(w, x.id.item) = {}
  BY DEF Firsts, Row
<1>2. \A x \in Edits(w) : \E v \in txn[w].heads :
        x = Row(w, v.id.item, v.id) /\ v.id.item = x.id.item /\ v \in Found(w, x.id.item)
  BY DEF Edits, Row, Found
<1>3. \A u, v \in txn[w].heads : u.id.item = v.id.item => u = v
  BY DEF HeadsRead
<1>4. CASE q \in Firsts(w) /\ r \in Firsts(w)
  BY <1>1, <1>4
<1>5. CASE q \in Edits(w) /\ r \in Edits(w)
  <2>1. PICK u \in txn[w].heads : q = Row(w, u.id.item, u.id) /\ u.id.item = q.id.item
    BY <1>2, <1>5
  <2>2. PICK v \in txn[w].heads : r = Row(w, v.id.item, v.id) /\ v.id.item = r.id.item
    BY <1>2, <1>5
  <2> QED
    BY <1>3, <2>1, <2>2
<1>6. CASE (q \in Firsts(w) /\ r \in Edits(w)) \/ (q \in Edits(w) /\ r \in Firsts(w))
  BY <1>1, <1>2, <1>6
<1> QED
  BY <1>4, <1>5, <1>6 DEF NewRows
-----------------------------------------------------------------------------
\* A commit keeps the types.
LEMMA CommitTypes ==
  ASSUME IInv, NEW w \in Writers, Commit(w)
  PROVE  TypeOK'
<1>1. TypeOK /\ HeadsRead /\ txn[w].pc = "applying" /\ ~ Violates(w)
  BY DEF IInv, Commit
<1>2. NewRows(w) \subseteq Versions
  BY <1>1, RowFacts
<1>3. versions' \subseteq Versions /\ documents' \subseteq Documents /\ clock' \in Nat
  BY <1>1, <1>2, ApplyingType DEF Commit, TypeOK
<1>4. validators' \in [Feeds -> Bodies \cup {NoBody}]
  BY <1>1, ApplyingType DEF Commit, TypeOK
<1>5. txn' \in [Writers -> Transactions']
  <2>1. versions \subseteq versions'
    BY DEF Commit
  <2>2. Transactions \subseteq Transactions' /\ Closed \in Transactions'
    BY <2>1 DEF Transactions
  <2> QED
    BY <1>1, <2>2 DEF Commit, TypeOK
<1> QED
  BY <1>3, <1>4, <1>5 DEF TypeOK

\* A commit keeps keys unique and younger than nothing: every new key is the clock's.
LEMMA CommitStamps ==
  ASSUME IInv, NEW w \in Writers, Commit(w)
  PROVE  Stamped' /\ Keyed'
<1>1. /\ TypeOK /\ HeadsRead /\ txn[w].pc = "applying" /\ ~ Violates(w)
      /\ Stamped /\ Keyed /\ clock \in Nat /\ clock' = clock + 1
      /\ versions' = versions \cup NewRows(w) /\ versions \subseteq Versions
  BY DEF IInv, Commit, TypeOK
<1>2. \A r \in NewRows(w) :
        r.id.stamp = clock /\ (r.supersedes # NoVersion => r.supersedes.stamp < clock)
  BY <1>1, RowFacts
<1>3. \A v \in versions : /\ v.id.stamp \in Nat /\ v.id.stamp < clock
                          /\ v.supersedes # NoVersion =>
                               v.supersedes.stamp \in Nat /\ v.supersedes.stamp < clock
  BY <1>1 DEF Versions, Keys, Stamped
<1>4. Stamped'
  <2> SUFFICES ASSUME NEW v \in versions'
               PROVE  v.id.stamp < clock'
                        /\ (v.supersedes # NoVersion => v.supersedes.stamp < clock')
    BY DEF Stamped
  <2>1. CASE v \in versions
    BY <1>1, <1>3, <2>1
  <2>2. CASE v \in NewRows(w)
    <3>1. /\ v.supersedes # NoVersion => v.supersedes \in Keys
      BY <1>1, <2>2, RowFacts DEF Versions
    <3> QED
      BY <1>1, <1>2, <2>2, <3>1 DEF Keys
  <2> QED
    BY <1>1, <2>1, <2>2
<1>5. Keyed'
  <2> SUFFICES ASSUME NEW u \in versions', NEW v \in versions', u.id = v.id
               PROVE  u = v
    BY DEF Keyed
  <2>1. CASE u \in versions /\ v \in versions
    BY <1>1, <2>1 DEF Keyed
  <2>2. CASE u \in NewRows(w) /\ v \in NewRows(w)
    BY <1>1, <2>2, OneRowPerItem
  <2>3. CASE (u \in versions /\ v \in NewRows(w)) \/ (u \in NewRows(w) /\ v \in versions)
    BY <1>1, <1>2, <1>3, <2>3
  <2> QED
    BY <1>1, <2>1, <2>2, <2>3
<1> QED
  BY <1>4, <1>5

\* A commit adds no second root and no second successor.
LEMMA CommitLinks ==
  ASSUME IInv, NEW w \in Writers, Commit(w)
  PROVE  OneRoot' /\ NoFork' /\ EditsChange'
<1>1. /\ TypeOK /\ HeadsRead /\ txn[w].pc = "applying" /\ ~ Violates(w)
      /\ OneRoot /\ NoFork /\ EditsChange /\ Keyed
      /\ versions' = versions \cup NewRows(w)
  BY DEF IInv, Commit, Chained
<1>2. \A r \in NewRows(w) :
        /\ r.supersedes = NoVersion => VersionsOf(r.id.feed, r.id.item) = {}
        /\ r.id.feed = txn[w].feed
        /\ r.supersedes # NoVersion =>
             \E v \in versions :
               /\ IsHead(v) /\ r.supersedes = v.id
               /\ v.id.feed = r.id.feed /\ v.id.item = r.id.item
               /\ v.id.stamp < r.id.stamp /\ v.text # r.text
  BY <1>1, RowFacts
<1>3. OneRoot'
  <2> SUFFICES ASSUME NEW u \in versions', NEW v \in versions',
                      u.supersedes = NoVersion, v.supersedes = NoVersion,
                      u.id.feed = v.id.feed, u.id.item = v.id.item
               PROVE  u = v
    BY DEF OneRoot
  <2>1. CASE u \in versions /\ v \in versions
    BY <1>1, <2>1 DEF OneRoot
  <2>2. CASE u \in NewRows(w) /\ v \in NewRows(w)
    BY <1>1, <2>2, OneRowPerItem
  <2>3. CASE (u \in versions /\ v \in NewRows(w)) \/ (u \in NewRows(w) /\ v \in versions)
    BY <1>2, <2>3 DEF VersionsOf
  <2> QED
    BY <1>1, <2>1, <2>2, <2>3
<1>4. NoFork'
  <2> SUFFICES ASSUME NEW u \in versions', NEW v \in versions',
                      u.supersedes = v.supersedes, u.supersedes # NoVersion
               PROVE  u = v
    BY DEF NoFork
  <2>1. CASE u \in versions /\ v \in versions
    BY <1>1, <2>1 DEF NoFork
  <2>2. CASE u \in NewRows(w) /\ v \in NewRows(w)
    <3>1. PICK x \in versions : u.supersedes = x.id /\ x.id.item = u.id.item
      BY <1>2, <2>2
    <3>2. PICK y \in versions : v.supersedes = y.id /\ y.id.item = v.id.item
      BY <1>2, <2>2
    <3> QED
      BY <1>1, <2>2, <3>1, <3>2, OneRowPerItem
  <2>3. CASE (u \in versions /\ v \in NewRows(w)) \/ (u \in NewRows(w) /\ v \in versions)
    BY <1>2, <2>3 DEF IsHead
  <2> QED
    BY <1>1, <2>1, <2>2, <2>3
<1>5. EditsChange'
  <2> SUFFICES ASSUME NEW v \in versions', v.supersedes # NoVersion
               PROVE  \E u \in versions' :
                        /\ u.id = v.supersedes /\ u.id.feed = v.id.feed
                        /\ u.id.item = v.id.item
                        /\ u.id.stamp < v.id.stamp /\ u.text # v.text
    BY DEF EditsChange
  <2>1. CASE v \in versions
    BY <1>1, <2>1 DEF EditsChange
  <2>2. CASE v \in NewRows(w)
    BY <1>1, <1>2, <2>2
  <2> QED
    BY <1>1, <2>1, <2>2
<1> QED
  BY <1>3, <1>4, <1>5

\* A commit leaves every item it touched with its new row for head, and the others alone.
LEMMA CommitHeads ==
  ASSUME IInv, NEW w \in Writers, Commit(w)
  PROVE  OneHead'
<1>1. /\ TypeOK /\ HeadsRead /\ txn[w].pc = "applying" /\ ~ Violates(w)
      /\ Stamped /\ OneHead /\ EditsChange /\ Keyed
      /\ versions' = versions \cup NewRows(w) /\ clock \in Nat /\ versions \subseteq Versions
  BY DEF IInv, Commit, Chained, TypeOK
<1>2. \A r \in NewRows(w) :
        /\ r.id.stamp = clock
        /\ \/ r.supersedes = NoVersion /\ VersionsOf(r.id.feed, r.id.item) = {}
           \/ \E v \in versions :
                /\ IsHead(v) /\ r.supersedes = v.id /\ r.supersedes # NoVersion
                /\ v.id.feed = r.id.feed /\ v.id.item = r.id.item /\ v.id.stamp < clock
  BY <1>1, RowFacts
<1>3. \A r, q \in NewRows(w) : r.id.item = q.id.item => r = q
  BY <1>1, OneRowPerItem
<1>4. \A v \in versions : v.supersedes # NoVersion =>
        v.supersedes.stamp \in Nat /\ v.supersedes.stamp < clock
  BY <1>1 DEF Versions, Keys, Stamped
<1>5. \A r \in NewRows(w) : r.id # NoVersion /\ IsHead(r)'
  <2> SUFFICES ASSUME NEW r \in NewRows(w) PROVE r.id # NoVersion /\ IsHead(r)'
    OBVIOUS
  <2>1. r.id \in Keys /\ r.id # NoVersion
    BY <1>1, RowFacts, NoVersionAssumption DEF Versions
  <2>2. \A v \in versions : v.supersedes # r.id
    BY <1>1, <1>2, <1>4, <2>1
  <2>3. \A v \in NewRows(w) : v.supersedes # r.id
    BY <1>1, <1>2, <2>1
  <2> QED
    BY <1>1, <2>1, <2>2, <2>3 DEF IsHead
<1> SUFFICES ASSUME NEW u \in versions'
             PROVE  \E h \in VersionsOf(u.id.feed, u.id.item)' :
                      \A v \in VersionsOf(u.id.feed, u.id.item)' : IsHead(v)' <=> v = h
  BY DEF OneHead
<1> DEFINE f == u.id.feed
           i == u.id.item
<1>6. CASE \E r \in NewRows(w) : r.id.feed = f /\ r.id.item = i
  <2>1. PICK r \in NewRows(w) : r.id.feed = f /\ r.id.item = i
    BY <1>6
  <2>2. VersionsOf(f, i)' = VersionsOf(f, i) \cup {r}
    BY <1>1, <1>3, <2>1 DEF VersionsOf
  <2>3. \A v \in VersionsOf(f, i) : ~ IsHead(v)'
    <3> SUFFICES ASSUME NEW v \in VersionsOf(f, i) PROVE ~ IsHead(v)'
      OBVIOUS
    <3>1. PICK x \in versions : /\ IsHead(x) /\ r.supersedes = x.id
                                /\ x.id.feed = f /\ x.id.item = i
      BY <1>2, <2>1
    <3>2. CASE v = x
      BY <1>1, <3>1, <3>2 DEF IsHead
    <3>3. CASE v # x
      <4>1. x \in VersionsOf(f, i) /\ v \in versions
        BY <3>1 DEF VersionsOf
      <4>2. PICK h \in VersionsOf(f, i) : \A y \in VersionsOf(f, i) : IsHead(y) <=> y = h
        BY <1>1, <3>1 DEF OneHead
      <4>3. ~ IsHead(v)
        BY <3>1, <3>3, <4>1, <4>2
      <4> QED
        BY <1>1, <4>3 DEF IsHead
    <3> QED
      BY <3>2, <3>3
  <2> QED
    BY <1>5, <2>1, <2>2, <2>3
<1>7. CASE ~ \E r \in NewRows(w) : r.id.feed = f /\ r.id.item = i
  <2>1. VersionsOf(f, i)' = VersionsOf(f, i) /\ u \in versions
    BY <1>1, <1>7 DEF VersionsOf
  <2>2. \A v \in VersionsOf(f, i) : IsHead(v)' <=> IsHead(v)
    <3> SUFFICES ASSUME NEW v \in VersionsOf(f, i) PROVE IsHead(v)' <=> IsHead(v)
      OBVIOUS
    <3>1. v \in versions /\ v.id \in Keys /\ v.id # NoVersion
      BY <1>1, NoVersionAssumption DEF VersionsOf, Versions
    <3>2. \A r \in NewRows(w) : r.supersedes # v.id
      BY <1>2, <1>7, <3>1 DEF VersionsOf
    <3> QED
      BY <1>1, <3>2 DEF IsHead
  <2>3. PICK h \in VersionsOf(f, i) : \A v \in VersionsOf(f, i) : IsHead(v) <=> v = h
    BY <1>1, <2>1 DEF OneHead
  <2> QED
    BY <2>1, <2>2, <2>3
<1> QED
  BY <1>6, <1>7

-----------------------------------------------------------------------------
\* A step that writes no version leaves every fact about versions as it was.
LEMMA VersionsUnmoved ==
  ASSUME IInv, versions' = versions, clock' \in {clock, clock + 1}
  PROVE  Stamped' /\ Keyed' /\ Chained' /\ EditsChange'
<1>1. Stamped'
  <2> SUFFICES ASSUME NEW v \in versions
               PROVE  v.id.stamp < clock'
                        /\ (v.supersedes # NoVersion => v.supersedes.stamp < clock')
    BY DEF Stamped
  <2>1. clock \in Nat /\ v.id.stamp \in Nat /\ v.id.stamp < clock
    BY DEF IInv, TypeOK, Stamped, Versions, Keys
  <2>2. v.supersedes # NoVersion => v.supersedes.stamp \in Nat /\ v.supersedes.stamp < clock
    BY DEF IInv, TypeOK, Stamped, Versions, Keys
  <2> QED
    BY <2>1, <2>2
<1>2. Keyed' /\ EditsChange' /\ OneRoot' /\ NoFork'
  BY DEF IInv, Keyed, EditsChange, Chained, OneRoot, NoFork
<1>3. OneHead'
  <2>1. \A v : IsHead(v)' <=> IsHead(v)
    BY DEF IsHead
  <2>2. \A f, i : VersionsOf(f, i)' = VersionsOf(f, i)
    BY DEF VersionsOf
  <2> QED
    BY <2>1, <2>2 DEF IInv, Chained, OneHead
<1> QED
  BY <1>1, <1>2, <1>3 DEF Chained

\* The heads of a feed are versions of it, and one per item.
LEMMA HeadsAreOnePerItem ==
  ASSUME IInv, NEW f
  PROVE  /\ Heads(f) \subseteq versions
         /\ \A v \in Heads(f) : v.id.feed = f
         /\ \A u, v \in Heads(f) : u.id.item = v.id.item => u = v
<1>1. OneHead
  BY DEF IInv, Chained
<1>2. ASSUME NEW u \in Heads(f), NEW v \in Heads(f), u.id.item = v.id.item PROVE u = v
  <2>1. u \in VersionsOf(f, u.id.item) /\ v \in VersionsOf(f, u.id.item)
    BY <1>2 DEF Heads, VersionsOf
  <2>2. PICK h \in VersionsOf(f, u.id.item) :
          \A x \in VersionsOf(f, u.id.item) : IsHead(x) <=> x = h
    BY <1>1 DEF OneHead, Heads
  <2> QED
    BY <2>1, <2>2 DEF Heads
<1> QED
  BY <1>2 DEF Heads

\* No step of a transaction changes another's, and none drops a version it read.
LEMMA HeadsStayRead ==
  ASSUME IInv, NEW w \in Writers, versions \subseteq versions',
         \A x \in Writers \ {w} : txn'[x] = txn[x],
         txn'[w].pc = "applying" =>
           /\ txn'[w].heads \subseteq versions
           /\ \A v \in txn'[w].heads : v.id.feed = txn'[w].feed
           /\ \A u, v \in txn'[w].heads : u.id.item = v.id.item => u = v
  PROVE  HeadsRead'
<1> SUFFICES ASSUME NEW x \in Writers, txn'[x].pc = "applying"
             PROVE  /\ txn'[x].heads \subseteq versions'
                    /\ \A v \in txn'[x].heads : v.id.feed = txn'[x].feed
                    /\ \A u, v \in txn'[x].heads : u.id.item = v.id.item => u = v
  BY DEF HeadsRead
<1>1. CASE x = w
  BY <1>1
<1>2. CASE x # w
  BY <1>2 DEF IInv, HeadsRead
<1> QED
  BY <1>1, <1>2

\* A step that only moves one transaction keeps the invariant.
LEMMA TransactionMoves ==
  ASSUME IInv, NEW w \in Writers, NEW t \in Transactions,
         txn' = [txn EXCEPT ![w] = t],
         versions' = versions, documents' = documents,
         validators' \in [Feeds -> Bodies \cup {NoBody}],
         clock' \in {clock, clock + 1},
         t.pc = "applying" => t.heads = Heads(t.feed)
  PROVE  IInv'
<1>1. TypeOK'
  BY DEF IInv, TypeOK, Transactions
<1>2. HeadsRead'
  <2>1. txn'[w] = t /\ \A x \in Writers \ {w} : txn'[x] = txn[x]
    BY DEF IInv, TypeOK
  <2> QED
    BY <2>1, HeadsAreOnePerItem, HeadsStayRead
<1> QED
  BY <1>1, <1>2, VersionsUnmoved DEF IInv

THEOREM Inductive == IInv /\ [Next]_vars => IInv'
<1> SUFFICES ASSUME IInv, [Next]_vars PROVE IInv'
  OBVIOUS
<1>t. /\ Closed \in Transactions /\ Closed.pc # "applying" /\ clock \in Nat
      /\ validators \in [Feeds -> Bodies \cup {NoBody}]
  BY DEF Transactions, Closed, IInv, TypeOK
<1>1. ASSUME NEW w \in Writers, NEW f \in Feeds, NEW b \in Bodies, Begin(w, f, b)
      PROVE  IInv'
  <2> DEFINE t == [pc |-> "open", feed |-> f, body |-> b, at |-> clock]
  <2>1. t \in Transactions /\ t.pc # "applying"
    BY <1>t DEF Transactions
  <2> QED
    BY <1>1, <1>t, <2>1, TransactionMoves DEF Begin, tables
<1>2. ASSUME NEW w \in Writers, Unchanged(w) PROVE IInv'
  <2>1. txn[w].feed \in Feeds /\ txn[w].body \in Bodies
    BY <1>2 DEF Unchanged, IInv, TypeOK, Transactions, Closed
  <2>2. validators' \in [Feeds -> Bodies \cup {NoBody}]
    BY <1>2, <1>t, <2>1 DEF Unchanged
  <2> QED
    BY <1>2, <1>t, <2>2, TransactionMoves DEF Unchanged
<1>3. ASSUME NEW w \in Writers, RecordDocument(w) PROVE IInv'
  <2> DEFINE t == [txn[w] EXCEPT !.pc = "recorded"]
  <2>1. txn[w] \in Transactions /\ txn[w].pc = "open"
    BY <1>3 DEF RecordDocument, IInv, TypeOK
  <2>2. t \in Transactions /\ t.pc # "applying"
    BY <2>1 DEF Transactions, Closed
  <2> QED
    BY <1>3, <1>t, <2>2, TransactionMoves DEF RecordDocument, tables
<1>4. ASSUME NEW w \in Writers, ReadHeads(w) PROVE IInv'
  <2> DEFINE t == [pc |-> "applying", feed |-> txn[w].feed, body |-> txn[w].body,
                   at |-> txn[w].at, heads |-> Heads(txn[w].feed)]
  <2>1. txn[w] \in Transactions /\ txn[w].pc = "recorded"
    BY <1>4 DEF ReadHeads, IInv, TypeOK
  <2>2. txn[w].feed \in Feeds /\ txn[w].body \in Bodies /\ txn[w].at \in Nat
    BY <2>1 DEF Transactions, Closed
  <2>3. t \in Transactions
    BY <2>2, HeadsAreOnePerItem DEF Transactions
  <2> QED
    BY <1>4, <1>t, <2>3, TransactionMoves DEF ReadHeads, tables
<1>5. ASSUME NEW w \in Writers, Commit(w) PROVE IInv'
  <2>1. versions \subseteq versions' /\ txn' = [txn EXCEPT ![w] = Closed]
    BY <1>5 DEF Commit
  <2>2. HeadsRead'
    BY <1>t, <2>1, HeadsStayRead DEF IInv, TypeOK
  <2> QED
    BY <1>5, <2>2, CommitTypes, CommitStamps, CommitLinks, CommitHeads DEF IInv, Chained
<1>6. ASSUME NEW w \in Writers, Refused(w) \/ Abort(w) PROVE IInv'
  BY <1>6, <1>t, TransactionMoves DEF Refused, Abort, tables
<1>7. CASE UNCHANGED vars
  BY <1>7 DEF IInv, vars, tables, TypeOK, Transactions, Stamped, Keyed, HeadsRead, Chained,
              OneRoot, NoFork, OneHead, VersionsOf, IsHead, EditsChange
<1> QED
  BY <1>1, <1>2, <1>3, <1>4, <1>5, <1>6, <1>7 DEF Next

LEMMA Initially == Init => IInv
<1> SUFFICES ASSUME Init PROVE IInv
  OBVIOUS
<1>1. TypeOK
  BY DEF Init, TypeOK, Transactions
<1>2. HeadsRead
  BY DEF Init, HeadsRead, Closed
<1> QED
  BY <1>1, <1>2 DEF Init, IInv, Stamped, Keyed, Chained, OneRoot, NoFork, OneHead, EditsChange

THEOREM Invariant == Spec => []IInv
BY Initially, Inductive, PTL DEF Spec

\* The variables of ItemVersions keep their types.
THEOREM VersionTypes == Spec => []TypeOK
BY Invariant, PTL DEF IInv

\* However many polls of a feed overlap, and whichever of them die, the versions of every
\* item are one chain with one root and one head.
THEOREM ChainsHold == Spec => []Chained
BY Invariant, PTL DEF IInv

\* No stored history shows an edit nobody made.
THEOREM EditsAreChanges == Spec => []EditsChange
BY Invariant, PTL DEF IInv

\* A commit keeps whatever its document says: as a first version, as an edit, or as the
\* head that said so already.
LEMMA CommitKeeps ==
  ASSUME IInv, NEW w \in Writers, Commit(w), NEW i \in Items, Says(w, i) # Unsaid
  PROVE  \E v \in versions' :
           v.id.feed = txn[w].feed /\ v.id.item = i /\ v.text = Says(w, i)
<1>1. /\ versions' = versions \cup NewRows(w)
      /\ txn[w].heads \subseteq versions /\ \A v \in txn[w].heads : v.id.feed = txn[w].feed
  BY DEF Commit, IInv, HeadsRead
<1>2. ASSUME NEW k
      PROVE  /\ Row(w, i, k).id.feed = txn[w].feed
             /\ Row(w, i, k).id.item = i
             /\ Row(w, i, k).text = Says(w, i)
  BY DEF Row
<1>3. CASE Found(w, i) = {}
  <2>1. Row(w, i, NoVersion) \in NewRows(w)
    BY <1>3 DEF Firsts, NewRows
  <2> QED
    BY <1>1, <1>2, <2>1
<1>4. CASE Found(w, i) # {}
  <2>1. PICK v \in txn[w].heads : v.id.item = i
    BY <1>4 DEF Found
  <2>2. CASE v.text = Says(w, i)
    BY <1>1, <2>1, <2>2
  <2>3. CASE v.text # Says(w, i)
    <3>1. Row(w, v.id.item, v.id) \in NewRows(w)
      BY <2>1, <2>3 DEF Edits, NewRows
    <3> QED
      BY <1>1, <1>2, <2>1, <3>1
  <2> QED
    BY <2>2, <2>3
<1> QED
  BY <1>3, <1>4

\* A stored document lands whole: everything it says is kept, whatever overlapped or died.
THEOREM DocumentsAreApplied == Spec => []Applied
<1>1. Init => Applied
  BY DEF Init, Applied
<1>2. IInv /\ Applied /\ [Next]_vars => Applied'
  <2> SUFFICES ASSUME IInv, Applied, [Next]_vars PROVE Applied'
    OBVIOUS
  <2>a. \A d \in documents, i \in Items : FirstSaid(d.body, i) # Unsaid =>
          \E v \in versions :
            v.id.feed = d.feed /\ v.id.item = i /\ v.text = FirstSaid(d.body, i)
    BY DEF Applied, VersionsOf
  <2>b. (\A d \in documents', i \in Items : FirstSaid(d.body, i) # Unsaid =>
          \E v \in versions' :
            v.id.feed = d.feed /\ v.id.item = i /\ v.text = FirstSaid(d.body, i))
        => Applied'
    BY DEF Applied, VersionsOf
  <2>1. ASSUME NEW w \in Writers, Commit(w) PROVE Applied'
    <3>1. documents' = documents \cup {Document(w)} /\ versions \subseteq versions'
      BY <2>1 DEF Commit
    <3>2. Document(w).feed = txn[w].feed /\ \A i : FirstSaid(Document(w).body, i) = Says(w, i)
      BY DEF Document, Says
    <3>3. \A i \in Items : Says(w, i) # Unsaid =>
            \E v \in versions' :
              v.id.feed = txn[w].feed /\ v.id.item = i /\ v.text = Says(w, i)
      BY <2>1, CommitKeeps
    <3>4. ASSUME NEW d \in documents', NEW i \in Items, FirstSaid(d.body, i) # Unsaid
          PROVE  \E v \in versions' :
                   v.id.feed = d.feed /\ v.id.item = i /\ v.text = FirstSaid(d.body, i)
      <4>1. CASE d \in documents
        BY <2>a, <3>1, <3>4, <4>1
      <4>2. CASE d = Document(w)
        BY <3>2, <3>3, <3>4, <4>2
      <4> QED
        BY <3>1, <4>1, <4>2
    <3> QED
      BY <2>b, <3>4
  <2>2. CASE documents' = documents /\ versions' = versions
    BY <2>a, <2>b, <2>2
  <2> QED
    BY <2>1, <2>2 DEF Next, Begin, Unchanged, RecordDocument, ReadHeads, Refused, Abort,
                      tables, vars
<1> QED
  BY <1>1, <1>2, Invariant, PTL DEF Spec
-----------------------------------------------------------------------------
(* Storing row by row is storing at once, until two polls overlap.         *)

\* What each transaction knows is still so when it commits: the newest document of its feed
\* is the one the validators name, it is not the one about to be stored, and every head that
\* was read is a head still.
StillSo ==
  /\ ~ TwoOpen
  /\ \A f \in Feeds : Newest(f) = validators[f]
  /\ \A w \in Writers :
       txn[w].pc \in {"recorded", "applying"} => txn[w].body # validators[txn[w].feed]
  /\ \A w \in Writers : txn[w].pc = "applying" => txn[w].heads = Heads(txn[w].feed)

\* A document is older than the clock and than every transaction open on its feed.
DocumentsDated ==
  /\ \A d \in documents : d.at < clock
  /\ \A w \in Writers : txn[w].pc # "closed" => txn[w].at < clock
  /\ \A d \in documents, w \in Writers : Open(w, d.feed) => d.at < txn[w].at

AloneInv == IInv /\ (overlapped \/ (StillSo /\ DocumentsDated))

\* A transaction with a pc other than "closed" has a feed, a body and an instant.
LEMMA OpenType ==
  ASSUME TypeOK, NEW w \in Writers, txn[w].pc # "closed"
  PROVE  /\ txn[w].feed \in Feeds /\ txn[w].body \in Bodies /\ txn[w].at \in Nat
         /\ txn[w].pc \in {"open", "recorded", "applying"}
<1>1. txn[w] \in Transactions /\ txn[w] # Closed
  BY DEF TypeOK, Closed
<1> QED
  BY <1>1 DEF Transactions

\* After a commit the heads of its feed are the new rows and the heads none of them
\* supersedes; the heads of every other feed are what they were.
LEMMA HeadsAfterCommit ==
  ASSUME IInv, NEW w \in Writers, Commit(w), NEW g
  PROVE  Heads(g)' = {v \in NewRows(w) : v.id.feed = g}
                       \cup {v \in Heads(g) : \A r \in NewRows(w) : r.supersedes # v.id}
<1>1. /\ TypeOK /\ HeadsRead /\ txn[w].pc = "applying" /\ ~ Violates(w) /\ Stamped
      /\ versions' = versions \cup NewRows(w) /\ clock \in Nat /\ versions \subseteq Versions
  BY DEF IInv, Commit, TypeOK
<1>2. \A r \in NewRows(w) :
        /\ r.id \in Keys /\ r.id # NoVersion /\ r.id.stamp = clock
        /\ r.supersedes # NoVersion => r.supersedes.stamp < clock
  BY <1>1, RowFacts, NoVersionAssumption DEF Versions
<1>3. \A v \in versions : v.supersedes # NoVersion => v.supersedes.stamp < clock
  BY <1>1 DEF Stamped
<1>4. \A r \in NewRows(w), v \in versions' : v.supersedes # r.id
  BY <1>1, <1>2, <1>3
<1>5. \A r \in NewRows(w) : IsHead(r)'
  BY <1>4 DEF IsHead
<1>6. \A v \in versions :
        IsHead(v)' <=> IsHead(v) /\ \A r \in NewRows(w) : r.supersedes # v.id
  BY <1>1 DEF IsHead
<1> QED
  BY <1>1, <1>5, <1>6 DEF Heads

\* The current text of an item is the text of its head, and no text where it has none.
LEMMA TextOfHead ==
  ASSUME IInv, NEW f, NEW i
  PROVE  /\ \A h \in Heads(f) : h.id.item = i => TextNow(f, i) = h.text /\ h.text # Unsaid
         /\ (\A h \in Heads(f) : h.id.item # i) => TextNow(f, i) = Unsaid
<1>1. \A u, v \in Heads(f) : u.id.item = v.id.item => u = v
  BY HeadsAreOnePerItem
<1>2. \A h \in Heads(f) : h.text # Unsaid
  BY HeadsAreOnePerItem, EntriesAssumption DEF IInv, TypeOK, Versions
<1>3. ASSUME NEW h \in Heads(f), h.id.item = i PROVE TextNow(f, i) = h.text
  <2>1. h = CHOOSE v \in Heads(f) : v.id.item = i
    BY <1>1, <1>3
  <2> QED
    BY <1>3, <2>1 DEF TextNow
<1>4. ASSUME \A h \in Heads(f) : h.id.item # i PROVE TextNow(f, i) = Unsaid
  BY <1>4 DEF TextNow
<1> QED
  BY <1>2, <1>3, <1>4

\* A commit that read the heads as they are leaves every item its document mentions reading
\* the way it says, and the others, of this feed and of any other, reading as they did.
LEMMA TextsAfterCommit ==
  ASSUME IInv, NEW w \in Writers, Commit(w), txn[w].heads = Heads(txn[w].feed),
         NEW g \in Feeds, NEW i \in Items
  PROVE  TextNow(g, i)' = IF g = txn[w].feed /\ Says(w, i) # Unsaid
                            THEN Says(w, i) ELSE TextNow(g, i)
<1>1. /\ TypeOK /\ HeadsRead /\ txn[w].pc = "applying" /\ ~ Violates(w)
      /\ versions \subseteq Versions
  BY DEF IInv, TypeOK, Commit
<1>2. \A r \in NewRows(w) :
        /\ r.id.feed = txn[w].feed /\ r.id.item \in Items
        /\ r.supersedes # NoVersion =>
             r.supersedes.feed = r.id.feed /\ r.supersedes.item = r.id.item
  BY <1>1, RowFacts
<1>3. Heads(g)' = {v \in NewRows(w) : v.id.feed = g}
                    \cup {v \in Heads(g) : \A r \in NewRows(w) : r.supersedes # v.id}
  BY HeadsAfterCommit
<1>4. \A h \in Heads(g) : h \in versions /\ h.id.feed = g /\ h.id \in Keys /\ h.id # NoVersion
  BY <1>1, HeadsAreOnePerItem, NoVersionAssumption DEF Versions
<1>5. \A r \in NewRows(w) : r.text = Says(w, r.id.item) /\ Says(w, r.id.item) # Unsaid
  BY DEF NewRows, Firsts, Edits, Row
\* No row of an item, no change to it.
<1>6. ASSUME \A r \in NewRows(w) : ~ (r.id.feed = g /\ r.id.item = i)
      PROVE  TextNow(g, i)' = TextNow(g, i)
  <2>1. \A h : (h \in Heads(g)' /\ h.id.item = i) <=> (h \in Heads(g) /\ h.id.item = i)
    <3>1. \A h \in Heads(g) : h.id.item = i => \A r \in NewRows(w) : r.supersedes # h.id
      BY <1>2, <1>4, <1>6
    <3> QED
      BY <1>3, <1>6, <3>1
  <2>2. CASE \E h \in Heads(g) : h.id.item = i
    <3>1. PICK h \in Heads(g) : h.id.item = i
      BY <2>2
    <3>2. TextNow(g, i) = h.text
      BY <3>1, TextOfHead
    <3>3. h \in Heads(g)'
      BY <2>1, <3>1
    <3>4. h = CHOOSE v \in Heads(g)' : v.id.item = i
      BY <2>1, <3>1, HeadsAreOnePerItem
    <3> QED
      BY <3>1, <3>2, <3>3, <3>4 DEF TextNow
  <2>3. CASE ~ \E h \in Heads(g) : h.id.item = i
    BY <2>1, <2>3 DEF TextNow
  <2> QED
    BY <2>2, <2>3
\* A row of the item is its head, and says what the document says.
<1>7. ASSUME NEW r \in NewRows(w), r.id.feed = g, r.id.item = i
      PROVE  TextNow(g, i)' = Says(w, i) /\ g = txn[w].feed /\ Says(w, i) # Unsaid
  <2>1. r \in Heads(g)'
    BY <1>3, <1>7
  <2>2. ASSUME NEW v \in Heads(g)', v.id.item = i PROVE v = r
    <3>1. CASE v \in NewRows(w)
      BY <1>1, <1>7, <2>2, <3>1, OneRowPerItem
    <3>2. CASE v \in Heads(g) /\ \A q \in NewRows(w) : q.supersedes # v.id
      <4>1. v \in VersionsOf(r.id.feed, r.id.item)
        BY <1>4, <1>7, <2>2, <3>2 DEF VersionsOf
      <4>2. PICK x \in txn[w].heads : r.supersedes = x.id /\ x.id.item = i
        BY <1>1, <1>7, <4>1, RowFacts
      <4>3. x = v
        BY <1>2, <1>7, <2>2, <3>2, <4>2, HeadsAreOnePerItem
      <4> QED
        BY <1>7, <3>2, <4>2, <4>3
    <3> QED
      BY <1>3, <2>2, <3>1, <3>2
  <2>3. r = CHOOSE v \in Heads(g)' : v.id.item = i
    BY <1>7, <2>1, <2>2
  <2>4. TextNow(g, i)' = r.text
    BY <1>7, <2>1, <2>3 DEF TextNow
  <2> QED
    BY <1>2, <1>5, <1>7, <2>4
\* An item mentioned with no row read that way already.
<1>8. ASSUME g = txn[w].feed, Says(w, i) # Unsaid,
             \A r \in NewRows(w) : ~ (r.id.feed = g /\ r.id.item = i)
      PROVE  TextNow(g, i) = Says(w, i)
  <2>1. Found(w, i) # {}
    <3>1. Found(w, i) = {} => Row(w, i, NoVersion) \in NewRows(w)
      BY <1>8 DEF NewRows, Firsts
    <3>2. Row(w, i, NoVersion).id.feed = g /\ Row(w, i, NoVersion).id.item = i
      BY <1>8 DEF Row
    <3> QED
      BY <1>8, <3>1, <3>2
  <2>2. PICK h \in Heads(g) : h.id.item = i
    BY <1>8, <2>1 DEF Found
  <2>3. Says(w, i) = h.text
    <3>1. Says(w, i) # h.text => Row(w, h.id.item, h.id) \in NewRows(w)
      BY <1>8, <2>2 DEF NewRows, Edits
    <3>2. Row(w, h.id.item, h.id).id.feed = g /\ Row(w, h.id.item, h.id).id.item = i
      BY <1>8, <2>2 DEF Row
    <3> QED
      BY <1>8, <3>1, <3>2
  <2> QED
    BY <2>2, <2>3, TextOfHead
<1> QED
  BY <1>6, <1>7, <1>8
\* Document timestamps tell the newest: a document later than every other of its feed is it.
LEMMA LatestIs ==
  ASSUME NEW mine, NEW d \in mine, d.at \in Nat,
         \A e \in mine : e # d => e.at \in Nat /\ e.at < d.at
  PROVE  Latest(mine) = d.body
<1>1. \A e \in mine : e.at <= d.at
  OBVIOUS
<1>2. \A x \in mine : (\A e \in mine : e.at <= x.at) => x = d
  OBVIOUS
<1>3. (CHOOSE x \in mine : \A e \in mine : e.at <= x.at) = d
  BY <1>1, <1>2
<1> QED
  BY <1>3 DEF Latest

\* A step that only moves one transaction, to one that knows what is so, keeps the rest.
LEMMA AloneMoves ==
  ASSUME IInv, StillSo, DocumentsDated, NEW w \in Writers, NEW t \in Transactions,
         txn' = [txn EXCEPT ![w] = t], UNCHANGED tables, clock' \in {clock, clock + 1},
         ~ TwoOpen',
         t.pc \in {"recorded", "applying"} => t.body # validators[t.feed],
         t.pc = "applying" => t.heads = Heads(t.feed),
         t.pc # "closed" =>
           t.at < clock' /\ \A d \in documents : d.feed = t.feed => d.at < t.at
  PROVE  StillSo' /\ DocumentsDated'
<1>1. /\ txn'[w] = t /\ \A x \in Writers \ {w} : txn'[x] = txn[x]
      /\ clock \in Nat /\ \A d \in documents : d.at \in Nat
  BY DEF IInv, TypeOK, Documents
<1>2. \A f : Newest(f)' = Newest(f) /\ Heads(f)' = Heads(f)
  BY DEF tables, Newest, Heads, IsHead
<1>3. \A x \in Writers : txn[x].pc # "closed" => txn[x].at \in Nat
  BY OpenType DEF IInv
<1>4. StillSo'
  BY <1>1, <1>2 DEF StillSo, tables
<1>5. \A x \in Writers : txn'[x].pc # "closed" => txn'[x].at < clock'
  BY <1>1, <1>3 DEF DocumentsDated
<1>6. \A d \in documents, x \in Writers : Open(x, d.feed)' => d.at < txn'[x].at
  BY <1>1 DEF DocumentsDated, Open
<1>7. \A d \in documents : d.at < clock'
  BY <1>1 DEF DocumentsDated
<1> QED
  BY <1>4, <1>5, <1>6, <1>7 DEF DocumentsDated, tables

\* A commit keeps what the transactions of other feeds know; no other of its own is open.
LEMMA AloneCommits ==
  ASSUME IInv, StillSo, DocumentsDated, NEW w \in Writers, Commit(w), ~ TwoOpen'
  PROVE  StillSo' /\ DocumentsDated'
<1> PICK f : f = txn[w].feed
  OBVIOUS
<1>1. /\ txn'[w] = Closed /\ \A x \in Writers \ {w} : txn'[x] = txn[x]
      /\ clock \in Nat /\ clock' = clock + 1 /\ Closed.pc = "closed"
      /\ \A d \in documents : d.at \in Nat
      /\ documents' = documents \cup {Document(w)}
      /\ validators' = [validators EXCEPT ![f] = txn[w].body]
      /\ validators \in [Feeds -> Bodies \cup {NoBody}]
  BY DEF IInv, TypeOK, Documents, Commit, Closed
<1>2. /\ txn[w].pc = "applying" /\ txn[w].pc # "closed"
      /\ f \in Feeds /\ txn[w].at \in Nat /\ txn[w].at < clock
      /\ Document(w).feed = f /\ Document(w).body = txn[w].body
      /\ Document(w).at = txn[w].at
  BY OpenType DEF IInv, Commit, DocumentsDated, Document
<1>3. \A d \in documents : d.feed = f => d.at < txn[w].at
  BY <1>2 DEF DocumentsDated, Open
<1>4. \A x \in Writers \ {w} : ~ Open(x, f)
  BY <1>2 DEF StillSo, TwoOpen, Open
<1>5. \A g : g # f => Heads(g)' = Heads(g)
  <2> SUFFICES ASSUME NEW g, g # f PROVE Heads(g)' = Heads(g)
    OBVIOUS
  <2>1. \A r \in NewRows(w) :
          r.id.feed = f /\ (r.supersedes # NoVersion => r.supersedes.feed = f)
    BY <1>2, RowFacts DEF IInv, Commit
  <2>2. \A v \in Heads(g) : v.id.feed = g /\ v.id # NoVersion
    BY HeadsAreOnePerItem, NoVersionAssumption DEF IInv, TypeOK, Versions
  <2>3. {v \in NewRows(w) : v.id.feed = g} = {}
    BY <2>1
  <2>4. {v \in Heads(g) : \A r \in NewRows(w) : r.supersedes # v.id} = Heads(g)
    BY <2>1, <2>2
  <2>5. Heads(g)' = {} \cup Heads(g)
    BY <2>3, <2>4, HeadsAfterCommit
  <2> QED
    BY <2>5
<1>6. \A g \in Feeds : g # f => Newest(g)' = Newest(g)
  <2> SUFFICES ASSUME NEW g \in Feeds, g # f PROVE Newest(g)' = Newest(g)
    OBVIOUS
  <2>1. {d \in documents' : d.feed = g} = {d \in documents : d.feed = g}
    BY <1>1, <1>2
  <2> QED
    BY <2>1 DEF Newest
<1>7. Newest(f)' = txn[w].body
  <2>1. PICK mine : mine = {d \in documents' : d.feed = f}
    OBVIOUS
  <2>2. Document(w) \in mine /\ \A d \in mine : d # Document(w) => d \in documents /\ d.feed = f
    BY <1>1, <1>2, <2>1
  <2>3. Latest(mine) = Document(w).body
    BY <1>1, <1>2, <1>3, <2>2, LatestIs
  <2> QED
    BY <1>2, <2>1, <2>3 DEF Newest
<1>8. ASSUME NEW g \in Feeds PROVE Newest(g)' = validators'[g]
  <2>1. CASE g = f
    BY <1>1, <1>2, <1>7, <2>1
  <2>2. CASE g # f
    BY <1>1, <1>2, <1>6, <2>2 DEF StillSo
  <2> QED
    BY <2>1, <2>2
<1>9. \A x \in Writers : txn'[x].pc # "closed" =>
        /\ x # w /\ txn'[x] = txn[x] /\ txn[x].feed \in Feeds /\ txn[x].feed # f
        /\ txn[x].at \in Nat
  BY <1>1, <1>4, OpenType DEF Open, IInv
<1>10. StillSo'
  <2>1. \A x \in Writers : txn'[x].pc \in {"recorded", "applying"} =>
          txn'[x].body # validators'[txn'[x].feed]
    BY <1>1, <1>9 DEF StillSo
  <2>2. ASSUME NEW x \in Writers, txn'[x].pc = "applying"
        PROVE  txn'[x].heads = Heads(txn[x].feed)'
    <3>1. PICK g : g = txn[x].feed
      OBVIOUS
    <3>2. txn'[x] = txn[x] /\ g # f /\ txn[x].heads = Heads(g)
      BY <1>9, <2>2, <3>1 DEF StillSo
    <3>3. Heads(g)' = Heads(g)
      BY <1>5, <3>2
    <3>4. g = txn'[x].feed
      BY <3>1, <3>2
    <3> QED
      BY <3>2, <3>3, <3>4
  <2> QED
    BY <1>8, <2>1, <2>2 DEF StillSo
<1>11. DocumentsDated'
  <2>1. \A d \in documents' : d.at < clock'
    BY <1>1, <1>2 DEF DocumentsDated
  <2>2. \A x \in Writers : txn'[x].pc # "closed" => txn'[x].at < clock'
    BY <1>1, <1>9 DEF DocumentsDated
  <2>3. \A d \in documents', x \in Writers : Open(x, d.feed)' => d.at < txn'[x].at
    BY <1>1, <1>2, <1>9 DEF DocumentsDated, Open
  <2> QED
    BY <2>1, <2>2, <2>3 DEF DocumentsDated
<1> QED
  BY <1>10, <1>11

\* A body equal to the newest document is the one the validators name already.
LEMMA UnchangedStutters ==
  ASSUME IInv, StillSo, NEW w \in Writers, Unchanged(w)
  PROVE  validators' = validators
<1>1. /\ txn[w].feed \in Feeds /\ validators[txn[w].feed] = txn[w].body
      /\ validators \in [Feeds -> Bodies \cup {NoBody}]
  BY OpenType DEF IInv, TypeOK, Unchanged, StillSo
<1> QED
  BY <1>1 DEF Unchanged

LEMMA AloneInductive == AloneInv /\ [AloneNext]_aloneVars => AloneInv'
<1> SUFFICES ASSUME AloneInv, [AloneNext]_aloneVars PROVE AloneInv'
  OBVIOUS
<1>1. IInv'
  BY Inductive DEF AloneInv, AloneNext, aloneVars
<1>2. CASE UNCHANGED aloneVars
  <2>1. \A f : Newest(f)' = Newest(f) /\ Heads(f)' = Heads(f)
    BY <1>2 DEF aloneVars, vars, tables, Newest, Heads, IsHead
  <2>2. TwoOpen' <=> TwoOpen
    BY <1>2 DEF aloneVars, vars, TwoOpen, Open
  <2> QED
    BY <1>1, <1>2, <2>1, <2>2
    DEF AloneInv, aloneVars, vars, tables, StillSo, DocumentsDated, Open
<1>3. CASE AloneNext
  <2> SUFFICES ASSUME ~ overlapped' PROVE StillSo' /\ DocumentsDated'
    BY <1>1 DEF AloneInv
  <2>1. IInv /\ StillSo /\ DocumentsDated /\ ~ TwoOpen' /\ TypeOK /\ clock \in Nat /\ Next
    BY <1>3 DEF AloneNext, AloneInv, IInv, TypeOK
  <2>2. Closed \in Transactions /\ Closed.pc = "closed"
    BY DEF Transactions, Closed
  <2>3. ASSUME NEW w \in Writers, NEW f \in Feeds, NEW b \in Bodies, Begin(w, f, b)
        PROVE  StillSo' /\ DocumentsDated'
    <3> DEFINE t == [pc |-> "open", feed |-> f, body |-> b, at |-> clock]
    <3>1. t \in Transactions /\ t.pc \notin {"recorded", "applying"} /\ t.at < clock'
      BY <2>1, <2>3 DEF Transactions, Begin
    <3>2. \A d \in documents : d.at < t.at
      BY <2>1 DEF DocumentsDated
    <3>3. txn' = [txn EXCEPT ![w] = t] /\ UNCHANGED tables /\ clock' = clock + 1
      BY <2>3 DEF Begin
    <3> QED
      BY <2>1, <3>1, <3>2, <3>3, AloneMoves
  <2>4. ASSUME NEW w \in Writers, Unchanged(w) PROVE StillSo' /\ DocumentsDated'
    <3>1. UNCHANGED tables /\ txn' = [txn EXCEPT ![w] = Closed] /\ clock' = clock
      BY <2>1, <2>4, UnchangedStutters DEF Unchanged, tables
    <3> QED
      BY <2>1, <2>2, <3>1, AloneMoves
  <2>5. ASSUME NEW w \in Writers, RecordDocument(w) PROVE StillSo' /\ DocumentsDated'
    <3> DEFINE t == [txn[w] EXCEPT !.pc = "recorded"]
    <3>1. txn[w] \in Transactions /\ txn[w].pc = "open"
      BY <2>1, <2>5 DEF RecordDocument, TypeOK
    <3>2. /\ t \in Transactions /\ t.pc = "recorded"
          /\ t.feed = txn[w].feed /\ t.body = txn[w].body /\ t.at = txn[w].at
      BY <3>1 DEF Transactions, Closed
    <3>3. /\ txn[w].feed \in Feeds /\ txn[w].body # validators[txn[w].feed]
          /\ txn[w].at < clock
          /\ \A d \in documents : d.feed = txn[w].feed => d.at < txn[w].at
      BY <2>1, <2>5, <3>1, OpenType DEF RecordDocument, StillSo, DocumentsDated, Open
    <3>4. txn' = [txn EXCEPT ![w] = t] /\ UNCHANGED tables /\ clock' = clock
      BY <2>5 DEF RecordDocument
    <3> QED
      BY <2>1, <3>2, <3>3, <3>4, AloneMoves
  <2>6. ASSUME NEW w \in Writers, ReadHeads(w) PROVE StillSo' /\ DocumentsDated'
    <3> DEFINE t == [pc |-> "applying", feed |-> txn[w].feed, body |-> txn[w].body,
                     at |-> txn[w].at, heads |-> Heads(txn[w].feed)]
    <3>1. txn[w].pc = "recorded"
      BY <2>6 DEF ReadHeads
    <3>2. /\ txn[w].feed \in Feeds /\ txn[w].body \in Bodies /\ txn[w].at \in Nat
          /\ txn[w].body # validators[txn[w].feed] /\ txn[w].at < clock
          /\ \A d \in documents : d.feed = txn[w].feed => d.at < txn[w].at
      BY <2>1, <3>1, OpenType DEF StillSo, DocumentsDated, Open
    <3>3. t \in Transactions
      BY <2>1, <3>2, HeadsAreOnePerItem DEF Transactions
    <3>4. txn' = [txn EXCEPT ![w] = t] /\ UNCHANGED tables /\ clock' = clock
      BY <2>6 DEF ReadHeads
    <3> QED
      BY <2>1, <3>2, <3>3, <3>4, AloneMoves
  <2>7. ASSUME NEW w \in Writers, Commit(w) PROVE StillSo' /\ DocumentsDated'
    BY <2>1, <2>7, AloneCommits
  <2>8. ASSUME NEW w \in Writers, Refused(w) \/ Abort(w) PROVE StillSo' /\ DocumentsDated'
    <3>1. txn' = [txn EXCEPT ![w] = Closed] /\ UNCHANGED tables /\ clock' = clock
      BY <2>8 DEF Refused, Abort
    <3> QED
      BY <2>1, <2>2, <3>1, AloneMoves
  <2> QED
    BY <2>1, <2>3, <2>4, <2>5, <2>6, <2>7, <2>8 DEF Next
<1> QED
  BY <1>2, <1>3
\* The rows a commit adds say of each item what the document newly says of it: the item was
\* never seen, or read otherwise.
LEMMA RowsAreNews ==
  ASSUME IInv, NEW w \in Writers, Commit(w), NEW f \in Feeds, f = txn[w].feed,
         txn[w].heads = Heads(f)
  PROVE  {<<r.id.item, r.text>> : r \in NewRows(w)}
           = {<<i, Says(w, i)>> :
                i \in {j \in Items : Says(w, j) \notin {Unsaid, TextNow(f, j)}}}
<1>1. TypeOK /\ HeadsRead /\ txn[w].pc = "applying" /\ ~ Violates(w)
  BY DEF IInv, Commit
<1>2. ASSUME NEW r \in NewRows(w)
      PROVE  /\ r.id.item \in Items /\ r.text = Says(w, r.id.item)
             /\ Says(w, r.id.item) \notin {Unsaid, TextNow(f, r.id.item)}
  <2>1. r.id.item \in Items
    BY <1>1, RowFacts
  <2>2. CASE r \in Firsts(w)
    <3>1. PICK i \in Items : Says(w, i) # Unsaid /\ Found(w, i) = {} /\ r = Row(w, i, NoVersion)
      BY <2>2 DEF Firsts
    <3>2. TextNow(f, i) = Unsaid
      BY <3>1, TextOfHead DEF Found
    <3> QED
      BY <2>1, <3>1, <3>2 DEF Row
  <2>3. CASE r \in Edits(w)
    <3>1. PICK v \in Heads(f) :
            Says(w, v.id.item) \notin {Unsaid, v.text} /\ r = Row(w, v.id.item, v.id)
      BY <2>3 DEF Edits
    <3>2. TextNow(f, v.id.item) = v.text
      BY <3>1, TextOfHead
    <3> QED
      BY <2>1, <3>1, <3>2 DEF Row
  <2> QED
    BY <2>2, <2>3 DEF NewRows
<1>3. ASSUME NEW i \in Items, Says(w, i) \notin {Unsaid, TextNow(f, i)}
      PROVE  \E r \in NewRows(w) : r.id.item = i /\ r.text = Says(w, i)
  <2>1. CASE Found(w, i) = {}
    <3>1. Row(w, i, NoVersion) \in NewRows(w)
      BY <1>3, <2>1 DEF NewRows, Firsts
    <3> QED
      BY <3>1 DEF Row
  <2>2. CASE Found(w, i) # {}
    <3>1. PICK v \in Heads(f) : v.id.item = i
      BY <2>2 DEF Found
    <3>2. TextNow(f, i) = v.text
      BY <3>1, TextOfHead
    <3>3. Row(w, v.id.item, v.id) \in NewRows(w)
      BY <1>3, <3>1, <3>2 DEF NewRows, Edits
    <3> QED
      BY <3>1, <3>3 DEF Row
  <2> QED
    BY <2>1, <2>2
<1> QED
  BY <1>2, <1>3

\* A commit is the abstract Store of its body.
LEMMA CommitStores ==
  ASSUME IInv, StillSo, NEW w \in Writers, Commit(w),
         NEW f, f = txn[w].feed, NEW b, b = txn[w].body
  PROVE  f \in Feeds /\ b \in Bodies /\ A!Store(f, b)
<1> DEFINE said == [x \in Bodies |-> [i \in Items |-> FirstSaid(x, i)]]
           heads == [g \in Feeds |-> [i \in Items |-> TextNow(g, i)]]
           texts(g) == {<<v.id.item, v.text>> : v \in {u \in versions : u.id.feed = g}}
           kept == [g \in Feeds |-> texts(g)]
<1>1. /\ txn[w].pc = "applying" /\ TypeOK /\ HeadsRead /\ ~ Violates(w)
      /\ validators' = [validators EXCEPT ![f] = b]
      /\ versions' = versions \cup NewRows(w)
  BY DEF Commit, IInv
<1>2. /\ f \in Feeds /\ b \in Bodies /\ b # validators[f] /\ txn[w].heads = Heads(f)
  BY <1>1, OpenType DEF StillSo
<1>3. \A i \in Items : said[b][i] = Says(w, i)
  BY <1>2 DEF Says
<1>4. heads' = [heads EXCEPT ![f] =
                  [i \in Items |-> IF said[b][i] = Unsaid THEN heads[f][i] ELSE said[b][i]]]
  <2>1. \A g \in Feeds, i \in Items :
          TextNow(g, i)' = IF g = f /\ Says(w, i) # Unsaid THEN Says(w, i) ELSE TextNow(g, i)
    BY <1>2, TextsAfterCommit
  <2> DEFINE applied ==
        [i \in Items |-> IF said[b][i] = Unsaid THEN heads[f][i] ELSE said[b][i]]
  <2>2. applied = [i \in Items |-> TextNow(f, i)']
    BY <1>2, <1>3, <2>1
  <2>3. \A g \in Feeds : g # f =>
          [i \in Items |-> TextNow(g, i)'] = [i \in Items |-> TextNow(g, i)]
    BY <2>1
  <2>4. heads' = [g \in Feeds |-> IF g = f THEN applied ELSE heads[g]]
    BY <2>2, <2>3
  <2> HIDE DEF applied
  <2>5. [heads EXCEPT ![f] = applied] = [g \in Feeds |-> IF g = f THEN applied ELSE heads[g]]
    OBVIOUS
  <2>6. heads' = [heads EXCEPT ![f] = applied]
    BY <2>4, <2>5
  <2> QED
    BY <2>6 DEF applied
<1>5. kept' = [kept EXCEPT ![f] = @ \cup
                 {<<i, said[b][i]>> :
                    i \in {j \in Items : said[b][j] # Unsaid /\ heads[f][j] = Unsaid}
                      \cup {j \in Items : said[b][j] \notin {Unsaid, heads[f][j]}
                                            /\ heads[f][j] # Unsaid}}]
  <2> DEFINE news == {<<i, said[b][i]>> :
                        i \in {j \in Items : said[b][j] # Unsaid /\ heads[f][j] = Unsaid}
                          \cup {j \in Items : said[b][j] \notin {Unsaid, heads[f][j]}
                                                /\ heads[f][j] # Unsaid}}
  <2>1. news = {<<r.id.item, r.text>> : r \in NewRows(w)}
    <3>1. {<<r.id.item, r.text>> : r \in NewRows(w)}
            = {<<i, Says(w, i)>> :
                 i \in {j \in Items : Says(w, j) \notin {Unsaid, TextNow(f, j)}}}
      BY <1>2, RowsAreNews
    <3>2. {j \in Items : said[b][j] # Unsaid /\ heads[f][j] = Unsaid}
            \cup {j \in Items : said[b][j] \notin {Unsaid, heads[f][j]} /\ heads[f][j] # Unsaid}
            = {j \in Items : Says(w, j) \notin {Unsaid, TextNow(f, j)}}
      BY <1>2, <1>3
    <3>3. \A i \in {j \in Items : Says(w, j) \notin {Unsaid, TextNow(f, j)}} :
            said[b][i] = Says(w, i)
      BY <1>3
    <3>4. PICK moved : moved = {j \in Items : Says(w, j) \notin {Unsaid, TextNow(f, j)}}
      OBVIOUS
    <3>5. news = {<<i, said[b][i]>> : i \in moved}
      BY <3>2, <3>4
    <3> HIDE DEF said, news
    <3> QED
      BY <3>1, <3>3, <3>4, <3>5
  <2> HIDE DEF news
  <2>2. \A r \in NewRows(w) : r.id.feed = f
    BY <1>1, RowFacts
  <2>3. \A g \in Feeds : texts(g)' = IF g = f THEN texts(f) \cup news ELSE texts(g)
    <3>1. texts(f)' = texts(f) \cup news
      BY <1>1, <2>1, <2>2
    <3>2. ASSUME NEW g \in Feeds, g # f PROVE texts(g)' = texts(g)
      <4>1. {u \in versions' : u.id.feed = g} = {u \in versions : u.id.feed = g}
        BY <1>1, <2>2, <3>2
      <4> QED
        BY <4>1
    <3> QED
      BY <3>1, <3>2
  <2> HIDE DEF texts
  <2>4. kept' = [g \in Feeds |-> IF g = f THEN texts(f) \cup news ELSE texts(g)]
    BY <2>3
  <2>5. [kept EXCEPT ![f] = @ \cup news]
          = [g \in Feeds |-> IF g = f THEN texts(f) \cup news ELSE texts(g)]
    BY <1>2
  <2>6. kept' = [kept EXCEPT ![f] = @ \cup news]
    BY <2>4, <2>5
  <2> QED
    BY <2>6 DEF news
<1> QED
  BY <1>1, <1>2, <1>4, <1>5 DEF A!Store, A!Applied, A!NewItems, A!Edited
\* Every step is a Store of the archive or leaves it as it is, until two polls overlap.
LEMMA AloneSteps ==
  AloneInv /\ [AloneNext]_aloneVars => overlapped' \/ [A!ArchiveNext]_(A!archiveVars)
<1> SUFFICES ASSUME AloneInv, [AloneNext]_aloneVars, ~ overlapped'
             PROVE  [A!ArchiveNext]_(A!archiveVars)
  OBVIOUS
<1>1. IInv /\ StillSo
  BY DEF AloneInv, AloneNext, aloneVars
<1>2. CASE validators' = validators /\ versions' = versions
  <2>1. \A f, i : TextNow(f, i)' = TextNow(f, i)
    BY <1>2 DEF TextNow, Heads, IsHead
  <2>2. UNCHANGED A!archiveVars
    BY <1>2, <2>1 DEF A!archiveVars
  <2> QED
    BY <2>2
<1>3. CASE Next
  <2>1. ASSUME NEW w \in Writers, Commit(w) PROVE A!ArchiveNext
    <3>1. PICK f, b : f = txn[w].feed /\ b = txn[w].body
      OBVIOUS
    <3> QED
      BY <1>1, <2>1, <3>1, CommitStores DEF A!ArchiveNext
  <2>2. ASSUME NEW w \in Writers, Unchanged(w)
        PROVE  validators' = validators /\ versions' = versions
    BY <1>1, <2>2, UnchangedStutters DEF Unchanged
  <2> QED
    BY <1>2, <1>3, <2>1, <2>2
    DEF Next, Begin, RecordDocument, ReadHeads, Refused, Abort, tables
<1> QED
  BY <1>2, <1>3 DEF AloneNext, aloneVars, vars, tables

\* Until two polls of one feed overlap, storing a document statement by statement, with
\* rollbacks, refusals and crashes anywhere between, implements storing it at once.
THEOREM StoringIsAtOnce == AloneSpec => AloneImplementsArchive
<1>1. AloneInit => AloneInv
  <2> SUFFICES ASSUME AloneInit PROVE AloneInv
    OBVIOUS
  <2>1. IInv /\ StillSo /\ DocumentsDated
    <3>1. Closed.pc = "closed"
      BY DEF Closed
    <3>2. StillSo
      BY <3>1 DEF AloneInit, Init, StillSo, TwoOpen, Open, Newest, Latest
    <3>3. DocumentsDated
      BY <3>1 DEF AloneInit, Init, DocumentsDated, Open
    <3> QED
      BY <3>2, <3>3, Initially DEF AloneInit
  <2> QED
    BY <2>1 DEF AloneInv
<1>2. AloneInit => A!ArchiveInit
  <2> SUFFICES ASSUME AloneInit PROVE A!ArchiveInit
    OBVIOUS
  <2>1. versions = {} /\ validators = [f \in Feeds |-> NoBody]
    BY DEF AloneInit, Init
  <2>2. \A f, i : TextNow(f, i) = Unsaid
    BY <2>1 DEF TextNow, Heads
  <2> QED
    BY <2>1, <2>2 DEF A!ArchiveInit
<1> QED
  BY <1>1, <1>2, AloneInductive, AloneSteps, PTL DEF AloneSpec, AloneImplementsArchive
=============================================================================
