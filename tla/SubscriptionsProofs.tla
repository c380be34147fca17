------------------------ MODULE SubscriptionsProofs ------------------------
(***************************************************************************)
(* For any addresses, clients, OPML file and bounds: a transaction fails   *)
(* only on a feed another client was about, or whose subscription was      *)
(* deleted, and a filing nobody disturbed is one that was asked for whole. *)
(*                                                                         *)
(* Two clients in transactions on one feed make it contested.  So whoever  *)
(* is about a feed that is not finds the rows as they were read.           *)
(***************************************************************************)
EXTENDS Subscriptions, TLAPS

Early == {"idle", "discovering", "adding"}
Creating == {"hosting", "creating", "feeding"}
Changing == {"reactivating", "dropping", "refiling"}

Busy ==
  [pc : {"discovering", "adding", "subscribing"} \cup Creating \cup Changing,
   url : Addresses, filing : Fields, row : Nat \cup {NoRow},
   ownHost : BOOLEAN, ownFeed : BOOLEAN]

\* Types, and where an import is while a client of its own is at work.
Typing ==
  /\ TypeOK
  /\ client \in [Clients -> {Idle} \cup Busy]
  /\ sent \in [Feeds -> SUBSET Filings]
  /\ ~ At(Importer, "idle") => outline \in DOMAIN Outlines

\* Whatever others do, a client at work on a feed knows this.
Sound(c) ==
  /\ c.pc = "discovering" => c.url \in Feeds \cup Pages
  /\ c.pc \notin {"idle", "discovering"} => c.url \in Feeds
  /\ c.pc \notin {"idle", "refiling"} => c.filing \in Filings
  /\ c.pc \notin {"idle", "subscribing"} => c.ownFeed = FALSE
  /\ c.pc = "feeding" => HostOf[c.url] \in hosts \/ c.ownHost = TRUE
  /\ c.pc = "subscribing" =>
       \/ c.ownFeed = FALSE /\ c.url \in feeds
       \/ c.ownFeed = TRUE /\ (HostOf[c.url] \in hosts \/ c.ownHost = TRUE)

\* And this, on a feed that is its own business alone.
Alone(c) ==
  c.pc \notin Early /\ c.url \notin contested =>
    /\ c.pc \in Creating => c.url \notin feeds
    /\ c.pc = "subscribing" =>
         subs[c.url] = NoRow /\ (c.ownFeed = TRUE => c.url \notin feeds)
    /\ c.pc \in Changing => subs[c.url] # NoRow /\ subs[c.url].id = c.row
    /\ c.pc = "refiling" => Merged(c.filing, subs[c.url].filing) \in sent[c.url]

\* Two transactions on one feed have met.
Met(c, d) == c.pc \notin Early /\ d.pc \notin Early /\ c.url = d.url => c.url \in contested

Clientele ==
  /\ \A p \in Clients : Sound(client[p]) /\ Alone(client[p])
  /\ \A p, q \in Clients : p # q => Met(client[p], client[q])

IInv == Typing /\ Clientele /\ FailsOnlyOnItsOwnFeed /\ FiledWhole

-----------------------------------------------------------------------------
\* What a client is at, apart from where in the code it is.
LEMMA BusyFields ==
  ASSUME NEW c \in Busy, NEW pc \in {"discovering", "adding", "subscribing"} \cup Creating \cup Changing,
         NEW d, d = [c EXCEPT !.pc = pc]
  PROVE  /\ d \in Busy /\ d.pc = pc /\ d.url = c.url /\ d.filing = c.filing
         /\ d.row = c.row /\ d.ownHost = c.ownHost /\ d.ownFeed = c.ownFeed
  BY DEF Busy

\* The rows a step leaves, and that it only touches what is about the feed g.
Touches(g) ==
  /\ contested \subseteq contested' /\ hosts \subseteq hosts' /\ feeds \subseteq feeds'
  /\ \A f \in Feeds : sent[f] \subseteq sent'[f]
  /\ \A f \in Feeds \ {g} : subs'[f] = subs[f] /\ (f \in feeds' => f \in feeds)

\* One client moves: the others know what they knew, if it met whoever is about its feed.
LEMMA OneMoves ==
  ASSUME IInv, NEW p \in Clients, NEW c \in {Idle} \cup Busy,
         client' = [client EXCEPT ![p] = c],
         NEW g, Touches(g),
         \A q \in Clients \ {p} :
           client[q].pc \notin Early /\ client[q].url = g =>
             \/ g \in contested'
             \/ subs'[g] = subs[g] /\ (g \in feeds' => g \in feeds),
         \A q \in Clients \ {p} : Met(c, client[q])',
         Sound(c)', Alone(c)'
  PROVE  Clientele'
<1>1. \A q \in Clients : client'[q] = IF q = p THEN c ELSE client[q]
  BY DEF IInv, Typing
<1>2. ASSUME NEW q \in Clients \ {p} PROVE Sound(client[q])' /\ Alone(client[q])'
  <2> DEFINE d == client[q]
  <2>1. client'[q] = d
    BY <1>1
  <2>2. Sound(d) /\ Alone(d)
    BY DEF IInv, Clientele
  <2> HIDE DEF d
  <2>3. contested \subseteq contested' /\ hosts \subseteq hosts' /\ feeds \subseteq feeds'
    BY DEF Touches
  <2>4. Sound(client[q])'
    BY <2>1, <2>2, <2>3 DEF Sound
  <2>5. CASE d.pc \in Early \/ d.url \in contested'
    BY <2>1, <2>4, <2>5 DEF Alone
  <2>6. CASE d.pc \notin Early /\ d.url \notin contested'
    <3>1. d.url \in Feeds /\ d.url \notin contested
      BY <2>2, <2>3, <2>6 DEF Sound, Early
    <3>2. subs'[d.url] = subs[d.url] /\ (d.url \in feeds' => d.url \in feeds)
      BY <2>6, <3>1 DEF Touches, d
    <3>3. sent[d.url] \subseteq sent'[d.url]
      BY <3>1 DEF Touches
    <3> QED BY <2>1, <2>2, <2>4, <2>6, <3>1, <3>2, <3>3 DEF Alone
  <2> QED BY <2>4, <2>5, <2>6
<1>3. ASSUME NEW q \in Clients, NEW r \in Clients, q # r PROVE Met(client[q], client[r])'
  <2>1. Met(client[q], client[r])
    BY <1>3 DEF IInv, Clientele
  <2>2. contested \subseteq contested'
    BY DEF Touches
  <2>3. CASE q # p /\ r # p
    BY <1>1, <2>1, <2>2, <2>3 DEF Met
  <2>4. CASE q = p
    <3>1. Met(c, client[r])'
      BY <1>3, <2>4
    <3> QED BY <1>1, <1>3, <2>4, <3>1 DEF Met
  <2>5. CASE r = p
    <3>1. Met(c, client[q])'
      BY <1>3, <2>5
    <3> QED BY <1>1, <1>3, <2>5, <3>1 DEF Met
  <2> QED BY <2>3, <2>4, <2>5
<1>4. Sound(client[p])' /\ Alone(client[p])'
  BY <1>1 DEF Sound, Alone
<1> QED BY <1>2, <1>3, <1>4 DEF Clientele
-----------------------------------------------------------------------------
Tables ==
  /\ hosts \subseteq Hosts /\ feeds \subseteq Feeds
  /\ subs \in [Feeds -> Rows \cup {NoRow}]
  /\ \A f \in feeds : HostOf[f] \in hosts
  /\ \A f \in Feeds : subs[f] # NoRow => f \in feeds
  /\ missed \in BOOLEAN /\ imported \in BOOLEAN
  /\ requests \in Nat /\ deletes \in Nat /\ faults \in Nat
  /\ sent \in [Feeds -> SUBSET Filings]

\* The import goes on from where it is, and a reader leaves it there.
ImportMoves(p, c) ==
  /\ outline' \in 0 .. Len(Outlines) + 1
  /\ IF p = Importer THEN c.pc # "idle" => outline' \in DOMAIN Outlines
                     ELSE outline' = outline

LEMMA TypingGivesTables == Typing => Tables
  BY DEF Typing, TypeOK, Tables

LEMMA OutlineTypes ==
  /\ Len(Outlines) \in Nat /\ DOMAIN Outlines = 1 .. Len(Outlines)
  BY SubscriptionsAssumption

LEMMA TypingMoves ==
  ASSUME IInv, NEW p \in Clients, NEW c \in {Idle} \cup Busy,
         client' = [client EXCEPT ![p] = c], Tables', ImportMoves(p, c)
  PROVE  Typing'
<1>1. client' \in [Clients -> {Idle} \cup Busy]
  BY DEF IInv, Typing
<1>2. \A q \in Clients : client'[q].pc = "idle" \/
        /\ client'[q].url \in Addresses /\ client'[q].filing \in Fields
        /\ client'[q].row \in Nat \cup {NoRow}
        /\ client'[q].ownHost \in BOOLEAN /\ client'[q].ownFeed \in BOOLEAN
  BY <1>1 DEF Idle, Busy
<1>3. client'[Importer].pc # "idle" => outline' \in DOMAIN Outlines
  <2>1. client'[Importer] = IF p = Importer THEN c ELSE client[Importer]
    BY DEF IInv, Typing, Clients
  <2> QED BY <2>1 DEF IInv, Typing, At, ImportMoves
<1> QED BY <1>1, <1>2, <1>3 DEF Typing, TypeOK, Tables, ImportMoves, At

\* A client that is not idle is busy.
LEMMA NotIdle ==
  ASSUME IInv, NEW p \in Clients, client[p].pc # "idle"
  PROVE  /\ client[p] \in Busy /\ Sound(client[p]) /\ Alone(client[p])
         /\ p = Importer => outline \in DOMAIN Outlines
  BY DEF IInv, Typing, Clientele, Idle, At

\* Nothing is expected of a client that has gone idle.
LEMMA IdleMoves ==
  ASSUME TRUE
  PROVE  /\ Sound(Idle)' /\ Alone(Idle)' /\ \A d : Met(Idle, d)'
         /\ Idle.pc = "idle"
  BY DEF Sound, Alone, Met, Idle, Early, Creating, Changing

\* An answered client is idle, and an import is an outline further on.
LEMMA AnsweredMoves ==
  ASSUME IInv, NEW p \in Clients, Answers(p), p = Importer => outline \in DOMAIN Outlines
  PROVE  /\ client' = [client EXCEPT ![p] = Idle] /\ ImportMoves(p, Idle)
         /\ missed' \in BOOLEAN /\ imported' \in BOOLEAN
<1>1. outline \in 0 .. Len(Outlines) + 1 /\ missed \in BOOLEAN /\ imported \in BOOLEAN
  BY DEF IInv, Typing, TypeOK
<1>2. outline' = IF p = Importer THEN outline + 1 ELSE outline
  BY DEF Answers
<1>3. ImportMoves(p, Idle)
  BY <1>1, <1>2, OutlineTypes, IdleMoves DEF ImportMoves
<1> QED BY <1>1, <1>3 DEF Answers, Step

\* A client moves, and the rows stay.
LEMMA Quietly ==
  ASSUME IInv, NEW p \in Clients, NEW c \in {Idle} \cup Busy,
         client' = [client EXCEPT ![p] = c], ImportMoves(p, c),
         UNCHANGED <<hosts, feeds, subs, failed>>,
         contested \subseteq contested',
         sent' \in [Feeds -> SUBSET Filings], \A f \in Feeds : sent[f] \subseteq sent'[f],
         missed' \in BOOLEAN, imported' \in BOOLEAN,
         requests' \in Nat, deletes' \in Nat, faults' \in Nat,
         \A q \in Clients \ {p} : Met(c, client[q])',
         Sound(c)', Alone(c)'
  PROVE  IInv'
<1>1. Tables'
  <2>1. Tables
    BY TypingGivesTables DEF IInv
  <2> QED BY <2>1 DEF Tables
<1>2. Typing'
  BY <1>1, TypingMoves
<1>3. Clientele'
  <2>1. \A g : Touches(g)
    BY DEF Touches
  <2> QED BY <2>1, OneMoves
<1>4. FailsOnlyOnItsOwnFeed' /\ FiledWhole'
  BY DEF IInv, FailsOnlyOnItsOwnFeed, FiledWhole
<1> QED BY <1>2, <1>3, <1>4 DEF IInv

\* A client goes on from what it knew of its feed, with nobody new about it.
LEMMA GoesOn ==
  ASSUME IInv, NEW p \in Clients, client[p].pc # "idle", NEW c \in Busy,
         client' = [client EXCEPT ![p] = c], c.url = client[p].url,
         client[p].pc \notin Early,
         UNCHANGED <<hosts, feeds, subs, import, bounds, ghosts>>,
         Sound(c), Alone(c)
  PROVE  IInv'
<1> USE DEF import, bounds, ghosts
<1>1. Tables /\ outline \in 0 .. Len(Outlines) + 1
  BY TypingGivesTables DEF IInv, Typing, TypeOK
<1>2. ImportMoves(p, c)
  BY <1>1, NotIdle DEF ImportMoves
<1>3. \A q \in Clients \ {p} : Met(c, client[q])'
  <2> SUFFICES ASSUME NEW q \in Clients \ {p} PROVE Met(c, client[q])'
    OBVIOUS
  <2>1. client'[q] = client[q]
    BY DEF IInv, Typing
  <2>2. Met(client[p], client[q])
    BY DEF IInv, Clientele
  <2> QED BY <2>1, <2>2 DEF Met
<1>4. Sound(c)' /\ Alone(c)'
  BY DEF Sound, Alone
<1> QED BY <1>1, <1>2, <1>3, <1>4, Quietly DEF Tables

\* A transaction that fails does so on a contested feed, and leaves no trace.
LEMMA FailureKeeps ==
  ASSUME IInv, NEW p \in Clients, client[p].pc # "idle", Fails(p), client[p].url \in contested
  PROVE  IInv'
<1> USE DEF rows, bounds
<1>1. Tables /\ outline \in 0 .. Len(Outlines) + 1
  BY TypingGivesTables DEF IInv, Typing, TypeOK
<1>2. /\ client' = [client EXCEPT ![p] = Idle]
      /\ outline' = IF p = Importer THEN 0 ELSE outline
      /\ failed' = failed \cup {client[p].url}
      /\ UNCHANGED <<hosts, feeds, subs, missed, imported, requests, deletes, faults,
                     contested, withdrawn, sent>>
  BY DEF Fails, Step
<1>3. ImportMoves(p, Idle)
  BY <1>1, <1>2, OutlineTypes, IdleMoves DEF ImportMoves
<1>4. Tables' /\ \A g : Touches(g)
  BY <1>1, <1>2 DEF Tables, Touches
<1>5. Typing'
  BY <1>2, <1>3, <1>4, TypingMoves
<1>6. Clientele'
  BY <1>2, <1>4, IdleMoves, OneMoves
<1>7. FailsOnlyOnItsOwnFeed' /\ FiledWhole'
  BY <1>2 DEF IInv, FailsOnlyOnItsOwnFeed, FiledWhole
<1> QED BY <1>5, <1>6, <1>7 DEF IInv

\* A transaction commits a row of its feed, with a filing that is whole if the feed is its own.
LEMMA CommitKeeps ==
  ASSUME IInv, NEW p \in Clients, client[p].pc \notin Early, Answers(p),
         UNCHANGED <<bounds, contested, failed>>,
         hosts \subseteq hosts', feeds \subseteq feeds', hosts' \subseteq Hosts,
         feeds' \subseteq feeds \cup {client[p].url},
         \A f \in feeds' : HostOf[f] \in hosts',
         NEW row \in Rows, subs' = [subs EXCEPT ![client[p].url] = row],
         client[p].url \in feeds',
         sent' \in [Feeds -> SUBSET Filings], \A f \in Feeds : sent[f] \subseteq sent'[f],
         client[p].url \notin contested => row.filing \in sent'[client[p].url]
  PROVE  IInv'
<1> DEFINE g == client[p].url
<1> USE DEF bounds
<1>1. client[p].pc # "idle"
  BY DEF Early
<1>2. g \in Feeds /\ (p = Importer => outline \in DOMAIN Outlines)
  BY <1>1, NotIdle DEF Sound, Early
<1>3. /\ client' = [client EXCEPT ![p] = Idle] /\ ImportMoves(p, Idle)
      /\ missed' \in BOOLEAN /\ imported' \in BOOLEAN
  BY <1>2, AnsweredMoves
<1>4. Tables
  BY TypingGivesTables DEF IInv
<1> HIDE DEF g
<1>5. subs' = [subs EXCEPT ![g] = row] /\ g \in feeds' /\ feeds' \subseteq feeds \cup {g}
  BY DEF g
<1>6. \A f \in Feeds \ {g} : subs'[f] = subs[f]
  BY <1>4, <1>5 DEF Tables
<1>7. Tables'
  BY <1>2, <1>3, <1>4, <1>5, <1>6 DEF Tables
<1>8. Touches(g)
  BY <1>5, <1>6 DEF Touches
<1>9. Typing'
  BY <1>3, <1>7, TypingMoves
<1>10. Clientele'
  <2>1. \A q \in Clients \ {p} :
          client[q].pc \notin Early /\ client[q].url = g => g \in contested'
    BY DEF IInv, Clientele, Met, g
  <2> QED BY <1>3, <1>8, <2>1, IdleMoves, OneMoves
<1>11. FailsOnlyOnItsOwnFeed'
  BY DEF IInv, FailsOnlyOnItsOwnFeed
<1>12. FiledWhole'
  <2> SUFFICES ASSUME NEW f \in Feeds, subs'[f] # NoRow, f \notin contested
               PROVE  subs'[f].filing \in sent'[f]
    BY DEF FiledWhole
  <2>1. CASE f = g
    <3>1. subs'[g] = row
      BY <1>2, <1>4, <1>5 DEF Tables
    <3> QED BY <2>1, <3>1 DEF g
  <2>2. CASE f # g
    BY <1>6, <2>2 DEF IInv, FiledWhole
  <2> QED BY <2>1, <2>2
<1> QED BY <1>9, <1>10, <1>11, <1>12 DEF IInv
-----------------------------------------------------------------------------
\* A client with a feed of its own.
LEMMA OwnsFeed ==
  ASSUME NEW c \in Busy, NEW d, d = [c EXCEPT !.pc = "subscribing", !.ownFeed = TRUE]
  PROVE  /\ d \in Busy /\ d.pc = "subscribing" /\ d.url = c.url /\ d.filing = c.filing
         /\ d.ownHost = c.ownHost /\ d.ownFeed = TRUE
  BY DEF Busy, Creating, Changing

\* What is written of a filing is what was asked for, where nobody wrote in between.
LEMMA Whole ==
  ASSUME NEW filing \in Filings, NEW old \in Filings
  PROVE  /\ Changed(filing, old) \in Fields
         /\ Merged(Changed(filing, old), old) = filing
         /\ \A changed \in Fields : Merged(changed, old) \in Filings
<1>1. NoRow \notin Sections /\ NoRow \notin Tiers
  BY SubscriptionsAssumption
<1>2. filing = [section |-> filing.section, tier |-> filing.tier]
  BY DEF Filings
<1>3. Changed(filing, old) \in Fields /\ \A changed \in Fields : Merged(changed, old) \in Filings
  BY DEF Changed, Merged, Fields, Filings
<1>4. /\ Merged(Changed(filing, old), old).section = filing.section
      /\ Merged(Changed(filing, old), old).tier = filing.tier
  BY <1>1 DEF Changed, Merged, Filings
<1>5. Merged(Changed(filing, old), old) \in Filings
  BY <1>3
<1> QED BY <1>2, <1>3, <1>4, <1>5 DEF Filings

LEMMA FilingsAreFields == Filings \subseteq Fields
  BY DEF Filings, Fields

\* Whoever opens a transaction about a feed meets everybody in one.
LEMMA ContestsMeets ==
  ASSUME IInv, NEW p \in Clients, NEW c, NEW f, Contests(p, f), c.url = f,
         client' = [client EXCEPT ![p] = c]
  PROVE  /\ contested \subseteq contested'
         /\ \A q \in Clients \ {p} : Met(c, client[q])'
<1>1. contested \subseteq contested'
  BY DEF Contests
<1>2. ASSUME NEW q \in Clients \ {p} PROVE Met(c, client[q])'
  <2>1. client'[q] = client[q]
    BY DEF IInv, Typing
  <2>2. client[q].pc \notin Early /\ client[q].url = f => f \in contested'
    BY DEF Contests, Early
  <2> QED BY <2>1, <2>2 DEF Met
<1> QED BY <1>1, <1>2

-----------------------------------------------------------------------------
LEMMA LookKeeps ==
  ASSUME IInv, NEW p \in Clients, Look(p)
  PROVE  IInv'
<1> USE DEF rows, import, bounds
<1>1. client[p].pc = "adding"
  BY DEF Look, At
<1>2. PICK was : was = client[p]
  OBVIOUS
<1>3. PICK f : f = client[p].url
  OBVIOUS
<1>4. /\ was \in Busy /\ Sound(was) /\ was.url = f /\ was.pc = "adding"
      /\ p = Importer => outline \in DOMAIN Outlines
  BY <1>1, <1>2, <1>3, NotIdle
<1>5. Tables /\ outline \in 0 .. Len(Outlines) + 1
  BY TypingGivesTables DEF IInv, Typing, TypeOK
<1>6. /\ Contests(p, f)
      /\ UNCHANGED <<hosts, feeds, subs, requests, deletes, faults, failed, sent>>
  BY <1>3 DEF Look
<1>7. CASE Active(f)
  <2>1. Answers(p)
    BY <1>3, <1>7 DEF Look
  <2>2. contested \subseteq contested'
    BY <1>6 DEF Contests
  <2>3. /\ client' = [client EXCEPT ![p] = Idle] /\ ImportMoves(p, Idle)
        /\ missed' \in BOOLEAN /\ imported' \in BOOLEAN
    BY <1>4, <2>1, AnsweredMoves
  <2>4. Sound(Idle)' /\ Alone(Idle)' /\ \A q \in Clients \ {p} : Met(Idle, client[q])'
    BY IdleMoves
  <2> QED BY <1>5, <1>6, <2>2, <2>3, <2>4, Quietly DEF Tables
<1>8. CASE ~ Active(f)
  <2>1. PICK pc : pc = IF f \notin feeds THEN "hosting"
                       ELSE IF subs[f] = NoRow THEN "subscribing" ELSE "reactivating"
    OBVIOUS
  <2>2. PICK row : row = IF subs[f] = NoRow THEN NoRow ELSE subs[f].id
    OBVIOUS
  <2>3. PICK c : c = [was EXCEPT !.pc = pc, !.row = row]
    OBVIOUS
  <2>4. client' = [client EXCEPT ![p] = c] /\ UNCHANGED <<outline, missed, imported>>
    BY <1>2, <1>3, <1>8, <2>1, <2>2, <2>3 DEF Look, Step
  <2>5. f \in Feeds /\ was.ownFeed = FALSE /\ was.filing \in Filings
    BY <1>4 DEF Sound
  <2>6. row \in Nat \cup {NoRow} /\ pc \in {"subscribing", "hosting", "reactivating"}
    BY <1>5, <2>1, <2>2, <2>5 DEF Tables, Rows
  <2>7. /\ c \in Busy /\ c.pc = pc /\ c.url = was.url /\ c.row = row
        /\ c.ownFeed = was.ownFeed /\ c.filing = was.filing
    BY <1>4, <2>3, <2>6 DEF Busy, Creating, Changing
  <2>8. contested \subseteq contested' /\ \A q \in Clients \ {p} : Met(c, client[q])'
    BY <1>4, <1>6, <2>4, <2>7, ContestsMeets
  <2>9. Sound(c)
    BY <1>4, <2>1, <2>5, <2>6, <2>7 DEF Sound
  <2>10. Alone(c)
    BY <1>4, <2>1, <2>2, <2>5, <2>6, <2>7 DEF Alone, Creating, Changing
  <2>11. Sound(c)' /\ Alone(c)'
    BY <1>6, <2>8, <2>9, <2>10, <2>6, <2>7 DEF Sound, Alone, Changing
  <2>12. ImportMoves(p, c)
    BY <1>4, <1>5, <2>4 DEF ImportMoves
  <2> QED BY <1>5, <1>6, <2>4, <2>7, <2>8, <2>11, <2>12, Quietly DEF Tables
<1> QED BY <1>7, <1>8

LEMMA LookForHostKeeps ==
  ASSUME IInv, NEW p \in Clients, LookForHost(p)
  PROVE  IInv'
<1> DEFINE pc == IF HostOf[client[p].url] \in hosts THEN "feeding" ELSE "creating"
           c == [client[p] EXCEPT !.pc = pc]
<1>1. client[p].pc = "hosting" /\ client[p].pc # "idle" /\ client[p].pc \notin Early
  BY DEF LookForHost, At, Early
<1>2. client[p] \in Busy /\ Sound(client[p]) /\ Alone(client[p])
  BY <1>1, NotIdle
<1>3. client' = [client EXCEPT ![p] = c]
  BY DEF LookForHost, Goes, Step
<1>4. UNCHANGED <<hosts, feeds, subs, import, bounds, ghosts>>
  BY DEF LookForHost, rows
<1>5. pc \in {"feeding", "creating"} /\ (pc = "feeding" => HostOf[client[p].url] \in hosts)
  OBVIOUS
<1> HIDE DEF pc
<1>6. /\ c \in Busy /\ c.pc = pc /\ c.url = client[p].url /\ c.filing = client[p].filing
      /\ c.ownFeed = client[p].ownFeed
  BY <1>2, <1>5, BusyFields DEF Creating
<1> HIDE DEF c
<1>7. Sound(c) /\ Alone(c)
  BY <1>1, <1>2, <1>5, <1>6 DEF Sound, Alone, Creating, Changing
<1> QED BY <1>1, <1>3, <1>4, <1>6, <1>7, GoesOn

LEMMA CreateHostKeeps ==
  ASSUME IInv, NEW p \in Clients, CreateHost(p)
  PROVE  IInv'
<1>1. client[p].pc = "creating" /\ client[p].pc # "idle" /\ client[p].pc \notin Early
  BY DEF CreateHost, At, Early
<1>2. PICK was : was = client[p]
  OBVIOUS
<1>3. was \in Busy /\ Sound(was) /\ Alone(was)
  BY <1>1, <1>2, NotIdle
<1>4. PICK own : own = (HostOf[was.url] \notin hosts)
  OBVIOUS
<1>5. PICK c : c = [was EXCEPT !.pc = "feeding", !.ownHost = own]
  OBVIOUS
<1>6. client' = [client EXCEPT ![p] = c]
  BY <1>2, <1>4, <1>5 DEF CreateHost, Step
<1>7. UNCHANGED <<hosts, feeds, subs, import, bounds, ghosts>>
  BY DEF CreateHost, rows
<1>8. own \in BOOLEAN
  BY <1>4
<1>9. HostOf[was.url] \in hosts \/ own = TRUE
  BY <1>4
<1>10. /\ c \in Busy /\ c.pc = "feeding" /\ c.url = was.url /\ c.filing = was.filing
       /\ c.ownFeed = was.ownFeed /\ c.ownHost = own
  BY <1>3, <1>5, <1>8 DEF Busy, Creating, Changing
<1>11. HostOf[c.url] \in hosts \/ c.ownHost = TRUE
  BY <1>9, <1>10
<1>12. Sound(c) /\ Alone(c)
  BY <1>1, <1>2, <1>3, <1>10, <1>11 DEF Sound, Alone, Creating, Changing
<1> QED BY <1>1, <1>2, <1>6, <1>7, <1>10, <1>12, GoesOn

LEMMA InsertFeedKeeps ==
  ASSUME IInv, NEW p \in Clients, InsertFeed(p)
  PROVE  IInv'
<1> DEFINE c == [client[p] EXCEPT !.pc = "subscribing", !.ownFeed = TRUE]
<1>1. client[p].pc = "feeding" /\ client[p].pc # "idle" /\ client[p].pc \notin Early
  BY DEF InsertFeed, At, Early
<1>2. client[p] \in Busy /\ Sound(client[p]) /\ Alone(client[p])
  BY <1>1, NotIdle
<1>3. Tables
  BY TypingGivesTables DEF IInv
<1>4. CASE client[p].url \in feeds
  <2>1. client[p].url \in contested
    BY <1>1, <1>2, <1>4 DEF Alone, Creating
  <2>2. Fails(p)
    BY <1>4 DEF InsertFeed
  <2> QED BY <1>1, <2>1, <2>2, FailureKeeps
<1>5. CASE client[p].url \notin feeds
  <2>1. client' = [client EXCEPT ![p] = c] /\ UNCHANGED <<hosts, feeds, subs, import, bounds, ghosts>>
    BY <1>5 DEF InsertFeed, Step, rows
  <2>2. /\ c \in Busy /\ c.pc = "subscribing" /\ c.url = client[p].url
        /\ c.filing = client[p].filing /\ c.ownFeed = TRUE /\ c.ownHost = client[p].ownHost
    BY <1>2, OwnsFeed
  <2> HIDE DEF c
  <2>3. client[p].url \in Feeds /\ subs[client[p].url] = NoRow
    BY <1>1, <1>2, <1>3, <1>5 DEF Sound, Tables
  <2>4. Sound(c) /\ Alone(c)
    BY <1>1, <1>2, <1>5, <2>2, <2>3 DEF Sound, Alone, Creating, Changing
  <2> QED BY <1>1, <2>1, <2>2, <2>4, GoesOn
<1> QED BY <1>4, <1>5

LEMMA SubscribeKeeps ==
  ASSUME IInv, NEW p \in Clients, Subscribe(p)
  PROVE  IInv'
<1> DEFINE f == client[p].url
           row == [id |-> deletes, active |-> TRUE, filing |-> client[p].filing]
<1>1. client[p].pc = "subscribing" /\ client[p].pc # "idle" /\ client[p].pc \notin Early
  BY DEF Subscribe, At, Early
<1>2. client[p] \in Busy /\ Sound(client[p]) /\ Alone(client[p])
  BY <1>1, NotIdle
<1>3. Tables
  BY TypingGivesTables DEF IInv
<1>4. CASE subs[f] # NoRow
  <2>1. client[p].url \in contested
    BY <1>1, <1>2, <1>4 DEF Alone
  <2>2. Fails(p)
    BY <1>4 DEF Subscribe
  <2> QED BY <1>1, <2>1, <2>2, FailureKeeps
<1>5. CASE subs[f] = NoRow
  <2>1. /\ hosts' = IF client[p].ownHost THEN hosts \cup {HostOf[f]} ELSE hosts
        /\ feeds' = IF client[p].ownFeed THEN feeds \cup {f} ELSE feeds
        /\ subs' = [subs EXCEPT ![f] = row]
        /\ sent' = [sent EXCEPT ![f] = @ \cup {client[p].filing}]
        /\ Answers(p) /\ UNCHANGED <<bounds, contested, failed>>
    BY <1>5 DEF Subscribe
  <2>2. /\ f \in Feeds /\ HostOf[f] \in Hosts /\ client[p].filing \in Filings
        /\ deletes \in Nat /\ sent \in [Feeds -> SUBSET Filings]
    BY <1>1, <1>2, <1>3, SubscriptionsAssumption DEF Sound, Tables
  <2>3. row \in Rows /\ row.filing = client[p].filing
    BY <2>2 DEF Rows
  <2>4. /\ hosts \subseteq hosts' /\ feeds \subseteq feeds' /\ feeds' \subseteq feeds \cup {f}
        /\ hosts' \subseteq Hosts
    BY <1>3, <2>1, <2>2 DEF Tables
  <2>5. f \in feeds' /\ HostOf[f] \in hosts'
    <3>1. CASE client[p].ownFeed = FALSE
      BY <1>1, <1>2, <1>3, <2>4, <3>1 DEF Sound, Tables
    <3>2. CASE client[p].ownFeed = TRUE
      BY <1>1, <1>2, <2>1, <2>4, <3>2 DEF Sound
    <3> QED BY <3>1, <3>2, <1>2 DEF Busy
  <2>6. \A g \in feeds' : HostOf[g] \in hosts'
    BY <1>3, <2>4, <2>5 DEF Tables
  <2>7. /\ sent' \in [Feeds -> SUBSET Filings] /\ \A g \in Feeds : sent[g] \subseteq sent'[g]
        /\ client[p].filing \in sent'[f]
    BY <2>1, <2>2
  <2> HIDE DEF row
  <2> QED BY <1>1, <2>1, <2>3, <2>4, <2>5, <2>6, <2>7, CommitKeeps
<1> QED BY <1>4, <1>5

\* A row that was read and is still there is written.
LEMMA RewriteKeeps ==
  ASSUME IInv, NEW p \in Clients, client[p].pc \in Changing,
         IF ~ Found(p) THEN Fails(p)
         ELSE /\ Answers(p) /\ UNCHANGED <<hosts, feeds, bounds, contested, failed, sent>>
              /\ \E row \in Rows :
                   /\ subs' = [subs EXCEPT ![client[p].url] = row]
                   /\ client[p].url \notin contested => row.filing \in sent[client[p].url]
  PROVE  IInv'
<1>1. client[p].pc # "idle" /\ client[p].pc \notin Early
  BY DEF Changing, Early
<1>2. client[p] \in Busy /\ Sound(client[p]) /\ Alone(client[p])
  BY <1>1, NotIdle
<1>3. Tables
  BY TypingGivesTables DEF IInv
<1>4. CASE ~ Found(p)
  <2>1. client[p].url \in contested
    BY <1>1, <1>2, <1>4 DEF Alone, Found
  <2> QED BY <1>1, <1>4, <2>1, FailureKeeps
<1>5. CASE Found(p)
  <2>1. client[p].url \in Feeds /\ client[p].url \in feeds
    BY <1>1, <1>2, <1>3, <1>5 DEF Sound, Found, Tables, Early
  <2> QED BY <1>1, <1>3, <1>5, <2>1, CommitKeeps DEF Tables
<1> QED BY <1>4, <1>5

LEMMA ReactivateKeeps ==
  ASSUME IInv, NEW p \in Clients, Reactivate(p)
  PROVE  IInv'
<1>1. client[p].pc = "reactivating" /\ client[p].pc \in Changing
  BY DEF Reactivate, At, Changing
<1>2. PICK f : f = client[p].url
  OBVIOUS
<1>3. f \in Feeds /\ Tables
  BY <1>1, <1>2, NotIdle, TypingGivesTables DEF Sound, IInv
<1>4. CASE ~ Found(p)
  <2>1. Fails(p)
    BY <1>4 DEF Reactivate
  <2> QED BY <1>1, <1>4, <2>1, RewriteKeeps
<1>5. CASE Found(p)
  <2>1. PICK row : row = [subs[f] EXCEPT !.active = TRUE]
    OBVIOUS
  <2>2. subs[f] \in Rows /\ subs[f] # NoRow
    BY <1>2, <1>3, <1>5 DEF Tables, Found
  <2>3. row \in Rows /\ row.filing = subs[f].filing
    BY <2>1, <2>2 DEF Rows
  <2>4. /\ subs' = [subs EXCEPT ![f] = row] /\ Answers(p)
        /\ UNCHANGED <<hosts, feeds, bounds, contested, failed, sent>>
    BY <1>2, <1>5, <2>1 DEF Reactivate
  <2>5. f \notin contested => row.filing \in sent[f]
    BY <1>3, <2>2, <2>3 DEF IInv, FiledWhole
  <2> QED BY <1>1, <1>2, <1>5, <2>3, <2>4, <2>5, RewriteKeeps
<1> QED BY <1>4, <1>5

LEMMA DropKeeps ==
  ASSUME IInv, NEW p \in Clients, Drop(p)
  PROVE  IInv'
<1>1. client[p].pc = "dropping" /\ client[p].pc \in Changing
  BY DEF Drop, At, Changing
<1>2. PICK f : f = client[p].url
  OBVIOUS
<1>3. f \in Feeds /\ Tables
  BY <1>1, <1>2, NotIdle, TypingGivesTables DEF Sound, IInv
<1>4. CASE ~ Found(p)
  <2>1. Fails(p)
    BY <1>4 DEF Drop
  <2> QED BY <1>1, <1>4, <2>1, RewriteKeeps
<1>5. CASE Found(p)
  <2>1. PICK row : row = [subs[f] EXCEPT !.active = FALSE]
    OBVIOUS
  <2>2. subs[f] \in Rows /\ subs[f] # NoRow
    BY <1>2, <1>3, <1>5 DEF Tables, Found
  <2>3. row \in Rows /\ row.filing = subs[f].filing
    BY <2>1, <2>2 DEF Rows
  <2>4. /\ subs' = [subs EXCEPT ![f] = row] /\ Answers(p)
        /\ UNCHANGED <<hosts, feeds, bounds, contested, failed, sent>>
    BY <1>2, <1>5, <2>1 DEF Drop
  <2>5. f \notin contested => row.filing \in sent[f]
    BY <1>3, <2>2, <2>3 DEF IInv, FiledWhole
  <2> QED BY <1>1, <1>2, <1>5, <2>3, <2>4, <2>5, RewriteKeeps
<1> QED BY <1>4, <1>5

LEMMA RefileKeeps ==
  ASSUME IInv, NEW p \in Clients, Refile(p)
  PROVE  IInv'
<1>1. /\ client[p].pc = "refiling" /\ client[p].pc \in Changing
      /\ client[p].pc # "idle" /\ client[p].pc \notin Early
  BY DEF Refile, At, Changing, Early
<1>2. PICK f : f = client[p].url
  OBVIOUS
<1>3. /\ f \in Feeds /\ Tables /\ client[p].filing \in Fields
      /\ Alone(client[p])
  BY <1>1, <1>2, NotIdle, TypingGivesTables DEF Sound, IInv, Busy
<1>4. CASE ~ Found(p)
  <2>1. Fails(p)
    BY <1>4 DEF Refile
  <2> QED BY <1>1, <1>4, <2>1, RewriteKeeps
<1>5. CASE Found(p)
  <2>1. PICK filing : filing = Merged(client[p].filing, subs[f].filing)
    OBVIOUS
  <2>2. PICK row : row = [subs[f] EXCEPT !.filing = filing]
    OBVIOUS
  <2>3. subs[f] \in Rows /\ subs[f] # NoRow
    BY <1>2, <1>3, <1>5 DEF Tables, Found
  <2>4. filing \in Filings
    <3>1. subs[f].filing \in Filings
      BY <2>3 DEF Rows
    <3> QED BY <1>3, <2>1, <3>1, Whole
  <2>5. row \in Rows /\ row.filing = filing
    BY <2>2, <2>3, <2>4 DEF Rows
  <2>6. /\ subs' = [subs EXCEPT ![f] = row] /\ Answers(p)
        /\ UNCHANGED <<hosts, feeds, bounds, contested, failed, sent>>
    BY <1>2, <1>5, <2>1, <2>2 DEF Refile, ghosts
  <2>7. f \notin contested => row.filing \in sent[f]
    BY <1>1, <1>2, <1>3, <2>1, <2>5 DEF Alone
  <2> QED BY <1>1, <1>2, <1>5, <2>5, <2>6, <2>7, RewriteKeeps
<1> QED BY <1>4, <1>5

-----------------------------------------------------------------------------
LEMMA FollowKeeps ==
  ASSUME IInv, NEW p \in Readers, NEW url \in Feeds \cup Pages, NEW section \in Sections,
         Follow(p, url, section)
  PROVE  IInv'
<1> USE DEF rows, import, ghosts
<1>1. PICK filing : filing = [section |-> section, tier |-> Wire]
  OBVIOUS
<1>2. filing \in Filings /\ filing \in Fields /\ url \in Addresses
  BY <1>1, SubscriptionsAssumption DEF Filings, Fields, Addresses
<1>3. PICK c : c = Doing("discovering", url, filing)
  OBVIOUS
<1>4. /\ c \in Busy /\ c.pc = "discovering" /\ c.url = url /\ c.filing = filing
      /\ c.ownFeed = FALSE
  BY <1>2, <1>3 DEF Doing, Busy
<1>5. /\ client' = [client EXCEPT ![p] = c] /\ requests' = requests + 1
      /\ UNCHANGED <<hosts, feeds, subs, outline, missed, imported, deletes, faults,
                     contested, failed, withdrawn, sent>>
  BY <1>1, <1>3 DEF Follow, Step
<1>6. Tables /\ outline \in 0 .. Len(Outlines) + 1
  BY TypingGivesTables DEF IInv, Typing, TypeOK
<1>7. p \in Clients /\ ImportMoves(p, c)
  BY <1>5, <1>6, SubscriptionsAssumption DEF ImportMoves, Clients
<1>8. Sound(c)' /\ Alone(c)' /\ \A q \in Clients \ {p} : Met(c, client[q])'
  BY <1>2, <1>4 DEF Sound, Alone, Met, Early
<1>9. requests' \in Nat
  BY <1>5, <1>6 DEF Tables
<1> QED BY <1>4, <1>5, <1>6, <1>7, <1>8, <1>9, Quietly DEF Tables

LEMMA DiscoverKeeps ==
  ASSUME IInv, NEW p \in Clients, Discover(p)
  PROVE  IInv'
<1> USE DEF rows, import, ghosts
<1>1. client[p].pc = "discovering"
  BY DEF Discover, At
<1>2. PICK url : url = client[p].url
  OBVIOUS
<1>3. PICK filing : filing = client[p].filing
  OBVIOUS
<1>4. PICK found : found = IF url \in Pages THEN Names[url] ELSE url
  OBVIOUS
<1>5. /\ url \in Feeds \cup Pages /\ filing \in Filings
      /\ p = Importer => outline \in DOMAIN Outlines
  BY <1>1, <1>2, <1>3, NotIdle DEF Sound
<1>6. Tables /\ outline \in 0 .. Len(Outlines) + 1
  BY TypingGivesTables DEF IInv, Typing, TypeOK
<1>7. UNCHANGED <<hosts, feeds, subs, requests, deletes, contested, failed, withdrawn, sent>>
  BY DEF Discover
<1>8. Sound(Idle)' /\ Alone(Idle)' /\ \A q \in Clients \ {p} : Met(Idle, client[q])'
  BY IdleMoves
<1>9. CASE found # NoFeed /\ Step(p, Doing("adding", found, filing)) /\ UNCHANGED <<import, faults>>
  <2>1. PICK c : c = Doing("adding", found, filing)
    OBVIOUS
  <2>2. found \in Feeds /\ found \in Addresses /\ filing \in Fields
    BY <1>4, <1>5, <1>9, SubscriptionsAssumption, FilingsAreFields DEF Addresses
  <2>3. /\ c \in Busy /\ c.pc = "adding" /\ c.url = found /\ c.filing = filing
        /\ c.ownFeed = FALSE
    BY <2>1, <2>2 DEF Doing, Busy
  <2>4. client' = [client EXCEPT ![p] = c] /\ UNCHANGED <<outline, missed, imported, faults>>
    BY <1>9, <2>1 DEF Step
  <2>5. ImportMoves(p, c)
    BY <1>5, <1>6, <2>4 DEF ImportMoves
  <2>6. Sound(c)' /\ Alone(c)' /\ \A q \in Clients \ {p} : Met(c, client[q])'
    BY <1>5, <2>2, <2>3 DEF Sound, Alone, Met, Early
  <2> QED BY <1>6, <1>7, <2>3, <2>4, <2>5, <2>6, Quietly DEF Tables
<1>10. CASE Answers(p) /\ UNCHANGED faults
  <2>1. /\ client' = [client EXCEPT ![p] = Idle] /\ ImportMoves(p, Idle)
        /\ missed' \in BOOLEAN /\ imported' \in BOOLEAN
    BY <1>5, <1>10, AnsweredMoves
  <2> QED BY <1>6, <1>7, <1>8, <1>10, <2>1, Quietly DEF Tables
<1>11. CASE /\ faults' = faults + 1 /\ Step(p, Idle)
            /\ outline' = IF p = Importer THEN outline + 1 ELSE outline
            /\ missed' = (missed \/ p = Importer) /\ UNCHANGED imported
  <2>1. ImportMoves(p, Idle)
    BY <1>5, <1>6, <1>11, OutlineTypes, IdleMoves DEF ImportMoves
  <2>2. missed' \in BOOLEAN /\ imported' \in BOOLEAN /\ faults' \in Nat
    BY <1>6, <1>11 DEF Tables
  <2> QED BY <1>6, <1>7, <1>8, <1>11, <2>1, <2>2, Quietly DEF Tables, Step
<1> QED BY <1>2, <1>3, <1>4, <1>9, <1>10, <1>11 DEF Discover

LEMMA AskDropKeeps ==
  ASSUME IInv, NEW p \in Readers, NEW f \in Feeds, AskDrop(p, f)
  PROVE  IInv'
<1> USE DEF rows, import, ghosts
<1>1. PICK row : row = subs[f].id
  OBVIOUS
<1>2. PICK filing : filing = subs[f].filing
  OBVIOUS
<1>3. Tables /\ outline \in 0 .. Len(Outlines) + 1
  BY TypingGivesTables DEF IInv, Typing, TypeOK
<1>4. subs[f] # NoRow /\ row \in Nat /\ filing \in Filings
  BY <1>1, <1>2, <1>3 DEF Tables, Rows, AskDrop, Active
<1>5. PICK new : new = Doing("dropping", f, filing)
  OBVIOUS
<1>6. PICK c : c = [new EXCEPT !.row = row]
  OBVIOUS
<1>7. /\ new \in Busy /\ new.pc = "dropping" /\ new.url = f /\ new.filing = filing
      /\ new.ownFeed = FALSE
  BY <1>4, <1>5, FilingsAreFields DEF Doing, Busy, Changing, Addresses
<1>8. /\ c \in Busy /\ c.pc = "dropping" /\ c.url = f /\ c.filing = filing
      /\ c.row = row /\ c.ownFeed = FALSE
  BY <1>4, <1>6, <1>7 DEF Busy
<1>9. /\ client' = [client EXCEPT ![p] = c] /\ Contests(p, f) /\ requests' = requests + 1
      /\ UNCHANGED <<hosts, feeds, subs, outline, missed, imported, deletes, faults, failed, sent>>
  BY <1>1, <1>2, <1>5, <1>6 DEF AskDrop, Step
<1>10. p \in Clients /\ ImportMoves(p, c)
  BY <1>3, <1>9, SubscriptionsAssumption DEF ImportMoves, Clients
<1>11. contested \subseteq contested' /\ \A q \in Clients \ {p} : Met(c, client[q])'
  BY <1>8, <1>9, <1>10, ContestsMeets
<1>12. Sound(c)' /\ Alone(c)'
  BY <1>1, <1>4, <1>8, <1>9 DEF Sound, Alone, Creating, Changing
<1>13. requests' \in Nat
  BY <1>3, <1>9 DEF Tables
<1> QED BY <1>3, <1>8, <1>9, <1>10, <1>11, <1>12, <1>13, Quietly DEF Tables

LEMMA AskRefileKeeps ==
  ASSUME IInv, NEW p \in Readers, NEW f \in Feeds, NEW filing \in Filings, AskRefile(p, f, filing)
  PROVE  IInv'
<1> USE DEF rows, import, ghosts
<1>1. PICK row : row = subs[f].id
  OBVIOUS
<1>2. PICK old : old = subs[f].filing
  OBVIOUS
<1>3. PICK changed : changed = Changed(filing, old)
  OBVIOUS
<1>4. Tables /\ outline \in 0 .. Len(Outlines) + 1
  BY TypingGivesTables DEF IInv, Typing, TypeOK
<1>5. subs[f] # NoRow /\ row \in Nat /\ old \in Filings
  BY <1>1, <1>2, <1>4 DEF Tables, Rows, AskRefile, Active
<1>6. changed \in Fields /\ Merged(changed, old) = filing
  BY <1>3, <1>5, Whole
<1>7. PICK new : new = Doing("refiling", f, changed)
  OBVIOUS
<1>8. PICK c : c = [new EXCEPT !.row = row]
  OBVIOUS
<1>9. /\ new \in Busy /\ new.pc = "refiling" /\ new.url = f /\ new.filing = changed
      /\ new.ownFeed = FALSE
  BY <1>6, <1>7 DEF Doing, Busy, Changing, Addresses
<1>10. /\ c \in Busy /\ c.pc = "refiling" /\ c.url = f /\ c.filing = changed
       /\ c.row = row /\ c.ownFeed = FALSE
  BY <1>5, <1>8, <1>9 DEF Busy
<1>11. /\ client' = [client EXCEPT ![p] = c] /\ Contests(p, f) /\ requests' = requests + 1
       /\ sent' = [sent EXCEPT ![f] = @ \cup {filing}]
       /\ UNCHANGED <<hosts, feeds, subs, outline, missed, imported, deletes, faults, failed>>
  BY <1>1, <1>2, <1>3, <1>7, <1>8 DEF AskRefile, Step
<1>12. /\ sent' \in [Feeds -> SUBSET Filings] /\ \A g \in Feeds : sent[g] \subseteq sent'[g]
       /\ filing \in sent'[f]
  BY <1>4, <1>11 DEF Tables
<1>13. p \in Clients /\ ImportMoves(p, c)
  BY <1>4, <1>11, SubscriptionsAssumption DEF ImportMoves, Clients
<1>14. contested \subseteq contested' /\ \A q \in Clients \ {p} : Met(c, client[q])'
  BY <1>10, <1>11, <1>13, ContestsMeets
<1>15. Sound(c)'
  BY <1>10 DEF Sound
<1>16. Alone(c)'
  <2>1. subs'[f] = subs[f] /\ Merged(c.filing, subs'[f].filing) = filing
    BY <1>2, <1>6, <1>10, <1>11
  <2> QED BY <1>1, <1>5, <1>10, <1>12, <2>1 DEF Alone, Creating, Changing
<1>17. requests' \in Nat
  BY <1>4, <1>11 DEF Tables
<1> QED BY <1>4, <1>10, <1>11, <1>12, <1>13, <1>14, <1>15, <1>16, <1>17, Quietly DEF Tables
-----------------------------------------------------------------------------
\* Between two outlines the import only counts.
LEMMA Counts ==
  ASSUME IInv, UNCHANGED <<rows, client, bounds, ghosts>>,
         client[Importer].pc = "idle", outline' \in 0 .. Len(Outlines) + 1,
         missed' \in BOOLEAN, imported' \in BOOLEAN
  PROVE  IInv'
<1> USE DEF rows, bounds, ghosts
<1>1. Typing'
  BY DEF IInv, Typing, TypeOK, At
<1>2. Clientele'
  BY DEF IInv, Clientele, Sound, Alone, Met
<1> QED BY <1>1, <1>2 DEF IInv, FailsOnlyOnItsOwnFeed, FiledWhole

LEMMA StartImportKeeps ==
  ASSUME IInv, StartImport
  PROVE  IInv'
<1>1. /\ outline = 0 /\ outline' = 1 /\ missed' = FALSE
      /\ UNCHANGED <<rows, client, imported, bounds, ghosts>>
  BY DEF StartImport
<1>2. imported \in BOOLEAN
  BY DEF IInv, Typing, TypeOK
<1>3. client[Importer].pc = "idle"
  BY <1>1, OutlineTypes DEF IInv, Typing, At
<1>4. outline' \in 0 .. Len(Outlines) + 1
  BY <1>1, OutlineTypes
<1>5. missed' \in BOOLEAN /\ imported' \in BOOLEAN
  <2>1. missed' = FALSE /\ imported' = imported
    BY <1>1
  <2> QED BY <1>2, <2>1
<1> QED BY <1>1, <1>3, <1>4, <1>5, Counts

LEMMA EndImportKeeps ==
  ASSUME IInv, EndImport
  PROVE  IInv'
<1>1. /\ client[Importer].pc = "idle" /\ outline' = 0 /\ imported' = ~ missed
      /\ UNCHANGED <<rows, client, missed, bounds, ghosts>>
  BY DEF EndImport, At
<1>2. missed \in BOOLEAN
  BY DEF IInv, Typing, TypeOK
<1> QED BY <1>1, <1>2, OutlineTypes, Counts

LEMMA ImportKeeps ==
  ASSUME IInv, Import
  PROVE  IInv'
<1> USE DEF rows, bounds, ghosts
<1>1. PICK url : url = Outlines[outline].url
  OBVIOUS
<1>2. /\ Importer \in Clients /\ outline \in DOMAIN Outlines
      /\ UNCHANGED <<hosts, feeds, subs, requests, deletes, faults,
                     contested, failed, withdrawn, sent>>
  BY DEF Import, Clients
<1>3. Tables
  BY TypingGivesTables DEF IInv
<1>4. Outlines[outline] \in [url : Addresses, section : Sections]
  <2> DEFINE Kind == [url : Addresses, section : Sections]
  <2>1. Outlines \in Seq(Kind) /\ outline \in 1 .. Len(Outlines)
    BY <1>2, OutlineTypes, SubscriptionsAssumption
  <2> HIDE DEF Kind
  <2>2. Outlines[outline] \in Kind
    BY <2>1
  <2> QED BY <2>2 DEF Kind
<1>5. CASE url = Mail
  <2>1. Answers(Importer)
    BY <1>1, <1>5 DEF Import
  <2>2. /\ client' = [client EXCEPT ![Importer] = Idle] /\ ImportMoves(Importer, Idle)
        /\ missed' \in BOOLEAN /\ imported' \in BOOLEAN
    BY <1>2, <2>1, AnsweredMoves
  <2>3. /\ Sound(Idle)' /\ Alone(Idle)'
        /\ \A q \in Clients \ {Importer} : Met(Idle, client[q])'
    BY IdleMoves
  <2> QED BY <1>2, <1>3, <2>2, <2>3, Quietly DEF Tables
<1>6. CASE url # Mail
  <2>1. PICK filing : filing = [section |-> Outlines[outline].section, tier |-> Wire]
    OBVIOUS
  <2>2. PICK pc : pc = IF url \in Pages THEN "discovering" ELSE "adding"
    OBVIOUS
  <2>3. PICK c : c = Doing(pc, url, filing)
    OBVIOUS
  <2>4. filing \in Filings /\ filing \in Fields
    BY <1>4, <2>1, SubscriptionsAssumption DEF Filings, Fields
  <2>5. url \in Addresses /\ (pc = "adding" => url \in Feeds) /\ (pc = "discovering" => url \in Pages)
    BY <1>1, <1>4, <1>6, <2>2 DEF Addresses
  <2>6. pc \in {"discovering", "adding"}
    BY <2>2
  <2>7. /\ c \in Busy /\ c.pc = pc /\ c.url = url /\ c.filing = filing /\ c.ownFeed = FALSE
    BY <2>3, <2>4, <2>5, <2>6 DEF Doing, Busy
  <2>8. client' = [client EXCEPT ![Importer] = c] /\ UNCHANGED <<outline, missed, imported>>
    BY <1>1, <1>6, <2>1, <2>2, <2>3 DEF Import, Step, import
  <2>9. ImportMoves(Importer, c)
    BY <1>2, <2>8, OutlineTypes DEF ImportMoves
  <2>10. /\ Sound(c)' /\ Alone(c)'
         /\ \A q \in Clients \ {Importer} : Met(c, client[q])'
    BY <2>4, <2>5, <2>6, <2>7 DEF Sound, Alone, Met, Early
  <2> QED BY <1>2, <1>3, <2>7, <2>8, <2>9, <2>10, Quietly DEF Tables
<1> QED BY <1>5, <1>6

LEMMA KillKeeps ==
  ASSUME IInv, NEW p \in Clients, Kill(p)
  PROVE  IInv'
<1>1. Tables /\ outline \in 0 .. Len(Outlines) + 1
  BY TypingGivesTables DEF IInv, Typing, TypeOK
<1>2. /\ client' = [client EXCEPT ![p] = Idle] /\ faults' = faults + 1
      /\ outline' = IF p = Importer THEN 0 ELSE outline
      /\ UNCHANGED <<hosts, feeds, subs, missed, imported, requests, deletes,
                     contested, failed, withdrawn, sent>>
  BY DEF Kill, Step, rows, ghosts
<1>3. ImportMoves(p, Idle)
  BY <1>1, <1>2, OutlineTypes, IdleMoves DEF ImportMoves
<1>4. Sound(Idle)' /\ Alone(Idle)' /\ \A q \in Clients \ {p} : Met(Idle, client[q])'
  BY IdleMoves
<1>5. faults' \in Nat
  BY <1>1, <1>2 DEF Tables
<1> QED BY <1>1, <1>2, <1>3, <1>4, <1>5, Quietly DEF Tables

\* A feed whose subscription is deleted is contested from then on.
LEMMA DeleteKeeps ==
  ASSUME IInv, NEW f \in Feeds, Delete(f)
  PROVE  IInv'
<1>1. /\ subs' = [subs EXCEPT ![f] = NoRow] /\ deletes' = deletes + 1
      /\ contested' = contested \cup {f}
      /\ UNCHANGED <<hosts, feeds, client, outline, missed, imported, requests, faults,
                     failed, sent>>
  BY DEF Delete, import
<1>2. subs \in [Feeds -> Rows \cup {NoRow}] /\ deletes \in Nat
  BY DEF IInv, Typing, TypeOK
<1>3. \A g \in Feeds : subs'[g] = IF g = f THEN NoRow ELSE subs[g]
  BY <1>1, <1>2
<1>4. Typing'
  BY <1>1, <1>2, <1>3 DEF IInv, Typing, TypeOK, At
<1>5. ASSUME NEW p \in Clients PROVE Sound(client[p])' /\ Alone(client[p])'
  <2>1. PICK c : c = client[p]
    OBVIOUS
  <2>2. c = client'[p] /\ Sound(c) /\ Alone(c)
    BY <1>1, <2>1 DEF IInv, Clientele
  <2>3. Sound(c)'
    BY <1>1, <2>2 DEF Sound
  <2>4. Alone(c)'
    <3> SUFFICES ASSUME c.pc \notin Early, c.url \notin contested' PROVE Alone(c)'
      BY DEF Alone
    <3>1. c.url \in Feeds /\ c.url # f /\ c.url \notin contested
      BY <1>1, <2>2 DEF Sound, Early
    <3>2. subs'[c.url] = subs[c.url]
      BY <1>3, <3>1
    <3> QED BY <1>1, <2>2, <3>1, <3>2 DEF Alone
  <2> QED BY <2>2, <2>3, <2>4 DEF Sound, Alone
<1>6. \A p, q \in Clients : p # q => Met(client[p], client[q])'
  BY <1>1 DEF IInv, Clientele, Met
<1>7. FailsOnlyOnItsOwnFeed' /\ FiledWhole'
  BY <1>1, <1>3 DEF IInv, FailsOnlyOnItsOwnFeed, FiledWhole
<1> QED BY <1>4, <1>5, <1>6, <1>7 DEF IInv, Clientele

-----------------------------------------------------------------------------
LEMMA Initially == Init => IInv
<1> SUFFICES ASSUME Init PROVE IInv
  OBVIOUS
<1>1. \A p \in Clients : client[p] = Idle /\ client[p].pc = "idle"
  BY DEF Init, Idle
<1>2. Importer \in Clients
  BY DEF Clients
<1>3. Typing
  <2>1. subs \in [Feeds -> Rows \cup {NoRow}] /\ \A f \in Feeds : subs[f] = NoRow
    BY DEF Init
  <2>2. client \in [Clients -> {Idle} \cup Busy] /\ sent \in [Feeds -> SUBSET Filings]
    BY DEF Init
  <2>3. outline \in 0 .. Len(Outlines) + 1 /\ {requests, deletes, faults} \subseteq Nat
    BY OutlineTypes DEF Init
  <2> QED BY <1>1, <1>2, <2>1, <2>2, <2>3 DEF Init, Typing, TypeOK, At
<1>4. Clientele
  BY <1>1 DEF Clientele, Sound, Alone, Met, Early
<1> QED BY <1>3, <1>4 DEF Init, IInv, FailsOnlyOnItsOwnFeed, FiledWhole

\* Every step keeps the invariant.
LEMMA Inductive == IInv /\ [Next]_vars => IInv'
<1> SUFFICES ASSUME IInv, [Next]_vars PROVE IInv'
  OBVIOUS
<1>1. ASSUME NEW p \in Clients, Transaction(p) PROVE IInv'
  BY <1>1, LookKeeps, LookForHostKeeps, CreateHostKeeps, InsertFeedKeeps, SubscribeKeeps,
     ReactivateKeeps, DropKeeps, RefileKeeps DEF Transaction
<1>2. ASSUME NEW p \in Clients, Discover(p) \/ Kill(p) PROVE IInv'
  BY <1>2, DiscoverKeeps, KillKeeps
<1>3. ASSUME NEW p \in Readers, NEW url \in Feeds \cup Pages, NEW section \in Sections,
             Follow(p, url, section)
      PROVE  IInv'
  BY <1>3, FollowKeeps
<1>4. ASSUME NEW p \in Readers, NEW f \in Feeds,
             AskDrop(p, f) \/ \E filing \in Filings : AskRefile(p, f, filing)
      PROVE  IInv'
  BY <1>4, AskDropKeeps, AskRefileKeeps
<1>5. CASE StartImport \/ Import \/ EndImport
  BY <1>5, StartImportKeeps, ImportKeeps, EndImportKeeps
<1>6. ASSUME NEW f \in Feeds, Delete(f) PROVE IInv'
  BY <1>6, DeleteKeeps
<1>7. CASE UNCHANGED vars
  BY <1>7 DEF vars, rows, import, bounds, ghosts, IInv, Typing, TypeOK, At, Clientele, Sound,
     Alone, Met, FailsOnlyOnItsOwnFeed, FiledWhole
<1> QED BY <1>1, <1>2, <1>3, <1>4, <1>5, <1>6, <1>7 DEF Next

LEMMA Always == Spec => []IInv
  BY Initially, Inductive, PTL DEF Spec

\* What clients know and what the tables hold is of its kind, and every feed with a
\* subscription is there with its host: service.py add, store.py ensure.
THEOREM TypeCorrect == Spec => []TypeOK
<1>1. IInv => TypeOK
  BY DEF IInv, Typing
<1> QED BY <1>1, Always, PTL

\* Two transactions that make the same host, or feeds of the same host, do not fail each
\* other: one fails only on a feed that was another's business too (add, drop, refile).
THEOREM FailsOnItsOwn == Spec => []FailsOnlyOnItsOwnFeed
<1>1. IInv => FailsOnlyOnItsOwnFeed
  BY DEF IInv
<1> QED BY <1>1, Always, PTL

\* A feed that no two clients were about at once is filed as somebody asked, all of it: what
\* refile leaves out is what the row had when it was read, and a dropped feed keeps its filing.
THEOREM FilingStaysWhole == Spec => []FiledWhole
<1>1. IInv => FiledWhole
  BY DEF IInv
<1> QED BY <1>1, Always, PTL
=============================================================================
