---------------------------- MODULE ImagesProofs ----------------------------
(***************************************************************************)
(* For any slots, URLs, encoders and bounds: nothing held is asked for     *)
(* again, and no encoder but one rolled back to reads what it made.        *)
(***************************************************************************)
EXTENDS Images, TLAPS

\* One request is out at a time, for what is not held.
OneAsked ==
  /\ \A s, t \in asking : s = t
  /\ \A s \in asking : Held(UrlOf[s]) = {}

\* No encoder had its own output, and each that left some has reigned.
WellMade(form) ==
  /\ \A n \in 1 .. Len(form) : reigns[form[n]] >= 1
  /\ \A n \in 1 .. Len(form) - 1 : form[n] = form[n + 1] => reigns[form[n]] > 1

\* The running encoder did not make these bytes, or was rolled back to.
Foreign(form) == form = <<>> \/ form[Len(form)] # encoder \/ reigns[encoder] > 1

\* The stamp says so of every row it lets be read, and a job has been let.
Made ==
  /\ reigns[encoder] >= 1
  /\ \A c \in captures : WellMade(c.form) /\ (c.stamp # encoder => Foreign(c.form))
  /\ \A p \in Places : encoding[p] # Idle =>
       WellMade(encoding[p].form) /\ Foreign(encoding[p].form)

IInv == TypeOK /\ OneAsked /\ Made

-----------------------------------------------------------------------------
\* A row's key is its URL and its bytes.
LEMMA SameKey ==
  ASSUME NEW c, NEW d, Key(c) = Key(d)
  PROVE  c.url = d.url /\ c.bytes = d.bytes
<1>1. Key(c).url = c.url /\ Key(d).url = d.url /\ Key(c).bytes = c.bytes /\ Key(d).bytes = d.bytes
  BY DEF Key
<1> QED BY <1>1

\* Bytes with one more generation on them.
LEMMA OneMore ==
  ASSUME NEW S, NEW f \in Seq(S), NEW e \in S
  PROVE  /\ Append(f, e) \in Seq(S)
         /\ Len(f) \in Nat /\ Len(Append(f, e)) = Len(f) + 1
         /\ Append(f, e)[Len(f) + 1] = e
         /\ \A n \in 1 .. Len(f) : Append(f, e)[n] = f[n] /\ f[n] \in S
         /\ f # <<>> => Len(f) > 0
  OBVIOUS

\* A row stamped, and given other bytes, is otherwise the row it was.
LEMMA Restamped ==
  ASSUME NEW c \in Rows, NEW job \in Jobs, NEW d \in Encoded(c, job), encoder \in Encoders,
         NEW e, e = [d EXCEPT !.stamp = encoder]
  PROVE  /\ e \in Rows /\ Key(e) = Key(c) /\ e.url = c.url /\ (Usable(e) <=> Usable(c))
         /\ e.stamp = encoder /\ (e.form = c.form \/ e.form = Append(job.form, encoder))
<1>1. /\ d \in Rows /\ d.url = c.url /\ d.bytes = c.bytes /\ d.ok = c.ok
      /\ d.form = c.form \/ d.form = Append(job.form, encoder)
  <2>1. CASE d = c
    BY <2>1
  <2>2. CASE d # c
    <3>1. PICK n \in 1 .. job.size - 1 :
            d = [c EXCEPT !.form = Append(job.form, encoder), !.size = n]
      BY <2>2 DEF Encoded
    <3>2. n \in Nat /\ Append(job.form, encoder) \in Seq(Encoders)
      BY OneMore DEF Jobs
    <3> QED BY <3>1, <3>2 DEF Rows
  <2> QED BY <2>1, <2>2
<1> QED BY <1>1 DEF Rows, Key, Usable

\* Everything starts empty.
LEMMA Starts == Init => IInv
<1> SUFFICES ASSUME Init PROVE IInv
  OBVIOUS
<1>1. encoder \in Encoders
  BY ImagesAssumption DEF Init
<1>2. reigns \in [Encoders -> Nat] /\ reigns[encoder] = 1
  BY <1>1 DEF Init
<1>3. TypeOK
  BY <1>1, <1>2, ImagesAssumption DEF Init, TypeOK
<1> QED BY <1>1, <1>2, <1>3 DEF IInv, OneAsked, Made, Init

\* A step that leaves the rows, the requests and the encoders alone keeps what is said of them.
LEMMA Untouched ==
  ASSUME IInv, UNCHANGED <<captures, asking, encoder, reigns, encoding>>, TypeOK'
  PROVE  IInv'
BY DEF IInv, OneAsked, Made, WellMade, Foreign, Held, Usable

\* The publisher, readings, the reader and the sweeps only change what is wanted.
LEMMA WantsKeep ==
  ASSUME IInv,
         (\E u \in Urls : Change(u)) \/ (\E s \in Slots : Find(s))
           \/ Keep \/ SweepLeads \/ SweepBodies \/ SweepEncodes
  PROVE  IInv'
<1> USE DEF world, fetching, running, encodes
<1>1. TypeOK
  BY DEF IInv
<1>2. UNCHANGED <<captures, filled, asking, stuck, encoder, reigns, encoding, restarts>>
  BY DEF Change, Find, Keep, SweepLeads, SweepBodies, Sweep, SweepEncodes
<1>3. TypeOK'
  <2>1. CASE \E u \in Urls : Change(u)
    <3>1. PICK u \in Urls : Change(u)
      BY <2>1
    <3>2. PICK answer \in Offers[u] : served' = [served EXCEPT ![u] = answer]
      BY <3>1 DEF Change
    <3>3. answer \in Answers
      BY <3>2, ImagesAssumption
    <3>4. served' \in [Urls -> Answers]
      BY <1>1, <3>2, <3>3 DEF TypeOK
    <3>5. changes' \in Nat /\ UNCHANGED <<slots, kept, todo, toEncode>>
      BY <1>1, <3>1 DEF TypeOK, Change
    <3> QED BY <1>1, <1>2, <3>4, <3>5 DEF TypeOK, Usable
  <2>2. CASE (\E s \in Slots : Find(s)) \/ Keep
    BY <1>1, <2>2 DEF TypeOK, Find, Keep
  <2>3. CASE SweepLeads \/ SweepBodies
    <3>1. DueLeads \subseteq Slots /\ DueBodies \subseteq Slots
      BY DEF DueLeads, DueBodies, Slots
    <3> QED BY <1>1, <2>3, <3>1 DEF TypeOK, SweepLeads, SweepBodies, Sweep
  <2>4. CASE SweepEncodes
    <3>1. \A c \in captures : Key(c) \in Keys
      BY <1>1 DEF TypeOK, Rows, Keys, Key
    <3>2. PICK due \in DueEncodes : toEncode' = toEncode \cup {Key(c) : c \in due}
      BY <2>4 DEF SweepEncodes
    <3>3. {Key(c) : c \in due} \subseteq Keys
      BY <3>1 DEF DueEncodes, Unencoded
    <3>4. toEncode' \subseteq Keys
      BY <1>1, <3>2, <3>3 DEF TypeOK
    <3>5. UNCHANGED <<served, slots, kept, todo, changes>>
      BY <2>4 DEF SweepEncodes
    <3> QED BY <1>1, <1>2, <3>4, <3>5 DEF TypeOK, Usable
  <2> QED BY <2>1, <2>2, <2>3, <2>4
<1> QED BY <1>2, <1>3, Untouched

\* A picture held is pointed at, and one that is not held is asked for, alone.
LEMMA LookKeeps ==
  ASSUME IInv, NEW s \in Slots, Look(s)
  PROVE  IInv'
<1> USE DEF world, running, encodes
<1>1. TypeOK /\ OneAsked /\ Made /\ asking = {}
  BY DEF IInv, Look, LockFree
<1>2. UNCHANGED <<served, slots, kept, changes, captures, stuck, encoder, reigns,
                  toEncode, encoding, restarts>>
  BY DEF Look
<1>3. asking' \subseteq {s} /\ (asking' # {} => Held(UrlOf[s]) = {})
  BY <1>1 DEF Look
<1>4. OneAsked'
  BY <1>2, <1>3 DEF OneAsked, Held, Usable
<1>5. Made'
  BY <1>1, <1>2 DEF Made, WellMade, Foreign
<1>6. TypeOK'
  <2>1. \/ filled' = filled
        \/ \E c \in Held(UrlOf[s]) : filled' = [filled EXCEPT ![s] = Key(c)]
    BY DEF Look
  <2>2. \A c \in Held(UrlOf[s]) :
          c \in captures /\ c.url = UrlOf[s] /\ Usable(c) /\ Key(c) \in Keys
    BY <1>1 DEF Held, TypeOK, Rows, Keys, Key
  <2>3. filled' \in [Slots -> Keys \cup {NoCapture}]
    BY <1>1, <2>1, <2>2 DEF TypeOK
  <2>4. \A t \in Slots : filled'[t] # NoCapture =>
          \E c \in captures : Key(c) = filled'[t] /\ c.url = UrlOf[t] /\ Usable(c)
    BY <1>1, <2>1, <2>2 DEF TypeOK
  <2>5. todo' \subseteq Slots
    BY <1>1 DEF TypeOK, Look
  <2> QED BY <1>1, <1>2, <1>3, <2>3, <2>4, <2>5 DEF TypeOK, Usable
<1> QED BY <1>4, <1>5, <1>6 DEF IInv

\* The one answer that is out is stored as served, and pointed at where it is a picture.
LEMMA AnswerKeeps ==
  ASSUME IInv, NEW s \in Slots, Answer(s)
  PROVE  IInv'
<1> USE DEF world, running, encodes
<1> DEFINE answer == served[UrlOf[s]]
           bytes  == IF answer.bytes = Barred THEN Poor ELSE answer.bytes
           row    == [url |-> UrlOf[s], bytes |-> bytes, ok |-> answer.ok,
                      form |-> <<>>, size |-> Size[bytes], stamp |-> Unread]
<1>1. TypeOK /\ OneAsked /\ Made
  BY DEF IInv
<1>2. UNCHANGED <<served, slots, kept, changes, todo, stuck, encoder, reigns,
                  toEncode, encoding, restarts>>
  BY DEF Answer
<1>3. captures' = IF \E c \in captures : Key(c) = Key(row) THEN captures
                                                           ELSE captures \cup {row}
  BY DEF Answer
<1>4. PICK stored \in captures' :
        Key(stored) = Key(row)
          /\ filled' = IF Usable(stored) THEN [filled EXCEPT ![s] = Key(stored)] ELSE filled
  BY DEF Answer, Pointed
<1>5. asking' = {}
  BY <1>1 DEF Answer, OneAsked
<1>6. row \in Rows /\ Key(row) \in Keys
  <2>1. UrlOf[s] \in Urls /\ answer \in Answers
    BY <1>1, ImagesAssumption DEF TypeOK
  <2>2. bytes \in Pictures \cup {Poor} /\ answer.ok \in BOOLEAN
    BY <2>1 DEF Answers
  <2>3. Size[bytes] \in Nat
    BY <2>2, ImagesAssumption
  <2> HIDE DEF bytes, answer
  <2> QED BY <2>1, <2>2, <2>3 DEF Rows, Keys, Key
<1>7. row.form = <<>> /\ row.stamp = Unread /\ row.url = UrlOf[s]
  OBVIOUS
<1> HIDE DEF answer, bytes, row
<1>9. TypeOK'
  <2>1. captures' \subseteq Rows
    BY <1>1, <1>3, <1>6 DEF TypeOK
  <2>2. \A c, d \in captures' : Key(c) = Key(d) => c = d
    BY <1>1, <1>3 DEF TypeOK
  <2>3. filled' \in [Slots -> Keys \cup {NoCapture}]
    BY <1>1, <1>4, <1>6 DEF TypeOK
  <2>4. stored.url = UrlOf[s]
    BY <1>4, <1>7, SameKey
  <2>6. \A t \in Slots : filled'[t] # NoCapture =>
          \E c \in captures' : Key(c) = filled'[t] /\ c.url = UrlOf[t] /\ Usable(c)
    <3> SUFFICES ASSUME NEW t \in Slots, filled'[t] # NoCapture
                 PROVE  \E c \in captures' : Key(c) = filled'[t] /\ c.url = UrlOf[t] /\ Usable(c)
      OBVIOUS
    <3>1. CASE t = s /\ Usable(stored)
      <4>1. filled'[t] = Key(stored)
        BY <1>1, <1>4, <3>1 DEF TypeOK
      <4> QED BY <4>1, <3>1, <2>4
    <3>2. CASE ~ (t = s /\ Usable(stored))
      <4>1. filled'[t] = filled[t]
        BY <1>1, <1>4, <3>2 DEF TypeOK
      <4>2. \E c \in captures : Key(c) = filled[t] /\ c.url = UrlOf[t] /\ Usable(c)
        BY <1>1, <4>1 DEF TypeOK
      <4>3. PICK c \in captures : Key(c) = filled[t] /\ c.url = UrlOf[t] /\ Usable(c)
        BY <4>2
      <4> QED BY <1>3, <4>1, <4>3
    <3> QED BY <3>1, <3>2
  <2> QED BY <1>1, <1>2, <1>5, <2>1, <2>2, <2>3, <2>6 DEF TypeOK, Usable
<1>10. OneAsked'
  BY <1>5 DEF OneAsked
<1>11. Made'
  <2>1. WellMade(row.form)
    BY <1>7 DEF WellMade
  <2> QED BY <1>1, <1>2, <1>3, <1>7, <2>1 DEF Made, WellMade, Foreign
<1> QED BY <1>9, <1>10, <1>11 DEF IInv

\* What is read is what the running encoder has not stamped.
LEMMA ReadKeeps ==
  ASSUME IInv, NEW p \in Places, NEW c \in captures, Read(p, c)
  PROVE  IInv'
<1> USE DEF world, fetching, running
<1> DEFINE held == IF UnreadYet(c) THEN [key |-> Key(c), form |-> c.form, size |-> c.size] ELSE Idle
<1>1. TypeOK /\ OneAsked /\ Made
  BY DEF IInv
<1>2. UNCHANGED <<served, slots, kept, changes, captures, filled, todo, asking, stuck,
                  encoder, reigns, restarts>>
  BY DEF Read
<1>3. encoding' = [encoding EXCEPT ![p] = held]
  BY DEF Read
<1>4. c.form \in Seq(Encoders) /\ c.size \in Nat /\ Key(c) \in Keys
  BY <1>1 DEF TypeOK, Rows, Keys, Key
<1>5. held \in {Idle} \cup Jobs
  BY <1>4 DEF Jobs
<1>6. held # Idle => WellMade(held.form) /\ Foreign(held.form)
  BY <1>1 DEF Made, UnreadYet
<1> HIDE DEF held
<1>7. TypeOK'
  <2>1. encoding' \in [Places -> {Idle} \cup Jobs]
    BY <1>1, <1>3, <1>5 DEF TypeOK
  <2>2. toEncode' \subseteq Keys
    BY <1>1 DEF TypeOK, Read
  <2> QED BY <1>1, <1>2, <2>1, <2>2 DEF TypeOK, Usable
<1>8. OneAsked'
  BY <1>1, <1>2 DEF OneAsked, Held, Usable
<1>9. Made'
  <2>1. \A q \in Places : encoding'[q] = IF q = p THEN held ELSE encoding[q]
    BY <1>1, <1>3 DEF TypeOK
  <2> QED BY <1>1, <1>2, <1>6, <2>1 DEF Made, WellMade, Foreign
<1> QED BY <1>7, <1>8, <1>9 DEF IInv

\* A row re-encoded keeps its URL and what it was served as, and takes the stamp.
LEMMA ReplaceKeeps ==
  ASSUME IInv, NEW p \in Places, Replace(p)
  PROVE  IInv'
<1> USE DEF world, fetching, running
<1>1. TypeOK /\ OneAsked /\ Made
  BY DEF IInv
<1>2. UNCHANGED <<served, slots, kept, changes, filled, todo, asking, stuck,
                  encoder, reigns, toEncode, restarts>>
  BY DEF Replace
<1>3. encoding' = [encoding EXCEPT ![p] = Idle] /\ encoding[p] # Idle
  BY DEF Replace
<1>4. /\ encoding[p] \in Jobs /\ encoding[p].form \in Seq(Encoders)
      /\ WellMade(encoding[p].form) /\ Foreign(encoding[p].form)
  <2>1. encoding[p] \in Jobs
    BY <1>1, <1>3 DEF TypeOK
  <2> QED BY <1>1, <1>3, <2>1 DEF Jobs, Made
<1>5. PICK c \in captures : \E made \in Encoded(c, encoding[p]) :
        captures' = (captures \ {c}) \cup {[made EXCEPT !.stamp = encoder]}
  BY DEF Replace
<1>6. c \in Rows /\ encoder \in Encoders /\ reigns \in [Encoders -> Nat]
  BY <1>1 DEF TypeOK
<1>7. PICK d : /\ captures' = (captures \ {c}) \cup {d}
               /\ d \in Rows /\ Key(d) = Key(c) /\ d.url = c.url /\ (Usable(d) <=> Usable(c))
               /\ d.stamp = encoder
               /\ d.form = c.form \/ d.form = Append(encoding[p].form, encoder)
  <2>1. PICK made \in Encoded(c, encoding[p]) :
          captures' = (captures \ {c}) \cup {[made EXCEPT !.stamp = encoder]}
    BY <1>5
  <2>2. PICK d : d = [made EXCEPT !.stamp = encoder]
    OBVIOUS
  <2> QED BY <1>4, <1>6, <2>1, <2>2, Restamped
<1> DEFINE form == d.form
<1>9. WellMade(form)
  <2>1. CASE form = c.form
    BY <1>1, <2>1 DEF Made
  <2>2. CASE form = Append(encoding[p].form, encoder)
    <3> DEFINE f == encoding[p].form
    <3>1. /\ form = Append(f, encoder) /\ f \in Seq(Encoders)
      BY <1>4, <2>2
    <3> HIDE DEF f, form
    <3>2. /\ Len(f) \in Nat /\ Len(form) = Len(f) + 1 /\ form[Len(f) + 1] = encoder
          /\ \A n \in 1 .. Len(f) : form[n] = f[n]
          /\ f # <<>> => Len(f) > 0
      BY <3>1, <1>6, OneMore
    <3>3. WellMade(f) /\ Foreign(f) /\ reigns[encoder] >= 1
      BY <1>1, <1>4 DEF Made, f
    <3>4. \A n \in 1 .. Len(form) : reigns[form[n]] >= 1
      <4> SUFFICES ASSUME NEW n \in 1 .. Len(form) PROVE reigns[form[n]] >= 1
        OBVIOUS
      <4>1. CASE n = Len(f) + 1
        BY <3>2, <3>3, <4>1
      <4>2. CASE n \in 1 .. Len(f)
        BY <3>2, <3>3, <4>2 DEF WellMade
      <4> QED BY <3>2, <4>1, <4>2
    <3>5. \A n \in 1 .. Len(form) - 1 : form[n] = form[n + 1] => reigns[form[n]] > 1
      <4> SUFFICES ASSUME NEW n \in 1 .. Len(f), form[n] = form[n + 1]
                   PROVE  reigns[form[n]] > 1
        BY <3>2
      <4>1. CASE n = Len(f)
        <5>1. f # <<>> /\ f[Len(f)] = encoder /\ form[n] = encoder
          BY <3>2, <4>1
        <5> QED BY <3>3, <5>1 DEF Foreign
      <4>2. CASE n \in 1 .. Len(f) - 1
        <5>1. n + 1 \in 1 .. Len(f) /\ form[n] = f[n] /\ form[n + 1] = f[n + 1]
          BY <3>2, <4>2
        <5> QED BY <3>3, <4>2, <5>1 DEF WellMade
      <4> QED BY <3>2, <4>1, <4>2
    <3> QED BY <3>4, <3>5 DEF WellMade
  <2> QED BY <1>7, <2>1, <2>2
<1>12. \A e \in captures : \E g \in captures' :
         Key(g) = Key(e) /\ g.url = e.url /\ (Usable(g) <=> Usable(e))
  BY <1>7
<1>13. TypeOK'
  <2>1. captures' \subseteq Rows
    BY <1>1, <1>7 DEF TypeOK
  <2>2. \A e, g \in captures' : Key(e) = Key(g) => e = g
    BY <1>1, <1>7 DEF TypeOK
  <2>3. \A t \in Slots : filled'[t] # NoCapture =>
          \E e \in captures' : Key(e) = filled'[t] /\ e.url = UrlOf[t] /\ Usable(e)
    <3> SUFFICES ASSUME NEW t \in Slots, filled[t] # NoCapture
                 PROVE  \E e \in captures' : Key(e) = filled[t] /\ e.url = UrlOf[t] /\ Usable(e)
      BY <1>2
    <3>1. \E e \in captures : Key(e) = filled[t] /\ e.url = UrlOf[t] /\ Usable(e)
      BY <1>1 DEF TypeOK
    <3>2. PICK e \in captures : Key(e) = filled[t] /\ e.url = UrlOf[t] /\ Usable(e)
      BY <3>1
    <3>3. PICK g \in captures' : Key(g) = Key(e) /\ g.url = e.url /\ (Usable(g) <=> Usable(e))
      BY <1>12
    <3> QED BY <3>2, <3>3
  <2>4. encoding' \in [Places -> {Idle} \cup Jobs]
    BY <1>1, <1>3 DEF TypeOK
  <2> QED BY <1>1, <1>2, <2>1, <2>2, <2>3, <2>4 DEF TypeOK, Usable
<1>14. OneAsked'
  <2>1. \A s \in asking : Held(UrlOf[s])' = {}
    BY <1>1, <1>2, <1>7 DEF OneAsked, Held
  <2> QED BY <1>1, <1>2, <2>1 DEF OneAsked
<1>15. Made'
  <2>1. \A q \in Places : encoding'[q] = IF q = p THEN Idle ELSE encoding[q]
    BY <1>1, <1>3 DEF TypeOK
  <2> QED BY <1>1, <1>2, <1>7, <1>9, <2>1 DEF Made, WellMade, Foreign
<1> QED BY <1>13, <1>14, <1>15 DEF IInv

\* A job that fails lets go of what it read.
LEMMA RaiseKeeps ==
  ASSUME IInv, NEW p \in Places, Raise(p)
  PROVE  IInv'
<1> USE DEF world, fetching, running
<1>1. TypeOK /\ OneAsked /\ Made
  BY DEF IInv
<1>2. UNCHANGED <<served, slots, kept, changes, captures, filled, todo, asking, stuck,
                  encoder, reigns, toEncode, restarts>>
  BY DEF Raise
<1>3. /\ encoding' \in [Places -> {Idle} \cup Jobs]
      /\ \A q \in Places : encoding'[q] = IF q = p THEN Idle ELSE encoding[q]
  BY <1>1 DEF Raise, TypeOK
<1>4. TypeOK'
  BY <1>1, <1>2, <1>3 DEF TypeOK, Usable
<1>5. OneAsked' /\ Made'
  BY <1>1, <1>2, <1>3 DEF OneAsked, Held, Usable, Made, WellMade, Foreign
<1> QED BY <1>4, <1>5 DEF IInv

\* A deploy brings in an encoder that made nothing, or one that has reigned before.
LEMMA RestartKeeps ==
  ASSUME IInv, Restart
  PROVE  IInv'
<1> USE DEF world
<1>1. TypeOK /\ OneAsked /\ Made
  BY DEF IInv
<1>2. UNCHANGED <<served, slots, kept, changes, captures, filled, todo, toEncode>>
  BY DEF Restart
<1>3. /\ encoder' \in Encoders /\ encoding' = [q \in Places |-> Idle]
      /\ asking' = {} /\ stuck' = stuck \cup asking /\ restarts' = restarts + 1
      /\ reigns' = IF encoder' = encoder THEN reigns ELSE [reigns EXCEPT ![encoder'] = @ + 1]
  BY DEF Restart
<1>4. /\ reigns \in [Encoders -> Nat] /\ encoder \in Encoders
  BY <1>1 DEF TypeOK
<1>5. /\ reigns' \in [Encoders -> Nat]
      /\ \A e \in Encoders : reigns'[e] >= reigns[e]
      /\ encoder' # encoder => reigns'[encoder'] = reigns[encoder'] + 1
  BY <1>3, <1>4
<1>6. TypeOK'
  BY <1>1, <1>2, <1>3, <1>5 DEF TypeOK, Usable
<1>7. OneAsked'
  BY <1>3 DEF OneAsked
<1>8. Made'
  <2>1. reigns'[encoder'] >= 1
    BY <1>1, <1>3, <1>4, <1>5 DEF Made
  <2>2. ASSUME NEW c \in captures
        PROVE  WellMade(c.form)' /\ (c.stamp # encoder' => Foreign(c.form)')
    <3>1. c.form \in Seq(Encoders) /\ WellMade(c.form)
      BY <1>1 DEF TypeOK, Rows, Made
    <3>2. Len(c.form) \in Nat /\ \A n \in 1 .. Len(c.form) : c.form[n] \in Encoders
      BY <3>1
    <3>3. WellMade(c.form)'
      <4>1. \A n \in 1 .. Len(c.form) :
              reigns[c.form[n]] \in Nat /\ reigns'[c.form[n]] \in Nat
                /\ reigns'[c.form[n]] >= reigns[c.form[n]]
        BY <1>4, <1>5, <3>2
      <4>2. \A n \in 1 .. Len(c.form) - 1 : n \in 1 .. Len(c.form)
        BY <3>2
      <4>3. ASSUME NEW n \in 1 .. Len(c.form) PROVE reigns'[c.form[n]] >= 1
        <5>1. reigns[c.form[n]] >= 1
          BY <3>1 DEF WellMade
        <5> QED BY <4>1, <5>1
      <4>4. ASSUME NEW n \in 1 .. Len(c.form) - 1, c.form[n] = c.form[n + 1]
            PROVE  reigns'[c.form[n]] > 1
        <5>1. reigns[c.form[n]] > 1
          BY <3>1, <4>4 DEF WellMade
        <5> QED BY <4>1, <4>2, <5>1
      <4> QED BY <4>3, <4>4 DEF WellMade
    <3>4. ASSUME c.stamp # encoder', c.form # <<>>, c.form[Len(c.form)] = encoder'
          PROVE  reigns'[encoder'] > 1
      <4>1. CASE encoder' = encoder
        BY <1>1, <1>3, <3>4, <4>1 DEF Made, Foreign
      <4>2. CASE encoder' # encoder
        <5>1. Len(c.form) \in 1 .. Len(c.form)
          BY <3>1, <3>4
        <5>2. reigns[encoder'] >= 1
          BY <3>1, <3>4, <5>1 DEF WellMade
        <5> QED BY <1>3, <1>4, <1>5, <4>2, <5>2
      <4> QED BY <4>1, <4>2
    <3> QED BY <3>3, <3>4 DEF Foreign
  <2> QED BY <1>2, <1>3, <2>1, <2>2 DEF Made
<1> QED BY <1>6, <1>7, <1>8 DEF IInv

\* The invariant holds of every step.
LEMMA Inductive == IInv /\ [Next]_vars => IInv'
<1> SUFFICES ASSUME IInv, [Next]_vars PROVE IInv'
  OBVIOUS
<1>1. CASE (\E u \in Urls : Change(u)) \/ (\E s \in Slots : Find(s))
             \/ Keep \/ SweepLeads \/ SweepBodies \/ SweepEncodes
  BY <1>1, WantsKeep
<1>2. ASSUME NEW s \in Slots, Look(s) PROVE IInv'
  BY <1>2, LookKeeps
<1>3. ASSUME NEW s \in Slots, Answer(s) PROVE IInv'
  BY <1>3, AnswerKeeps
<1>4. ASSUME NEW p \in Places, Replace(p) \/ Raise(p) PROVE IInv'
  BY <1>4, ReplaceKeeps, RaiseKeeps
<1>5. ASSUME NEW p \in Places, NEW c \in captures, Read(p, c) PROVE IInv'
  BY <1>5, ReadKeeps
<1>6. CASE Restart
  BY <1>6, RestartKeeps
<1>7. CASE UNCHANGED vars
  <2>1. TypeOK'
    BY <1>7 DEF IInv, vars, TypeOK, Usable
  <2> QED BY <1>7, <2>1, Untouched DEF vars
<1> QED BY <1>1, <1>2, <1>3, <1>4, <1>5, <1>6, <1>7 DEF Next

LEMMA Always == Spec => []IInv
BY Starts, Inductive, PTL DEF Spec

-----------------------------------------------------------------------------
\* Every table keeps its shape, and a slot that points anywhere points at a picture held for
\* its own URL (extract/images.py:233).
THEOREM TypeCorrect == Spec => []TypeOK
<1>1. IInv => TypeOK
  BY DEF IInv
<1> QED BY <1>1, Always, PTL

\* Nothing held is fetched again, and nothing is fetched twice at once, however many slots
\* show one picture: the host's lock covers the look and the request (extract/images.py:242).
THEOREM NothingHeldIsFetched == Spec => []NothingHeldIsAsked
<1>1. IInv => NothingHeldIsAsked
  BY DEF IInv, OneAsked, NothingHeldIsAsked
<1> QED BY <1>1, Always, PTL

\* No encoder but one rolled back to is given its own output, though two jobs may have one
\* picture in hand (extract/encode.py:67).
THEOREM NoSecondGeneration == Spec => []OneGenerationPerEncoder
<1>1. IInv => OneGenerationPerEncoder
  BY DEF IInv, Made, WellMade, OneGenerationPerEncoder
<1> QED BY <1>1, Always, PTL
=============================================================================
