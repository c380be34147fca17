------------------------------- MODULE Images -------------------------------
(***************************************************************************)
(* The pictures of one image host: the slots extractions leave, the sweeps *)
(* that fill them (extract/images.py, tasks/extract.py), the rows pictures *)
(* are held in (db/models/image.py), and their re-encoding                 *)
(* (extract/encode.py).                                                    *)
(*                                                                         *)
(* Slots are numbered as they were inserted.  Every job of the host takes  *)
(* the host's lock (JobQueue); encoding takes none.                        *)
(***************************************************************************)
EXTENDS Naturals, Sequences, FiniteSets

CONSTANTS
  Urls,
  Pictures,      \* bytes that are an image
  Bombs,         \* pictures Pillow raises on, with neither OSError nor ValueError
  Size,          \* Size[bytes], as served
  Poor,          \* no picture: an error, another type, or a redirect we may not follow
  Barred,        \* robots.txt keeps us from asking
  Offers,        \* Offers[u]: what u may answer
  Leads, Bodies, \* slots by role
  UrlOf,         \* UrlOf[slot]
  Batch,         \* image_batch_size
  EncodeBatch,   \* encode_batch_size
  Encoders,      \* spec and encoder_version
  Unread,        \* the stamp of a picture no encoder has read
  Places,        \* encode jobs the worker runs at once
  Idle,
  MaxChanges,    \* bound: times a publisher changes what a URL answers
  MaxRestarts    \* bound: deploys and kills

Slots == Leads \cup Bodies

\* A picture may come under an error, as a placeholder does.
Answers == [bytes : Pictures, ok : BOOLEAN] \cup [bytes : {Poor, Barred}, ok : {FALSE}]

ASSUME ImagesAssumption ==
  /\ Slots \subseteq Nat /\ Leads \cap Bodies = {} /\ UrlOf \in [Slots -> Urls]
  /\ {Poor, Barred} \cap Pictures = {} /\ Poor # Barred
  /\ Offers \in [Urls -> SUBSET Answers]
  /\ Bombs \subseteq Pictures /\ Size \in [Pictures \cup {Poor} -> Nat]
  /\ Encoders # {} /\ Unread \notin Encoders
  /\ {Batch, EncodeBatch, MaxChanges, MaxRestarts} \subseteq Nat

VARIABLES
  served,     \* served[u]: what asking for u gets
  slots,      \* extraction_images rows
  filled,     \* filled[s]: the capture the slot points at, or none
  kept,       \* the article is saved, or of a tier whose pictures are kept
  captures,   \* image_captures rows: [url, bytes, ok, form, size, stamp]: ok if the answer
              \* they came in was a picture below 300; form, the encoders whose output body
              \* is, in turn: empty as served
  todo,       \* slots with a job waiting
  asking,     \* slots whose job has sent its request
  stuck,      \* slots whose job died in `doing`, still holding the host's lock
  encoder,    \* of the running worker
  reigns,     \* GHOST: times each encoder was brought in by a deploy
  toEncode,   \* captures with an encode job waiting
  encoding,   \* encoding[p]: the capture a job has read, the form and the size it read
  changes, restarts

vars == <<served, slots, filled, kept, captures, todo, asking, stuck,
          encoder, reigns, toEncode, encoding, changes, restarts>>
world == <<served, slots, kept, changes>>
fetching == <<filled, todo, asking, stuck>>
running == <<encoder, reigns, restarts>>
encodes == <<running, toEncode, encoding>>

Key(c) == [url |-> c.url, bytes |-> c.bytes]
Keys == [url : Urls, bytes : Pictures \cup {Poor}]
NoCapture == [url |-> "none"]

Init ==
  /\ served \in {s \in [Urls -> Answers] : \A u \in Urls : s[u] \in Offers[u]}
  /\ slots = {} /\ filled = [s \in Slots |-> NoCapture] /\ kept = FALSE
  /\ captures = {} /\ todo = {} /\ asking = {} /\ stuck = {}
  /\ encoder = CHOOSE e \in Encoders : TRUE
  /\ reigns = [e \in Encoders |-> IF e = encoder THEN 1 ELSE 0]
  /\ toEncode = {} /\ encoding = [p \in Places |-> Idle]
  /\ changes = 0 /\ restarts = 0

-----------------------------------------------------------------------------
(* Publishers, readings and the reader.                                    *)

Change(u) ==
  /\ changes < MaxChanges
  /\ \E answer \in Offers[u] \ {served[u]} : served' = [served EXCEPT ![u] = answer]
  /\ changes' = changes + 1
  /\ UNCHANGED <<slots, kept, captures, fetching, encodes>>

\* A reading is stored, and the pictures it shows get their slots (Readings).
Find(s) ==
  /\ s \notin slots /\ \A t \in Slots : t < s => t \in slots
  /\ slots' = slots \cup {s}
  /\ UNCHANGED <<served, kept, changes, captures, fetching, encodes>>

\* The article is saved, or its feed is filed under a higher tier.
Keep ==
  /\ ~ kept /\ kept' = TRUE
  /\ UNCHANGED <<served, slots, changes, captures, fetching, encodes>>

-----------------------------------------------------------------------------
(* Fetching.                                                               *)

\* ImageCapture.usable: an answer below 300 that is an image.
Usable(c) == c.ok /\ c.bytes \in Pictures

Empty(s) == s \in slots /\ filled[s] = NoCapture

\* due_images and due_body_images: slots nothing has been held for, whatever became of the
\* last request.  Leads come oldest first, the rest newest first.
DueLeads ==
  {s \in Leads : Empty(s) /\ Cardinality({t \in Leads : Empty(t) /\ t < s}) < Batch}
DueBodies ==
  {s \in Bodies : kept /\ Empty(s) /\ Cardinality({t \in Bodies : Empty(t) /\ t > s}) < Batch}

\* schedule_lead_images; schedule_body_images and capture_saved_images.
Sweep(due) ==
  /\ due \ todo # {}
  /\ todo' = todo \cup due
  /\ UNCHANGED <<world, captures, filled, asking, stuck, encodes>>

SweepLeads == Sweep(DueLeads)
SweepBodies == Sweep(DueBodies)

\* FAULT: one job of a slot at a time, and no lock on the host.
LockFreeAlways == stuck = {}

\* The host's lock: no job of the host is in `doing`.
LockFree == asking = {} /\ stuck = {}

\* link_existing looks for a usable row of the URL.
Held(u) == {c \in captures : c.url = u /\ Usable(c)}

\* capture_image up to its request: a picture already held is only pointed at, and one
\* robots.txt bars is not asked for.
Look(s) ==
  /\ s \in todo /\ LockFree
  /\ todo' = todo \ {s}
  /\ \/ /\ \E c \in Held(UrlOf[s]) : filled' = [filled EXCEPT ![s] = Key(c)]
        /\ UNCHANGED asking
     \/ /\ Held(UrlOf[s]) = {}
        /\ asking' = IF served[UrlOf[s]].bytes = Barred THEN asking ELSE asking \cup {s}
        /\ UNCHANGED filled
  /\ UNCHANGED <<world, captures, stuck, encodes>>

\* FAULT: pointed at whatever was stored.
PointedAtAnything(s, c) == filled' = [filled EXCEPT ![s] = Key(c)]

\* Asked of the row, not of the response.
Pointed(s, c) == filled' = IF Usable(c) THEN [filled EXCEPT ![s] = Key(c)] ELSE filled

\* The rest of capture_image: the answer is stored, one row per bytes at a URL.  A row held
\* already keeps everything but the time it was fetched, the status it first came with too.
Answer(s) ==
  LET answer == served[UrlOf[s]]
      bytes  == IF answer.bytes = Barred THEN Poor ELSE answer.bytes
      row    == [url |-> UrlOf[s], bytes |-> bytes, ok |-> answer.ok,
                 form |-> <<>>, size |-> Size[bytes], stamp |-> Unread]
  IN  /\ s \in asking
      /\ asking' = asking \ {s}
      /\ captures' = IF \E c \in captures : Key(c) = Key(row) THEN captures
                                                              ELSE captures \cup {row}
      /\ \E stored \in captures' : Key(stored) = Key(row) /\ Pointed(s, stored)
      /\ UNCHANGED <<world, todo, stuck, encodes>>

-----------------------------------------------------------------------------
(* Encoding.                                                               *)

Unencoded == {c \in captures : Usable(c) /\ c.stamp # encoder}

\* due_encodes: pictures this encoder has not read, the biggest first, as many as a batch holds.
DueEncodes ==
  {due \in SUBSET Unencoded :
     /\ Cardinality(due) <= EncodeBatch
     /\ \A c \in Unencoded \ due :
          Cardinality(due) = EncodeBatch /\ \A d \in due : d.size >= c.size}

SweepEncodes ==
  \E due \in DueEncodes :
    LET keys == {Key(c) : c \in due}
    IN  /\ keys \ toEncode # {}
        /\ toEncode' = toEncode \cup keys
        /\ UNCHANGED <<world, captures, fetching, running, encoding>>

\* FAULT: the sweep's word taken for it.
UnreadOnTrust(c) == Usable(c)

\* _unread: this encoder has not had the bytes, asked again.
UnreadYet(c) == c.stamp # encoder

\* encode_image reads the bytes, in a transaction of its own.
Read(p, c) ==
  /\ encoding[p] = Idle /\ Key(c) \in toEncode
  /\ toEncode' = toEncode \ {Key(c)}
  /\ encoding' = [encoding EXCEPT ![p] =
                    IF UnreadYet(c)
                    THEN [key |-> Key(c), form |-> c.form, size |-> c.size] ELSE Idle]
  /\ UNCHANGED <<world, captures, fetching, running>>

\* What a job makes of a row: the encoder's output where that is smaller than what was read.
Encoded(c, job) ==
  {c} \cup {[c EXCEPT !.form = Append(job.form, encoder), !.size = n] : n \in 1 .. job.size - 1}

\* FAULT: stamped only where the encoder did better.
ReplaceSmaller(p) ==
  /\ encoding[p] # Idle /\ encoding[p].key.bytes \notin Bombs
  /\ \E c \in captures : \E d \in Encoded(c, encoding[p]) :
       /\ Key(c) = encoding[p].key
       /\ captures' = IF d = c THEN captures
                      ELSE (captures \ {c}) \cup {[d EXCEPT !.stamp = encoder]}
  /\ encoding' = [encoding EXCEPT ![p] = Idle]
  /\ UNCHANGED <<world, fetching, running, toEncode>>

\* _replace: stamped whether or not the encoder did better than what it was given, and when
\* it could not read it for an OSError or a ValueError.
Replace(p) ==
  /\ encoding[p] # Idle /\ encoding[p].key.bytes \notin Bombs
  /\ \E c \in captures : \E d \in Encoded(c, encoding[p]) :
       /\ Key(c) = encoding[p].key
       /\ captures' = (captures \ {c}) \cup {[d EXCEPT !.stamp = encoder]}
  /\ encoding' = [encoding EXCEPT ![p] = Idle]
  /\ UNCHANGED <<world, fetching, running, toEncode>>

\* encode raises anything else: the job fails, and nothing is stamped.
Raise(p) ==
  /\ encoding[p] # Idle /\ encoding[p].key.bytes \in Bombs
  /\ encoding' = [encoding EXCEPT ![p] = Idle]
  /\ UNCHANGED <<world, captures, fetching, running, toEncode>>

\* The worker dies or is replaced, by any version: what waited still waits, and what was in
\* `doing` stays.
Restart ==
  /\ restarts < MaxRestarts
  /\ encoder' \in Encoders
  /\ reigns' = IF encoder' = encoder THEN reigns ELSE [reigns EXCEPT ![encoder'] = @ + 1]
  /\ encoding' = [p \in Places |-> Idle]
  /\ asking' = {} /\ stuck' = stuck \cup asking
  /\ restarts' = restarts + 1
  /\ UNCHANGED <<world, captures, filled, todo, toEncode>>

-----------------------------------------------------------------------------
Next ==
  \/ \E u \in Urls : Change(u)
  \/ \E s \in Slots : Find(s) \/ Look(s) \/ Answer(s)
  \/ Keep \/ SweepLeads \/ SweepBodies \/ SweepEncodes
  \/ \E p \in Places : Replace(p) \/ Raise(p) \/ \E c \in captures : Read(p, c)
  \/ Restart

Spec == Init /\ [][Next]_vars

\* The crons fire; jobs go oldest first, so each has its turn at the host's lock, and each
\* encode job at a place; what runs ends.
FairSpec ==
  /\ Spec
  /\ WF_vars(SweepLeads) /\ WF_vars(SweepBodies) /\ WF_vars(SweepEncodes)
  /\ \A s \in Slots : SF_vars(Look(s))
  /\ WF_vars(\E s \in Slots : Answer(s))
  /\ \A u \in Urls, b \in Pictures \ Bombs :
       SF_vars(\E p \in Places, c \in captures : Key(c) = [url |-> u, bytes |-> b] /\ Read(p, c))
  /\ \A p \in Places : WF_vars(Replace(p) \/ Raise(p))

-----------------------------------------------------------------------------
Rows == [url : Urls, bytes : Pictures \cup {Poor}, ok : BOOLEAN, form : Seq(Encoders),
         size : Nat, stamp : Encoders \cup {Unread}]
Jobs == [key : Keys, form : Seq(Encoders), size : Nat]

\* Types.  A slot points at a row of its URL that is held and is a picture (image.py:58).
TypeOK ==
  /\ served \in [Urls -> Answers] /\ slots \subseteq Slots /\ kept \in BOOLEAN
  /\ filled \in [Slots -> Keys \cup {NoCapture}]
  /\ \A s \in Slots : filled[s] # NoCapture =>
       \E c \in captures : Key(c) = filled[s] /\ c.url = UrlOf[s] /\ Usable(c)
  /\ captures \subseteq Rows /\ \A c, d \in captures : Key(c) = Key(d) => c = d
  /\ todo \subseteq Slots /\ asking \subseteq Slots /\ stuck \subseteq Slots
  /\ encoder \in Encoders /\ reigns \in [Encoders -> Nat] /\ toEncode \subseteq Keys
  /\ encoding \in [Places -> {Idle} \cup Jobs]
  /\ changes \in Nat /\ restarts \in Nat

\* "Nothing is refetched that is already held" (images.py:242): no two requests for one
\* picture, however many slots ask for it; a request is out only while no usable row is held.
NothingHeldIsAsked ==
  \A s \in asking :
    /\ Held(UrlOf[s]) = {}
    /\ \A t \in asking : UrlOf[s] = UrlOf[t] => s = t

\* "A second pass would re-encode its own output and spend a generation for nothing"
\* (encode.py:67): no encoder is given what it made itself, though a sweep may queue a
\* picture again while a job has it in hand.  Only one rolled back to may be: the stamp names
\* the last encoder to have read the bytes, not all that have.
OneGenerationPerEncoder ==
  \A c \in captures : \A n \in 1 .. Len(c.form) - 1 :
    c.form[n] = c.form[n + 1] => reigns[c.form[n]] > 1

\* A picture can be had if it is held, or served well and not kept as the error page its
\* bytes first came as.
Obtainable(u) ==
  \/ Held(u) # {}
  \/ /\ served[u].ok
     /\ \A c \in captures : Key(c) = [url |-> u, bytes |-> served[u].bytes] => Usable(c)
Hopeless(s) == Empty(s) /\ ~ Obtainable(UrlOf[s])

\* A slot whose picture can be had gets it, unless the host's lock went down with a worker or
\* slots that cannot be filled, which are offered for ever, fill the batch ahead of it.
SlotsFill ==
  stuck # {} \/ \A s \in Slots : Empty(s) /\ Obtainable(UrlOf[s]) =>
    \/ s \in Leads /\ Cardinality({t \in Leads : Hopeless(t) /\ t < s}) >= Batch
    \/ s \in Bodies /\ (~ kept \/ Cardinality({t \in Bodies : Hopeless(t) /\ t > s}) >= Batch)

\* Every picture is read by the encoder that runs, unless it is one that fails its job, or
\* such pictures, as big or bigger, fill the batch ahead of it.
PicturesEncode ==
  \A c \in Unencoded :
    \/ c.bytes \in Bombs
    \/ Cardinality({d \in Unencoded : d.bytes \in Bombs /\ d.size >= c.size}) >= EncodeBatch

\* Nothing but what will never do keeps a picture from its slot and its encoding
\* (encode.py:139, images.py:115).
PicturesArriveInTheEnd == <>[](SlotsFill /\ PicturesEncode)
=============================================================================
