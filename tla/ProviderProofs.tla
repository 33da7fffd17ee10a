---------------------------- MODULE ProviderProofs ----------------------------
(***************************************************************************)
(* Theorems of MetaProvider and Media for every number of threads,         *)
(* templates, attempts, readers and attachments: a call is one send, the   *)
(* cache is only ever a whole reading of the catalogue, a template that is *)
(* sent was checked against what the catalogue held, and what is recorded  *)
(* as available is complete.                                               *)
(***************************************************************************)
EXTENDS Media, TLAPS

Verdicts == {"open", "sent", "failed", "unknown", "escaped"}
Readings == UNION {[S -> Entries] : S \in SUBSET Templates}
Calls ==
  [kind : Kinds, step : Steps, tries : Nat, verdict : Verdicts,
   template : Templates \cup {CHOOSE t \in Templates : TRUE},
   parameters : Parameters \cup {{}}, media : MediaTypes, reading : Readings,
   heard : SUBSET (Templates \X Entries), fits : BOOLEAN]

TypeOK ==
  /\ call \in [Threads -> Calls]
  /\ taken \in [Threads -> {0, 1}]
  /\ catalog \in [Templates -> Entries]
  /\ cache \in [Templates -> Entries]

\* Nobody has the message of a call that goes on.
OneSend == \A p \in Threads : call[p].step # "done" => call[p].verdict = "open" /\ taken[p] = 0

Listening(p) == call[p].kind \in {"template", "list"} /\ call[p].step # "done"
Known(s) == s = Absent \/ s.header \in Headers

\* A call that listens has heard of everything the catalogue holds, and of
\* everything a reading under way may have found.
HeardOK ==
  /\ \A p \in Threads :
       /\ call[p].step \in {"list", "replace", "prepare"} => Listening(p)
       /\ IF Listening(p) THEN Now \subseteq call[p].heard ELSE call[p].heard = {}
       /\ Listening(p) => call[p].template \in Templates
  /\ \A p \in Threads, q \in Reading : Listening(p) => call[q].heard \subseteq call[p].heard

\* A reading holds what was heard of, and is whole at its end.
ReadingOK ==
  \A p \in Reading :
    /\ \A t \in DOMAIN call[p].reading :
         <<t, call[p].reading[t]>> \in call[p].heard /\ Known(call[p].reading[t])
    /\ call[p].step = "replace" => DOMAIN call[p].reading = Templates

CacheOK ==
  /\ \A t \in Templates : Known(cache[t])
  /\ \A p \in Threads, t \in Templates :
       call[p].kind = "template" /\ call[p].step = "prepare" => <<t, cache[t]>> \in call[p].heard

\* A form the call's message fits.
Fits(c, s) ==
  /\ <<c.template, s>> \in c.heard
  /\ s.approved /\ ~s.buttons /\ s.header \in Headers
  /\ s.marketing => c.template \in Recontact
  /\ s.parameters = c.parameters
  /\ c.template \notin HelloWorld
  /\ c.media = HeaderMedia(s)
SentOK ==
  \A p \in Threads :
    call[p].kind = "template" /\ call[p].step \in {"send", "load", "upload", "post"} =>
      \E s \in Shapes : Fits(call[p], s)

IInv == TypeOK /\ OneSend /\ HeardOK /\ ReadingOK /\ CacheOK /\ SentOK

-----------------------------------------------------------------------------
(* The call after a step.                                                  *)

\* c is d at another step.
Same(c, d) ==
  /\ c.kind = d.kind /\ c.verdict = d.verdict /\ c.template = d.template
  /\ c.parameters = d.parameters /\ c.media = d.media /\ c.heard = d.heard


LEMMA EmptyReading == NoReading \in Readings /\ DOMAIN NoReading = {}
<1>1. NoReading \in [{} -> Entries]
  BY DEF NoReading
<1> QED BY <1>1 DEF Readings, NoReading

Stops(c) == c.step = "done" /\ c.kind = "text" /\ c.heard = {}

LEMMA GoingIs ==
  ASSUME TypeOK, NEW p \in Threads, NEW s \in Steps
  PROVE  \E c \in Calls :
           /\ Going(p, s) = [call EXCEPT ![p] = c]
           /\ c.step = s /\ c.reading = call[p].reading /\ Same(c, call[p])
<1>1. call[p] \in Calls
  BY DEF TypeOK
<1> DEFINE c == [call[p] EXCEPT !.step = s, !.tries = 1]
<1>2. c \in Calls /\ c.step = s /\ c.reading = call[p].reading /\ Same(c, call[p])
  BY <1>1 DEF Calls, Same
<1>3. Going(p, s) = [call EXCEPT ![p] = c]
  BY <1>1 DEF Going, TypeOK, Calls
<1> QED BY <1>2, <1>3

LEMMA EndingIs ==
  ASSUME TypeOK, NEW p \in Threads, NEW v \in Verdicts
  PROVE  \E c \in Calls : Ending(p, v) = [call EXCEPT ![p] = c] /\ Stops(c)
<1> DEFINE c == [NoCall EXCEPT !.verdict = v]
<1>1. c \in Calls /\ Stops(c)
  BY EmptyReading DEF NoCall, Calls, Kinds, MediaTypes, Steps, Stops
<1>2. Ending(p, v) = [call EXCEPT ![p] = c]
  BY DEF Ending
<1> QED BY <1>1, <1>2

LEMMA AgainIs ==
  ASSUME TypeOK, NEW p \in Threads
  PROVE  \E c \in Calls :
           /\ [call EXCEPT ![p].tries = @ + 1] = [call EXCEPT ![p] = c]
           /\ c.step = call[p].step /\ c.reading = call[p].reading /\ Same(c, call[p])
<1>1. call[p] \in Calls
  BY DEF TypeOK
<1> DEFINE c == [call[p] EXCEPT !.tries = @ + 1]
<1>2. c \in Calls /\ c.step = call[p].step /\ c.reading = call[p].reading /\ Same(c, call[p])
  BY <1>1 DEF Calls, Same
<1>3. [call EXCEPT ![p].tries = @ + 1] = [call EXCEPT ![p] = c]
  BY <1>1 DEF TypeOK, Calls
<1> QED BY <1>2, <1>3

Fates == {"ok", "again", "unknown", "failed", "escaped"}

LEMMA FateType ==
  ASSUME NEW op, NEW answer, NEW n
  PROVE  Fate(op, answer, n) \in Fates
BY DEF Fate, Fates

LEMMA AfterOutcome ==
  ASSUME NEW p \in Threads, NEW fate \in Fates, NEW next
  PROVE  \/ fate = "ok" /\ After(p, fate, next) = next
         \/ fate = "again" /\ After(p, fate, next) = [call EXCEPT ![p].tries = @ + 1]
         \/ /\ fate \in {"unknown", "failed", "escaped"}
            /\ After(p, fate, next) = Ending(p, fate)
BY DEF After, Fates

-----------------------------------------------------------------------------
(* What a step of one thread leaves true.                                  *)

\* p goes on, and at most from reading to the check of what was read.
Moves(p, c) ==
  /\ call[p].step # "done" /\ c.step # "done" /\ Same(c, call[p])
  /\ c.step \in {"list", "replace"} => call[p].step \in {"list", "replace"}
  /\ c.step = "prepare" => call[p].step \in {"replace", "prepare"}

LEMMA OtherCalls ==
  ASSUME TypeOK, NEW p \in Threads, NEW c \in Calls, call' = [call EXCEPT ![p] = c]
  PROVE  /\ call' \in [Threads -> Calls]
         /\ call'[p] = c
         /\ \A q \in Threads : q # p => call'[q] = call[q]
BY DEF TypeOK

LEMMA KeepsHeard ==
  ASSUME TypeOK, HeardOK, NEW p \in Threads, NEW c \in Calls, call' = [call EXCEPT ![p] = c],
         UNCHANGED catalog, Moves(p, c) \/ Stops(c)
  PROVE  HeardOK'
<1>1. /\ call' \in [Threads -> Calls] /\ call'[p] = c
      /\ \A q \in Threads : q # p => call'[q] = call[q]
  BY OtherCalls
<1>2. Now' = Now
  BY DEF Now
<1>3. ASSUME NEW q \in Threads
      PROVE  /\ call'[q].step \in {"list", "replace", "prepare"} => Listening(q)'
             /\ Listening(q)' => Listening(q) /\ call'[q].heard = call[q].heard
             /\ ~Listening(q)' => call'[q].heard = {}
             /\ Listening(q)' => call'[q].template \in Templates
  <2>1. CASE q # p
    BY <1>1, <2>1 DEF HeardOK, Listening
  <2>2. CASE q = p /\ Moves(p, c)
    BY <1>1, <2>2 DEF HeardOK, Listening, Moves, Same
  <2>3. CASE q = p /\ Stops(c)
    BY <1>1, <2>3 DEF Listening, Stops
  <2> QED BY <2>1, <2>2, <2>3
<1>4. ASSUME NEW q \in Reading'
      PROVE  q \in Reading /\ call'[q].heard = call[q].heard
  BY <1>1, <1>3 DEF Reading, Moves, Stops, Listening
<1>5. ASSUME NEW q \in Threads, NEW r \in Reading', Listening(q)'
      PROVE  call'[r].heard \subseteq call'[q].heard
  BY <1>3, <1>4, <1>5 DEF HeardOK
<1>6. ASSUME NEW q \in Threads, Listening(q)'
      PROVE  Now' \subseteq call'[q].heard
  BY <1>2, <1>3, <1>6 DEF HeardOK
<1> QED BY <1>3, <1>5, <1>6 DEF HeardOK

LEMMA KeepsSent ==
  ASSUME TypeOK, SentOK, NEW p \in Threads, NEW c \in Calls, call' = [call EXCEPT ![p] = c],
         \/ Stops(c)
         \/ c.kind = "template" /\ c.step \in {"send", "load", "upload", "post"} =>
              \E s \in Shapes : Fits(c, s)
  PROVE  SentOK'
<1>1. /\ call' \in [Threads -> Calls] /\ call'[p] = c
      /\ \A q \in Threads : q # p => call'[q] = call[q]
  BY OtherCalls
<1>2. SUFFICES ASSUME NEW q \in Threads, call'[q].kind = "template",
                      call'[q].step \in {"send", "load", "upload", "post"}
               PROVE  \E s \in Shapes : Fits(call'[q], s)
  BY DEF SentOK
<1>3. CASE q # p
  BY <1>1, <1>2, <1>3 DEF SentOK
<1>4. CASE q = p
  BY <1>1, <1>2, <1>4 DEF Stops
<1> QED BY <1>3, <1>4

\* Reading, caching and checking are as they were.
LEMMA KeepsReadings ==
  ASSUME TypeOK, ReadingOK, CacheOK, NEW p \in Threads, NEW c \in Calls,
         call' = [call EXCEPT ![p] = c], UNCHANGED cache,
         \/ Stops(c)
         \/ Moves(p, c) /\ c.step = call[p].step /\ c.reading = call[p].reading
         \/ Moves(p, c) /\ c.step \in {"send", "load", "upload", "post"}
  PROVE  ReadingOK' /\ CacheOK'
<1>1. /\ call' \in [Threads -> Calls] /\ call'[p] = c
      /\ \A q \in Threads : q # p => call'[q] = call[q]
  BY OtherCalls
<1>2. ASSUME NEW q \in Reading'
      PROVE  /\ q \in Reading /\ call'[q].heard = call[q].heard
             /\ call'[q].reading = call[q].reading /\ call'[q].step = call[q].step
  <2>1. CASE q # p
    BY <1>1, <2>1 DEF Reading
  <2>2. CASE q = p
    BY <1>1, <2>2 DEF Reading, Moves, Stops, Same
  <2> QED BY <2>1, <2>2
<1>3. ReadingOK'
  BY <1>2 DEF ReadingOK, Known
<1>4. ASSUME NEW q \in Threads, call'[q].kind = "template", call'[q].step = "prepare"
      PROVE  /\ call[q].kind = "template" /\ call[q].step = "prepare"
             /\ call'[q].heard = call[q].heard
  <2>1. CASE q # p
    BY <1>1, <1>4, <2>1
  <2>2. CASE q = p
    BY <1>1, <1>4, <2>2 DEF Moves, Stops, Same
  <2> QED BY <2>1, <2>2
<1>5. CacheOK'
  BY <1>4 DEF CacheOK, Known
<1> QED BY <1>3, <1>5

\* Meta counts a message only for the call of p that ends.
Counts(p, c) ==
  \/ UNCHANGED taken
  \/ c.step = "done" /\ \E n \in {0, 1} : taken' = [taken EXCEPT ![p] = n]

LEMMA Preserves ==
  ASSUME IInv, NEW p \in Threads, NEW c \in Calls, call' = [call EXCEPT ![p] = c],
         call[p].step # "done", UNCHANGED <<catalog, cache>>, Counts(p, c),
         \/ Stops(c)
         \/ Moves(p, c) /\ c.step = call[p].step /\ c.reading = call[p].reading
         \/ /\ Moves(p, c) /\ c.step \in {"send", "load", "upload", "post"}
            /\ c.kind = "template" => \E s \in Shapes : Fits(c, s)
  PROVE  IInv'
<1>1. /\ call' \in [Threads -> Calls] /\ call'[p] = c
      /\ \A q \in Threads : q # p => call'[q] = call[q]
  BY OtherCalls DEF IInv
<1>2. TypeOK'
  BY <1>1 DEF IInv, TypeOK, Counts
<1>3. OneSend'
  BY <1>1 DEF IInv, OneSend, TypeOK, Moves, Stops, Same, Counts
<1>4. HeardOK'
  BY KeepsHeard DEF IInv
<1>5. ReadingOK' /\ CacheOK'
  BY KeepsReadings DEF IInv
<1>6. ASSUME Moves(p, c), c.step = call[p].step, c.kind = "template",
             c.step \in {"send", "load", "upload", "post"}
      PROVE  \E s \in Shapes : Fits(c, s)
  <2>1. PICK s \in Shapes : Fits(call[p], s)
    BY <1>6 DEF IInv, SentOK, Moves, Same
  <2>2. Fits(c, s)
    BY <1>6, <2>1 DEF Fits, Moves, Same
  <2> QED BY <2>2
<1>7. SentOK'
  BY <1>6, KeepsSent DEF IInv
<1> QED BY <1>2, <1>3, <1>4, <1>5, <1>7 DEF IInv

\* An attempt is repeated.
LEMMA PreservesAgain ==
  ASSUME IInv, NEW p \in Threads, call[p].step # "done",
         call' = [call EXCEPT ![p].tries = @ + 1], UNCHANGED <<taken, catalog, cache>>
  PROVE  IInv'
<1>1. PICK c \in Calls : /\ call' = [call EXCEPT ![p] = c]
                         /\ c.step = call[p].step /\ c.reading = call[p].reading
                         /\ Same(c, call[p])
  BY AgainIs DEF IInv
<1>2. Moves(p, c)
  BY <1>1 DEF Moves
<1> QED BY <1>1, <1>2, Preserves DEF Counts

\* A call ends.
LEMMA PreservesEnding ==
  ASSUME IInv, NEW p \in Threads, NEW v \in Verdicts, call[p].step # "done",
         call' = Ending(p, v), UNCHANGED <<catalog, cache>>,
         UNCHANGED taken \/ \E n \in {0, 1} : taken' = [taken EXCEPT ![p] = n]
  PROVE  IInv'
<1>1. PICK c \in Calls : call' = [call EXCEPT ![p] = c] /\ Stops(c)
  BY EndingIs DEF IInv
<1>2. Counts(p, c)
  BY <1>1 DEF Counts, Stops
<1> QED BY <1>1, <1>2, Preserves

\* A request that failed is repeated, or the call ends with its fate.
LEMMA PreservesAfter ==
  ASSUME IInv, NEW p \in Threads, NEW fate \in Fates, NEW next, call[p].step # "done",
         call' = After(p, fate, next), UNCHANGED <<taken, catalog, cache>>,
         fate = "ok" /\ call' = next => IInv'
  PROVE  IInv'
<1>1. CASE fate = "ok" /\ After(p, fate, next) = next
  BY <1>1
<1>2. CASE fate = "again" /\ After(p, fate, next) = [call EXCEPT ![p].tries = @ + 1]
  BY <1>2, PreservesAgain
<1>3. CASE fate \in {"unknown", "failed", "escaped"} /\ After(p, fate, next) = Ending(p, fate)
  <2>1. fate \in Verdicts
    BY <1>3 DEF Verdicts
  <2> QED BY <1>3, <2>1, PreservesEnding
<1> QED BY <1>1, <1>2, <1>3, AfterOutcome

\* The call goes on to send.
LEMMA PreservesGoing ==
  ASSUME IInv, NEW p \in Threads, call[p].step # "done",
         NEW s \in {"send", "load", "upload", "post"},
         call' = Going(p, s), UNCHANGED <<taken, catalog, cache>>,
         call[p].kind = "template" => \E x \in Shapes : Fits(call[p], x)
  PROVE  IInv'
<1>1. s \in Steps
  BY DEF Steps
<1>2. PICK c \in Calls : /\ call' = [call EXCEPT ![p] = c]
                         /\ c.step = s /\ c.reading = call[p].reading /\ Same(c, call[p])
  BY <1>1, GoingIs DEF IInv
<1>3. Moves(p, c)
  BY <1>2 DEF Moves
<1>4. ASSUME c.kind = "template"
      PROVE  \E x \in Shapes : Fits(c, x)
  <2>1. PICK x \in Shapes : Fits(call[p], x)
    BY <1>2, <1>4 DEF Same
  <2>2. Fits(c, x)
    BY <1>2, <2>1 DEF Fits, Same
  <2> QED BY <2>2
<1> QED BY <1>2, <1>3, <1>4, Preserves DEF Counts

-----------------------------------------------------------------------------
(* The actions.                                                            *)

LEMMA LoadStep ==
  ASSUME IInv, NEW p \in Threads, LoadMedia(p)
  PROVE  IInv'
<1>1. call[p].step = "load"
  BY DEF LoadMedia, At
<1>2. call[p].kind = "template" => \E s \in Shapes : Fits(call[p], s)
  BY <1>1 DEF IInv, SentOK
<1>3. PICK stored \in BOOLEAN :
        call' = IF stored THEN Going(p, "upload") ELSE Ending(p, "failed")
  BY DEF LoadMedia
<1>4. UNCHANGED <<taken, catalog, cache>>
  BY DEF LoadMedia
<1>5. CASE stored
  BY <1>1, <1>2, <1>3, <1>4, <1>5, PreservesGoing
<1>6. CASE ~stored
  BY <1>1, <1>3, <1>4, <1>6, PreservesEnding DEF Verdicts
<1> QED BY <1>5, <1>6

LEMMA UploadStep ==
  ASSUME IInv, NEW p \in Threads, UploadMedia(p)
  PROVE  IInv'
<1>1. call[p].step = "upload"
  BY DEF UploadMedia, At
<1>2. call[p].kind = "template" => \E s \in Shapes : Fits(call[p], s)
  BY <1>1 DEF IInv, SentOK
<1>3. PICK answer \in Answers :
        call' = After(p, Fate("upload", answer, call[p].tries),
                      IF call[p].kind = "template" /\ ~call[p].fits
                      THEN Ending(p, "failed") ELSE Going(p, "post"))
  BY DEF UploadMedia
<1>4. UNCHANGED <<taken, catalog, cache>>
  BY DEF UploadMedia
<1>5. ASSUME call' = Ending(p, "failed") \/ call' = Going(p, "post")
      PROVE  IInv'
  <2>1. CASE call' = Ending(p, "failed")
    BY <1>1, <1>4, <2>1, PreservesEnding DEF Verdicts
  <2>2. CASE call' = Going(p, "post")
    BY <1>1, <1>2, <1>4, <2>2, PreservesGoing
  <2> QED BY <1>5, <2>1, <2>2
<1>6. Fate("upload", answer, call[p].tries) \in Fates
  BY FateType
<1> QED BY <1>1, <1>3, <1>4, <1>5, <1>6, PreservesAfter

LEMMA PrepareStep ==
  ASSUME IInv, NEW p \in Threads, Prepare(p)
  PROVE  IInv'
<1> DEFINE s == cache[call[p].template]
<1>1. call[p].step = "prepare"
  BY DEF Prepare, At
<1>2. UNCHANGED <<taken, catalog, cache>>
  BY DEF Prepare
<1>3. \/ call' = Ending(p, "failed")
      \/ /\ call' = Going(p, "send")
         /\ Usable(call[p].template, s) /\ s.parameters = call[p].parameters
         /\ call[p].media = HeaderMedia(s)
  BY DEF Prepare
<1>4. CASE call' = Ending(p, "failed")
  BY <1>1, <1>2, <1>4, PreservesEnding DEF Verdicts
<1>5. CASE /\ call' = Going(p, "send")
           /\ Usable(call[p].template, s) /\ s.parameters = call[p].parameters
           /\ call[p].media = HeaderMedia(s)
  <2>1. call[p].template \in Templates
    BY <1>1 DEF IInv, HeardOK
  <2>2. s \in Shapes /\ Known(s) /\ s # Absent
    BY <1>5, <2>1 DEF IInv, TypeOK, CacheOK, Usable, Entries
  <2>3. ASSUME call[p].kind = "template"
        PROVE  Fits(call[p], s)
    <3>1. <<call[p].template, s>> \in call[p].heard
      BY <1>1, <2>1, <2>3 DEF IInv, CacheOK
    <3> QED BY <1>5, <2>2, <3>1 DEF Fits, Usable, Supported, Known
  <2> QED BY <1>1, <1>2, <1>5, <2>2, <2>3, PreservesGoing
<1> QED BY <1>3, <1>4, <1>5

LEMMA SendTemplateStep ==
  ASSUME IInv, NEW p \in Threads, SendTemplate(p)
  PROVE  IInv'
<1>1. call[p].step = "send" /\ UNCHANGED <<taken, catalog, cache>>
  BY DEF SendTemplate, At
<1>2. call[p].kind = "template" => \E s \in Shapes : Fits(call[p], s)
  BY <1>1 DEF IInv, SentOK
<1>3. \/ call' = [Going(p, "load") EXCEPT ![p].fits = Pictured(cache[call[p].template])]
      \/ call' = Going(p, "post")
      \/ call' = Ending(p, "failed")
  BY DEF SendTemplate
<1>4. CASE call' = [Going(p, "load") EXCEPT ![p].fits = Pictured(cache[call[p].template])]
  <2>1. call \in [Threads -> Calls] /\ call[p] \in Calls
    BY DEF IInv, TypeOK
  <2> DEFINE b == Pictured(cache[call[p].template])
             c == [call[p] EXCEPT !.step = "load", !.tries = 1, !.fits = b]
  <2>2. b \in BOOLEAN
    BY DEF Pictured
  <2> HIDE DEF b
  <2>3. c \in Calls /\ c.step = "load" /\ Same(c, call[p])
    BY <2>1, <2>2 DEF Calls, Steps, Same
  <2>4. call' = [call EXCEPT ![p] = c]
    BY <1>4, <2>1 DEF Going, Calls, b
  <2>5. Moves(p, c)
    BY <1>1, <2>3 DEF Moves
  <2>6. ASSUME c.kind = "template"
        PROVE  \E s \in Shapes : Fits(c, s)
    <3>1. PICK s \in Shapes : Fits(call[p], s)
      BY <1>2, <2>3, <2>6 DEF Same
    <3>2. Fits(c, s)
      BY <2>3, <3>1 DEF Fits, Same
    <3> QED BY <3>2
  <2> HIDE DEF c
  <2> QED BY <1>1, <2>3, <2>4, <2>5, <2>6, Preserves DEF Counts
<1>5. CASE call' = Going(p, "post")
  BY <1>1, <1>2, <1>5, PreservesGoing
<1>6. CASE call' = Ending(p, "failed")
  BY <1>1, <1>6, PreservesEnding DEF Verdicts
<1> QED BY <1>3, <1>4, <1>5, <1>6

\* The facts of an attempt to send: it is repeated, or it ends the call.
LEMMA PostOutcome ==
  ASSUME IInv, NEW p \in Threads, Post(p)
  PROVE  /\ call[p].step = "post" /\ UNCHANGED <<catalog, cache>>
         /\ \E answer \in Answers, n \in {0, 1} :
              /\ n \in Taking(answer)
              /\ taken' = [taken EXCEPT ![p] = n]
              /\ \/ answer = "ok" /\ call' = Ending(p, "sent")
                 \/ answer \in {"unsent", "busy"} /\ call' = [call EXCEPT ![p].tries = @ + 1]
                 \/ \E v \in {"unknown", "failed", "escaped"} :
                      /\ call' = Ending(p, v)
                      /\ v = "failed" => answer \in {"unsent", "busy", "refused", "expired",
                                                     "oversized"}
<1>1. call[p].step = "post" /\ UNCHANGED <<catalog, cache>>
  BY DEF Post, At
<1>2. PICK answer \in Answers, n \in {0, 1} :
        /\ n \in Taking(answer)
        /\ call' = After(p, Fate("post", answer, call[p].tries), Ending(p, "sent"))
        /\ taken' = [taken EXCEPT ![p] = @ + n]
  BY DEF Post
<1>3. taken' = [taken EXCEPT ![p] = n]
  <2>1. taken[p] = 0 /\ taken \in [Threads -> {0, 1}]
    BY <1>1 DEF IInv, OneSend, TypeOK
  <2> QED BY <1>2, <2>1
<1>4. answer \in AllAnswers
  BY MetaAssumption
<1> DEFINE fate == Fate("post", answer, call[p].tries)
<1>5. /\ fate \in Fates
      /\ fate = "ok" => answer = "ok"
      /\ fate = "again" => answer \in {"unsent", "busy"}
      /\ fate = "failed" => answer \in {"unsent", "busy", "refused", "expired", "oversized"}
  BY <1>4 DEF Fate, Fates, Retryable, AllAnswers
<1> HIDE DEF fate
<1>6. \/ answer = "ok" /\ call' = Ending(p, "sent")
      \/ answer \in {"unsent", "busy"} /\ call' = [call EXCEPT ![p].tries = @ + 1]
      \/ \E v \in {"unknown", "failed", "escaped"} :
           /\ call' = Ending(p, v)
           /\ v = "failed" => answer \in {"unsent", "busy", "refused", "expired", "oversized"}
  <2>1. call' = After(p, fate, Ending(p, "sent"))
    BY <1>2 DEF fate
  <2> QED BY <1>5, <2>1, AfterOutcome
<1> QED BY <1>1, <1>2, <1>3, <1>6

LEMMA PostStep ==
  ASSUME IInv, NEW p \in Threads, Post(p)
  PROVE  IInv'
<1>1. call[p].step = "post" /\ UNCHANGED <<catalog, cache>>
  BY PostOutcome
<1>2. PICK answer \in Answers, n \in {0, 1} :
        /\ n \in Taking(answer)
        /\ taken' = [taken EXCEPT ![p] = n]
        /\ \/ \E v \in {"sent", "unknown", "failed", "escaped"} : call' = Ending(p, v)
           \/ answer \in {"unsent", "busy"} /\ call' = [call EXCEPT ![p].tries = @ + 1]
  BY PostOutcome
<1>3. CASE \E v \in {"sent", "unknown", "failed", "escaped"} : call' = Ending(p, v)
  BY <1>1, <1>2, <1>3, PreservesEnding DEF Verdicts
<1>4. CASE answer \in {"unsent", "busy"} /\ call' = [call EXCEPT ![p].tries = @ + 1]
  <2>1. n = 0
    BY <1>2, <1>4 DEF Taking
  <2>2. taken[p] = 0 /\ taken \in [Threads -> {0, 1}]
    BY <1>1 DEF IInv, OneSend, TypeOK
  <2>3. UNCHANGED taken
    BY <1>2, <2>1, <2>2
  <2> QED BY <1>1, <1>4, <2>3, PreservesAgain
<1> QED BY <1>2, <1>3, <1>4

\* A page joins the reading: what the catalogue holds now, and every listening
\* call has heard of.
LEMMA PageStep ==
  ASSUME IInv, NEW p \in Threads, NEW t \in Templates, NEW s \in {"list", "replace"},
         NEW pages, call[p].step = "list", UNCHANGED <<taken, catalog, cache>>,
         pages = [u \in DOMAIN call[p].reading \cup {t} |->
                   IF u = t THEN catalog[t] ELSE call[p].reading[u]],
         s = "replace" <=> DOMAIN pages = Templates,
         Known(catalog[t]),
         call' = [Going(p, s) EXCEPT ![p].reading = pages]
  PROVE  IInv'
<1>1. call \in [Threads -> Calls] /\ call[p] \in Calls /\ catalog[t] \in Entries
  BY DEF IInv, TypeOK
<1>2. PICK S \in SUBSET Templates : call[p].reading \in [S -> Entries]
  BY <1>1 DEF Calls, Readings
<1>3. pages \in Readings
  <2>1. pages \in [S \cup {t} -> Entries]
    BY <1>1, <1>2
  <2> QED BY <2>1 DEF Readings
<1> DEFINE c == [call[p] EXCEPT !.step = s, !.tries = 1, !.reading = pages]
<1>4. c \in Calls /\ c.step = s /\ c.reading = pages /\ Same(c, call[p])
  BY <1>1, <1>3 DEF Calls, Steps, Same
<1>5. call' = [call EXCEPT ![p] = c]
  BY <1>1 DEF Going, Calls
<1> HIDE DEF c
<1>6. Moves(p, c)
  BY <1>4 DEF Moves
<1>7. /\ call' \in [Threads -> Calls] /\ call'[p] = c
      /\ \A q \in Threads : q # p => call'[q] = call[q]
  BY <1>4, <1>5, OtherCalls DEF IInv
<1>8. TypeOK'
  BY <1>7 DEF IInv, TypeOK
<1>9. OneSend'
  BY <1>4, <1>7 DEF IInv, OneSend, Same
<1>10. HeardOK'
  BY <1>4, <1>5, <1>6, KeepsHeard DEF IInv
<1>11. SentOK'
  BY <1>4, <1>5, KeepsSent DEF IInv
<1>12. CacheOK'
  BY <1>4, <1>7 DEF IInv, CacheOK, Known
<1>13. ASSUME NEW u \in DOMAIN pages
       PROVE  <<u, pages[u]>> \in call[p].heard /\ Known(pages[u])
  <2>1. CASE u = t
    <3>1. <<t, catalog[t]>> \in Now
      BY DEF Now
    <3>2. Now \subseteq call[p].heard
      BY DEF IInv, HeardOK
    <3> QED BY <2>1, <3>1, <3>2
  <2>2. CASE u # t
    <3>1. u \in DOMAIN call[p].reading /\ pages[u] = call[p].reading[u]
      BY <2>2
    <3>2. p \in Reading
      BY DEF Reading
    <3> QED BY <3>1, <3>2 DEF IInv, ReadingOK
  <2> QED BY <2>1, <2>2
<1>14. ReadingOK'
  <2> SUFFICES ASSUME NEW q \in Reading'
               PROVE  /\ \A u \in DOMAIN call'[q].reading :
                           /\ <<u, call'[q].reading[u]>> \in call'[q].heard
                           /\ Known(call'[q].reading[u])
                      /\ call'[q].step = "replace" => DOMAIN call'[q].reading = Templates
    BY DEF ReadingOK, Known
  <2>1. CASE q = p
    BY <1>4, <1>7, <1>13, <2>1 DEF Same
  <2>2. CASE q # p
    BY <1>7, <2>2 DEF IInv, ReadingOK, Reading
  <2> QED BY <2>1, <2>2
<1> QED BY <1>8, <1>9, <1>10, <1>11, <1>12, <1>14 DEF IInv

LEMMA ListStep ==
  ASSUME IInv, NEW p \in Threads, ListPage(p)
  PROVE  IInv'
<1>1. call[p].step = "list" /\ UNCHANGED <<taken, catalog, cache>>
  BY DEF ListPage, At
<1> DEFINE pages(t) == [u \in DOMAIN call[p].reading \cup {t} |->
                         IF u = t THEN catalog[t] ELSE call[p].reading[u]]
           refused(t) == /\ catalog[t] # Absent
                         /\ \/ t \in DOMAIN call[p].reading /\ call[p].reading[t] # Absent
                            \/ Items(pages(t)) > SnapshotLimit
                            \/ catalog[t].header \notin Headers
           step(t) == IF DOMAIN pages(t) = Templates THEN "replace" ELSE "list"
           next(t) == [Going(p, step(t)) EXCEPT ![p].reading = pages(t)]
<1>2. PICK answer \in Answers, t \in Templates :
        LET fate == Fate("list", answer, call[p].tries) IN
        call' = IF fate = "ok" /\ refused(t)
                THEN Ending(p, "failed") ELSE After(p, fate, next(t))
  BY DEF ListPage
<1> DEFINE fate == Fate("list", answer, call[p].tries)
<1>3. fate \in Fates
  BY FateType
<1>4. CASE fate = "ok" /\ refused(t)
  <2>1. call' = Ending(p, "failed")
    BY <1>2, <1>4
  <2> QED BY <1>1, <2>1, PreservesEnding DEF Verdicts
<1>5. CASE ~(fate = "ok" /\ refused(t))
  <2>1. call' = After(p, fate, next(t))
    BY <1>2, <1>5
  <2>2. ASSUME fate = "ok", call' = next(t)
        PROVE  IInv'
    <3>1. Known(catalog[t])
      BY <1>5, <2>2 DEF Known
    <3> DEFINE r == pages(t)
    <3>2. PICK s \in {"list", "replace"} : s = step(t)
      OBVIOUS
    <3>3. s = "replace" <=> DOMAIN r = Templates
      BY <3>2
    <3>4. call' = [Going(p, s) EXCEPT ![p].reading = r]
      BY <2>2, <3>2
    <3> QED BY <1>1, <3>1, <3>3, <3>4, PageStep
  <2> QED BY <1>1, <1>3, <2>1, <2>2, PreservesAfter
<1> QED BY <1>4, <1>5

\* The reading becomes the cache: whoever checks a template has heard of it.
LEMMA ReplaceStep ==
  ASSUME IInv, NEW p \in Threads, Replace(p)
  PROVE  IInv'
<1>1. call[p].step = "replace" /\ UNCHANGED <<taken, catalog>> /\ cache' = call[p].reading
  BY DEF Replace, At
<1>2. call \in [Threads -> Calls] /\ call[p] \in Calls
  BY DEF IInv, TypeOK
<1>3. p \in Reading /\ Listening(p) /\ call[p].verdict = "open" /\ taken[p] = 0
  BY <1>1 DEF Reading, IInv, HeardOK, OneSend
<1>4. PICK c \in Calls : /\ call' = [call EXCEPT ![p] = c]
                         /\ \/ Stops(c)
                            \/ Moves(p, c) /\ c.step = "prepare"
  <2>1. CASE call[p].kind = "list"
    <3>1. call' = Ending(p, "open")
      BY <2>1 DEF Replace, Listed
    <3> QED BY <3>1, EndingIs DEF IInv, Verdicts
  <2>2. CASE call[p].kind # "list"
    <3> DEFINE c == [call[p] EXCEPT !.step = "prepare", !.tries = 1, !.reading = NoReading]
    <3>1. call' = [Going(p, "prepare") EXCEPT ![p].reading = NoReading]
      BY <2>2 DEF Replace, Listed
    <3>2. call' = [call EXCEPT ![p] = c]
      BY <1>2, <3>1 DEF Going, Calls
    <3>3. c \in Calls /\ c.step = "prepare" /\ Same(c, call[p])
      BY <1>2, EmptyReading DEF Calls, Steps, Same
    <3>4. Moves(p, c)
      BY <1>1, <3>3 DEF Moves
    <3> QED BY <3>2, <3>3, <3>4
  <2> QED BY <2>1, <2>2
<1>5. /\ call' \in [Threads -> Calls] /\ call'[p] = c
      /\ \A q \in Threads : q # p => call'[q] = call[q]
  BY <1>4, OtherCalls DEF IInv
<1>6. /\ \A t \in Templates : /\ <<t, cache'[t]>> \in call[p].heard
                              /\ Known(cache'[t])
      /\ cache' \in [Templates -> Entries]
  <2>1. DOMAIN call[p].reading = Templates
    BY <1>1, <1>3 DEF IInv, ReadingOK
  <2>2. cache' \in [Templates -> Entries]
    BY <1>1, <1>2, <2>1 DEF Calls, Readings
  <2> QED BY <1>1, <1>3, <2>1, <2>2 DEF IInv, ReadingOK
<1>7. TypeOK'
  BY <1>1, <1>5, <1>6 DEF IInv, TypeOK
<1>8. OneSend'
  BY <1>1, <1>4, <1>5 DEF IInv, OneSend, Moves, Stops, Same
<1>9. HeardOK'
  BY <1>1, <1>4, KeepsHeard DEF IInv
<1>10. SentOK'
  BY <1>4, KeepsSent DEF IInv
<1>11. ReadingOK'
  <2> SUFFICES ASSUME NEW q \in Reading'
               PROVE  /\ \A u \in DOMAIN call'[q].reading :
                           /\ <<u, call'[q].reading[u]>> \in call'[q].heard
                           /\ Known(call'[q].reading[u])
                      /\ call'[q].step = "replace" => DOMAIN call'[q].reading = Templates
    BY DEF ReadingOK, Known
  <2>1. q # p
    BY <1>4, <1>5 DEF Reading, Moves, Stops
  <2> QED BY <1>5, <2>1 DEF IInv, ReadingOK, Reading
<1>12. CacheOK'
  <2>1. ASSUME NEW q \in Threads, NEW t \in Templates,
               call'[q].kind = "template", call'[q].step = "prepare"
        PROVE  <<t, cache'[t]>> \in call'[q].heard
    <3>1. CASE q = p
      BY <1>4, <1>5, <1>6, <2>1, <3>1 DEF Moves, Stops, Same
    <3>2. CASE q # p
      <4>1. call'[q] = call[q] /\ Listening(q)
        BY <1>5, <2>1, <3>2 DEF IInv, HeardOK
      <4>2. call[p].heard \subseteq call[q].heard
        BY <1>3, <4>1 DEF IInv, HeardOK
      <4> QED BY <1>6, <4>1, <4>2
    <3> QED BY <3>1, <3>2
  <2> QED BY <1>6, <2>1 DEF CacheOK, Known
<1> QED BY <1>7, <1>8, <1>9, <1>10, <1>11, <1>12 DEF IInv

\* A call that begins has heard of the catalogue and of all that the readings
\* under way may hold; every other listening call has heard of that too.
LEMMA BeginStep ==
  ASSUME IInv, NEW p \in Threads, NEW kind \in Kinds, NEW t \in Templates,
         NEW P \in Parameters, NEW media \in MediaTypes, Begin(p, kind, t, P, media)
  PROVE  IInv'
<1> DEFINE news == Now \cup UNION {call[q].heard : q \in Reading}
           heard == IF kind \in {"text", "media"} THEN {} ELSE news
           c == [kind |-> kind, step |-> FirstStep(kind), tries |-> 1, verdict |-> "open",
                 template |-> t, parameters |-> P, media |-> media, reading |-> NoReading,
                 fits |-> FALSE, heard |-> heard]
<1>1. /\ call[p].step = "done" /\ UNCHANGED <<catalog, cache>>
      /\ call' = [call EXCEPT ![p] = c] /\ taken' = [taken EXCEPT ![p] = 0]
  BY DEF Begin, At
<1>2. call \in [Threads -> Calls] /\ taken \in [Threads -> {0, 1}]
  BY DEF IInv, TypeOK
<1>3. news \subseteq Templates \X Entries
  <2>1. Now \subseteq Templates \X Entries
    BY DEF Now, IInv, TypeOK
  <2>2. \A q \in Reading : call[q].heard \subseteq Templates \X Entries
    BY <1>2 DEF Reading, Calls
  <2> QED BY <2>1, <2>2
<1>4. /\ c.kind = kind /\ c.verdict = "open" /\ c.template = t /\ c.heard = heard
      /\ c.reading = NoReading /\ c.step = FirstStep(kind)
      /\ c.step \in {"post", "load", "list"}
      /\ c.step = "list" <=> kind \in {"template", "list"}
  BY DEF FirstStep, Kinds
<1>5. c \in Calls
  <2>1. heard \in SUBSET (Templates \X Entries)
    BY <1>3
  <2>2. c.step \in Steps
    BY <1>4 DEF Steps
  <2> HIDE DEF heard
  <2> QED BY <1>4, <2>1, <2>2, EmptyReading DEF Calls, Verdicts
<1> HIDE DEF c
<1>6. /\ call' \in [Threads -> Calls] /\ call'[p] = c
      /\ \A q \in Threads : q # p => call'[q] = call[q]
  BY <1>1, <1>2, <1>5
<1>7. TypeOK'
  BY <1>1, <1>2, <1>6 DEF IInv, TypeOK
<1>8. OneSend'
  BY <1>1, <1>2, <1>4, <1>6 DEF IInv, OneSend
<1>9. SentOK'
  BY <1>1, <1>4, <1>5, KeepsSent DEF IInv
<1>10. CacheOK'
  BY <1>1, <1>4, <1>6 DEF IInv, CacheOK, Known
<1>11. ReadingOK'
  <2> SUFFICES ASSUME NEW q \in Reading'
               PROVE  /\ \A u \in DOMAIN call'[q].reading :
                           /\ <<u, call'[q].reading[u]>> \in call'[q].heard
                           /\ Known(call'[q].reading[u])
                      /\ call'[q].step = "replace" => DOMAIN call'[q].reading = Templates
    BY DEF ReadingOK, Known
  <2>1. CASE q = p
    BY <1>4, <1>6, <2>1, EmptyReading
  <2>2. CASE q # p
    BY <1>6, <2>2 DEF IInv, ReadingOK, Reading
  <2> QED BY <2>1, <2>2
<1>12. HeardOK'
  <2>1. Now' = Now
    BY <1>1 DEF Now
  <2>2. ASSUME NEW q \in Threads
        PROVE  /\ call'[q].step \in {"list", "replace", "prepare"} => Listening(q)'
               /\ IF Listening(q)' THEN Now \subseteq call'[q].heard ELSE call'[q].heard = {}
               /\ Listening(q)' => call'[q].template \in Templates
    <3>1. CASE q = p
      <4>1. Listening(q)' <=> kind \in {"template", "list"}
        BY <1>4, <1>6, <3>1 DEF Listening
      <4>2. kind \in {"text", "media"} <=> kind \notin {"template", "list"}
        BY DEF Kinds
      <4> QED BY <1>4, <1>6, <3>1, <4>1, <4>2
    <3>2. CASE q # p
      BY <1>6, <3>2 DEF IInv, HeardOK, Listening
    <3> QED BY <3>1, <3>2
  <2>3. ASSUME NEW q \in Threads, NEW r \in Reading', Listening(q)'
        PROVE  call'[r].heard \subseteq call'[q].heard
    <3>1. CASE q = p /\ r = p
      BY <3>1
    <3>2. CASE q = p /\ r # p
      <4>1. r \in Reading /\ call'[r].heard = call[r].heard
        BY <1>6, <3>2 DEF Reading
      <4>2. call'[p].heard = news
        BY <1>4, <1>6, <2>3, <3>2 DEF Listening
      <4> QED BY <3>2, <4>1, <4>2
    <3>3. CASE q # p
      <4>1. Listening(q) /\ call'[q].heard = call[q].heard
        BY <1>6, <2>3, <3>3 DEF Listening
      <4>2. news \subseteq call[q].heard
        BY <4>1 DEF IInv, HeardOK
      <4>3. CASE r = p
        BY <1>4, <1>6, <4>1, <4>2, <4>3
      <4>4. CASE r # p
        BY <1>6, <4>1, <4>4 DEF IInv, HeardOK, Reading
      <4> QED BY <4>3, <4>4
    <3> QED BY <3>1, <3>2, <3>3
  <2> QED BY <2>1, <2>2, <2>3 DEF HeardOK
<1> QED BY <1>7, <1>8, <1>9, <1>10, <1>11, <1>12 DEF IInv

\* All who listen hear of a change of the catalogue.
LEMMA ChangeStep ==
  ASSUME IInv, NEW t \in Templates, NEW s \in Entries, ChangeCatalog(t, s)
  PROVE  IInv'
<1>1. /\ catalog' = [catalog EXCEPT ![t] = s] /\ UNCHANGED <<taken, cache>>
      /\ call' = [p \in Threads |->
           IF call[p].heard = {} THEN call[p]
           ELSE [call[p] EXCEPT !.heard = @ \cup {<<t, s>>}]]
  BY DEF ChangeCatalog
<1>2. call \in [Threads -> Calls] /\ catalog \in [Templates -> Entries]
  BY DEF IInv, TypeOK
<1>3. ASSUME NEW p \in Threads
      PROVE  /\ call'[p] \in Calls
             /\ call'[p].kind = call[p].kind /\ call'[p].step = call[p].step
             /\ call'[p].verdict = call[p].verdict /\ call'[p].template = call[p].template
             /\ call'[p].parameters = call[p].parameters /\ call'[p].media = call[p].media
             /\ call'[p].reading = call[p].reading
             /\ Listening(p)' <=> Listening(p)
             /\ call'[p].heard = IF Listening(p) THEN call[p].heard \cup {<<t, s>>} ELSE {}
  <2>1. call[p] \in Calls
    BY <1>2
  <2>2. Listening(p) <=> call[p].heard # {}
    <3>1. <<t, catalog[t]>> \in Now
      BY DEF Now
    <3> QED BY <3>1 DEF IInv, HeardOK
  <2>3. CASE call[p].heard = {}
    BY <1>1, <2>1, <2>2, <2>3 DEF Listening
  <2>4. CASE call[p].heard # {}
    <3> DEFINE c == [call[p] EXCEPT !.heard = @ \cup {<<t, s>>}]
    <3>1. call'[p] = c
      BY <1>1, <2>4
    <3>2. /\ c \in Calls
          /\ c.kind = call[p].kind /\ c.step = call[p].step
          /\ c.verdict = call[p].verdict /\ c.template = call[p].template
          /\ c.parameters = call[p].parameters /\ c.media = call[p].media
          /\ c.reading = call[p].reading
          /\ c.heard = call[p].heard \cup {<<t, s>>}
      BY <2>1 DEF Calls
    <3> HIDE DEF c
    <3> QED BY <2>2, <2>4, <3>1, <3>2 DEF Listening
  <2> QED BY <2>3, <2>4
<1>4. Now' \subseteq Now \cup {<<t, s>>}
  BY <1>1, <1>2 DEF Now
<1>5. Reading' = Reading
  BY <1>3 DEF Reading
<1>6. TypeOK'
  <2>1. call' \in [Threads -> Calls]
    BY <1>1, <1>3
  <2> QED BY <1>1, <1>2, <2>1 DEF IInv, TypeOK
<1>7. OneSend'
  BY <1>1, <1>3 DEF IInv, OneSend
<1>8. HeardOK'
  <2>1. ASSUME NEW p \in Threads
        PROVE  /\ call'[p].step \in {"list", "replace", "prepare"} => Listening(p)'
               /\ IF Listening(p)' THEN Now' \subseteq call'[p].heard
                  ELSE call'[p].heard = {}
               /\ Listening(p)' => call'[p].template \in Templates
    BY <1>3, <1>4 DEF IInv, HeardOK
  <2>2. ASSUME NEW p \in Threads, NEW q \in Reading, Listening(p)
        PROVE  call'[q].heard \subseteq call'[p].heard
    <3>1. Listening(q) /\ q \in Threads
      BY DEF IInv, HeardOK, Reading
    <3> QED BY <1>3, <2>2, <3>1 DEF IInv, HeardOK
  <2> QED BY <1>3, <1>5, <2>1, <2>2 DEF HeardOK
<1>9. ReadingOK'
  <2> SUFFICES ASSUME NEW q \in Reading
               PROVE  /\ \A u \in DOMAIN call'[q].reading :
                           /\ <<u, call'[q].reading[u]>> \in call'[q].heard
                           /\ Known(call'[q].reading[u])
                      /\ call'[q].step = "replace" => DOMAIN call'[q].reading = Templates
    BY <1>5 DEF ReadingOK, Known
  <2>1. Listening(q) /\ q \in Threads
    BY DEF IInv, HeardOK, Reading
  <2> QED BY <1>3, <2>1 DEF IInv, ReadingOK
<1>10. CacheOK'
  <2>1. ASSUME NEW p \in Threads, NEW u \in Templates,
               call'[p].kind = "template", call'[p].step = "prepare"
        PROVE  <<u, cache'[u]>> \in call'[p].heard
    <3>1. Listening(p)
      BY <1>3, <2>1 DEF IInv, HeardOK
    <3> QED BY <1>1, <1>3, <2>1, <3>1 DEF IInv, CacheOK
  <2> QED BY <1>1, <2>1 DEF IInv, CacheOK, Known
<1>11. SentOK'
  <2> SUFFICES ASSUME NEW p \in Threads, call'[p].kind = "template",
                      call'[p].step \in {"send", "load", "upload", "post"}
               PROVE  \E x \in Shapes : Fits(call'[p], x)
    BY DEF SentOK
  <2>1. PICK x \in Shapes : Fits(call[p], x)
    BY <1>3 DEF IInv, SentOK
  <2>2. Listening(p)
    BY <1>3 DEF Listening
  <2>3. Fits(call'[p], x)
    BY <1>3, <2>1, <2>2 DEF Fits
  <2> QED BY <2>3
<1> QED BY <1>6, <1>7, <1>8, <1>9, <1>10, <1>11 DEF IInv

LEMMA RestartStep ==
  ASSUME IInv, Restart
  PROVE  IInv'
<1>1. /\ UNCHANGED <<taken, catalog>> /\ cache' = [t \in Templates |-> Absent]
      /\ call' = [p \in Threads |->
                    IF At(p, "done") THEN call[p] ELSE Ending(p, "escaped")[p]]
  BY DEF Restart
<1>2. call \in [Threads -> Calls]
  BY DEF IInv, TypeOK
<1>3. ASSUME NEW p \in Threads
      PROVE  /\ call'[p] \in Calls
             /\ call'[p].step = "done" /\ call'[p].heard = {}
  <2>1. CASE At(p, "done")
    BY <1>1, <1>2, <2>1 DEF At, IInv, HeardOK, Listening
  <2>2. CASE ~At(p, "done")
    <3>1. PICK c \in Calls : Ending(p, "escaped") = [call EXCEPT ![p] = c] /\ Stops(c)
      BY EndingIs DEF IInv, Verdicts
    <3>2. call'[p] = c
      BY <1>1, <1>2, <2>2, <3>1
    <3> QED BY <3>1, <3>2 DEF Stops
  <2> QED BY <2>1, <2>2
<1>4. Reading' = {}
  BY <1>3 DEF Reading
<1>5. TypeOK'
  <2>1. call' \in [Threads -> Calls]
    BY <1>1, <1>3
  <2> QED BY <1>1, <2>1 DEF IInv, TypeOK, Entries
<1>6. OneSend' /\ SentOK'
  BY <1>3 DEF OneSend, SentOK
<1>7. HeardOK'
  BY <1>3, <1>4 DEF HeardOK, Listening
<1>8. ReadingOK'
  BY <1>4 DEF ReadingOK
<1>9. CacheOK'
  BY <1>1, <1>3 DEF CacheOK, Known
<1> QED BY <1>5, <1>6, <1>7, <1>8, <1>9 DEF IInv

LEMMA Inits ==
  ASSUME MetaInit
  PROVE  IInv
<1>1. /\ NoCall \in Calls /\ NoCall.step = "done" /\ NoCall.heard = {}
      /\ NoCall.verdict = "open"
  BY EmptyReading DEF NoCall, Calls, Kinds, MediaTypes, Steps, Verdicts
<1>2. \A p \in Threads : call[p] = NoCall
  BY DEF MetaInit
<1>3. TypeOK
  BY <1>1 DEF MetaInit, TypeOK, Entries
<1>4. Reading = {}
  BY <1>1, <1>2 DEF Reading
<1> QED BY <1>1, <1>2, <1>3, <1>4
     DEF IInv, OneSend, HeardOK, Listening, ReadingOK, CacheOK, Known, SentOK, MetaInit

LEMMA AdapterKept ==
  ASSUME IInv, UNCHANGED <<call, taken, catalog, cache>>
  PROVE  IInv'
<1>1. TypeOK' /\ OneSend'
  BY DEF IInv, TypeOK, OneSend
<1>2. Reading' = Reading /\ Now' = Now
  BY DEF Reading, Now
<1>3. HeardOK'
  BY <1>2 DEF IInv, HeardOK, Listening
<1>4. ReadingOK'
  BY <1>2 DEF IInv, ReadingOK, Known
<1>5. CacheOK' /\ SentOK'
  BY DEF IInv, CacheOK, SentOK, Fits, Known
<1> QED BY <1>1, <1>3, <1>4, <1>5 DEF IInv

LEMMA NextPreserves ==
  ASSUME IInv, [MetaNext]_metaVars
  PROVE  IInv'
<1>1. CASE UNCHANGED metaVars
  BY <1>1, AdapterKept DEF metaVars
<1>2. CASE \E p \in Threads :
             \E kind \in Kinds, t \in Templates, P \in Parameters, media \in MediaTypes :
               Begin(p, kind, t, P, media)
  BY <1>2, BeginStep
<1>3. CASE \E p \in Threads :
             \/ ListPage(p) \/ Replace(p) \/ Prepare(p) \/ SendTemplate(p)
             \/ LoadMedia(p) \/ UploadMedia(p) \/ Post(p)
  BY <1>3, ListStep, ReplaceStep, PrepareStep, SendTemplateStep, LoadStep, UploadStep, PostStep
<1>4. CASE \E t \in Templates, s \in Entries : ChangeCatalog(t, s)
  BY <1>4, ChangeStep
<1>5. CASE Restart
  BY <1>5, RestartStep
<1> QED BY <1>1, <1>2, <1>3, <1>4, <1>5 DEF MetaNext

\* The inductive invariant of the template cache: what a reading or a cache
\* holds was heard of by every call that can still use it.
THEOREM Invariance == MetaSpec => []IInv
<1>1. MetaInit => IInv
  BY Inits
<1>2. IInv /\ [MetaNext]_metaVars => IInv'
  BY NextPreserves
<1> QED BY <1>1, <1>2, PTL DEF MetaSpec

\* CRM-052: what is uploaded for or posted is a template that the catalogue held
\* in just that form, approved, since the call began or a reading under way at
\* that time did: for every number of threads that replace each other's cache.
THEOREM TemplatesAreCheckedCorrect == MetaSpec => []TemplatesAreChecked
<1>1. IInv => TemplatesAreChecked
  BY DEF IInv, SentOK, Fits, TemplatesAreChecked
<1> QED BY <1>1, Invariance, PTL

LEMMA CacheIsRead ==
  ASSUME IInv, MetaNext, cache' # cache
  PROVE  \/ \A t \in Templates : cache'[t] = Absent
         \/ \E p \in Reading : \A t \in Templates : <<t, cache'[t]>> \in call[p].heard
<1>1. CASE \E p \in Threads : Replace(p)
  <2>1. PICK p \in Threads : Replace(p)
    BY <1>1
  <2>2. p \in Reading /\ call[p].step = "replace" /\ cache' = call[p].reading
    BY <2>1 DEF Replace, At, Reading
  <2> QED BY <2>2 DEF IInv, ReadingOK
<1>2. CASE Restart
  BY <1>2 DEF Restart
<1>3. Restart \/ \E p \in Threads : Replace(p)
  BY DEF MetaNext, Begin, ListPage, Prepare, SendTemplate, LoadMedia, UploadMedia, Post,
         ChangeCatalog
<1> QED BY <1>1, <1>2, <1>3

\* CRM-009: no partial reading becomes the cache, however many threads read.
THEOREM CacheIsAReadingCorrect == MetaSpec => CacheIsAReading
<1> DEFINE Good == cache' # cache =>
             \/ \A t \in Templates : cache'[t] = Absent
             \/ \E p \in Reading : \A t \in Templates : <<t, cache'[t]>> \in call[p].heard
<1>1. ASSUME IInv, [MetaNext]_metaVars
      PROVE  [Good]_metaVars
  BY <1>1, CacheIsRead DEF metaVars
<1> QED BY <1>1, Invariance, PTL DEF MetaSpec, CacheIsAReading

-----------------------------------------------------------------------------
(* The contract.                                                           *)

\* The step gives p's call the verdict v.
Says(p, v) == \A q \in Threads : call'[q].verdict = IF q = p THEN v ELSE call[q].verdict
Quiet == {"open", "unknown", "failed", "escaped"}

LEMMA GoingSays ==
  ASSUME IInv, NEW p \in Threads, NEW s \in Steps, call[p].step # "done", call' = Going(p, s)
  PROVE  Says(p, "open")
<1>1. PICK c \in Calls : call' = [call EXCEPT ![p] = c] /\ Same(c, call[p])
  BY GoingIs DEF IInv
<1>2. call[p].verdict = "open"
  BY DEF IInv, OneSend
<1> QED BY <1>1, <1>2, OtherCalls DEF IInv, Says, Same

LEMMA EndingSays ==
  ASSUME IInv, NEW p \in Threads, NEW v \in Verdicts, call' = Ending(p, v)
  PROVE  Says(p, v)
<1>1. Ending(p, v)[p].verdict = v /\ \A q \in Threads : q # p => Ending(p, v)[q] = call[q]
  BY DEF IInv, TypeOK, Ending, NoCall
<1> QED BY <1>1 DEF Says

LEMMA AgainSays ==
  ASSUME IInv, NEW p \in Threads, call[p].step # "done", call' = [call EXCEPT ![p].tries = @ + 1]
  PROVE  Says(p, "open")
<1>1. PICK c \in Calls : call' = [call EXCEPT ![p] = c] /\ Same(c, call[p])
  BY AgainIs DEF IInv
<1>2. call[p].verdict = "open"
  BY DEF IInv, OneSend
<1> QED BY <1>1, <1>2, OtherCalls DEF IInv, Says, Same

LEMMA AfterSays ==
  ASSUME IInv, NEW p \in Threads, NEW fate \in Fates, NEW next, call[p].step # "done",
         call' = After(p, fate, next),
         fate = "ok" /\ call' = next => \E v \in Quiet : Says(p, v)
  PROVE  \E v \in Quiet : Says(p, v)
<1>1. CASE fate = "ok" /\ After(p, fate, next) = next
  BY <1>1
<1>2. CASE fate = "again" /\ After(p, fate, next) = [call EXCEPT ![p].tries = @ + 1]
  BY <1>2, AgainSays DEF Quiet
<1>3. CASE fate \in {"unknown", "failed", "escaped"} /\ After(p, fate, next) = Ending(p, fate)
  <2>1. fate \in Verdicts /\ fate \in Quiet
    BY <1>3 DEF Verdicts, Quiet
  <2> QED BY <1>3, <2>1, EndingSays
<1> QED BY <1>1, <1>2, <1>3, AfterOutcome

\* Whatever does not post leaves Meta's count alone, and claims no success.
LEMMA QuietSteps ==
  ASSUME IInv, NEW p \in Threads,
         \/ ListPage(p) \/ Replace(p) \/ Prepare(p) \/ SendTemplate(p)
         \/ LoadMedia(p) \/ UploadMedia(p)
  PROVE  /\ call[p].step # "done" /\ UNCHANGED taken
         /\ \E v \in Quiet : Says(p, v)
<1>1. call[p].step # "done" /\ UNCHANGED taken
  BY DEF ListPage, Replace, Prepare, SendTemplate, LoadMedia, UploadMedia, At
<1> SUFFICES \E v \in Quiet : Says(p, v)
  BY <1>1
<1>2. /\ call \in [Threads -> Calls] /\ call[p] \in Calls
      /\ call[p].verdict = "open"
  BY <1>1 DEF IInv, TypeOK, OneSend
<1>3. ASSUME call' = Ending(p, "failed") \/ \E s \in Steps : call' = Going(p, s)
      PROVE  \E v \in Quiet : Says(p, v)
  BY <1>1, <1>3, EndingSays, GoingSays DEF Verdicts, Quiet
<1>4. CASE ListPage(p)
  <2> DEFINE pages(t) == [u \in DOMAIN call[p].reading \cup {t} |->
                           IF u = t THEN catalog[t] ELSE call[p].reading[u]]
             next(t) == [Going(p, IF DOMAIN pages(t) = Templates THEN "replace" ELSE "list")
                           EXCEPT ![p].reading = pages(t)]
  <2>1. PICK answer \in Answers, t \in Templates :
          \/ call' = Ending(p, "failed")
          \/ call' = After(p, Fate("list", answer, call[p].tries), next(t))
    BY <1>4 DEF ListPage
  <2> DEFINE fate == Fate("list", answer, call[p].tries)
  <2>2. fate \in Fates
    BY FateType
  <2>3. ASSUME call' = next(t)
        PROVE  \E v \in Quiet : Says(p, v)
    <3>1. /\ call'[p].verdict = call[p].verdict
          /\ \A q \in Threads : q # p => call'[q] = call[q]
      BY <1>2, <2>3 DEF Going, Calls
    <3>2. Says(p, "open")
      BY <1>2, <3>1 DEF Says
    <3> QED BY <3>2 DEF Quiet
  <2>4. CASE call' = Ending(p, "failed")
    BY <1>3, <2>4
  <2>5. CASE call' = After(p, fate, next(t))
    BY <1>1, <2>2, <2>3, <2>5, AfterSays
  <2> QED BY <2>1, <2>4, <2>5
<1>5. CASE Replace(p)
  <2>1. CASE call' = Ending(p, "open")
    BY <2>1, EndingSays DEF Verdicts, Quiet
  <2>2. CASE call' = [Going(p, "prepare") EXCEPT ![p].reading = NoReading]
    <3>1. /\ call'[p].verdict = call[p].verdict
          /\ \A q \in Threads : q # p => call'[q] = call[q]
      BY <1>2, <2>2 DEF Going, Calls
    <3>2. Says(p, "open")
      BY <1>2, <3>1 DEF Says
    <3> QED BY <3>2 DEF Quiet
  <2> QED BY <1>5, <2>1, <2>2 DEF Replace, Listed
<1>6. CASE Prepare(p)
  <2>1. call' = Ending(p, "failed") \/ call' = Going(p, "send")
    BY <1>6 DEF Prepare
  <2> QED BY <1>3, <2>1 DEF Steps
<1>7. CASE SendTemplate(p)
  <2>1. \/ call' = Ending(p, "failed")
        \/ call' = Going(p, "post")
        \/ call' = [Going(p, "load") EXCEPT ![p].fits = Pictured(cache[call[p].template])]
    BY <1>7 DEF SendTemplate
  <2>2. CASE call' = [Going(p, "load") EXCEPT ![p].fits = Pictured(cache[call[p].template])]
    <3>1. /\ call'[p].verdict = call[p].verdict
          /\ \A q \in Threads : q # p => call'[q] = call[q]
      BY <1>2, <2>2 DEF Going, Calls
    <3>2. Says(p, "open")
      BY <1>2, <3>1 DEF Says
    <3> QED BY <3>2 DEF Quiet
  <2> QED BY <1>3, <2>1, <2>2 DEF Steps
<1>8. CASE LoadMedia(p)
  <2>1. call' = Ending(p, "failed") \/ call' = Going(p, "upload")
    BY <1>8 DEF LoadMedia
  <2> QED BY <1>3, <2>1 DEF Steps
<1>9. CASE UploadMedia(p)
  <2> DEFINE next == IF call[p].kind = "template" /\ ~call[p].fits
                     THEN Ending(p, "failed") ELSE Going(p, "post")
  <2>1. PICK answer \in Answers :
          call' = After(p, Fate("upload", answer, call[p].tries), next)
    BY <1>9 DEF UploadMedia
  <2> DEFINE fate == Fate("upload", answer, call[p].tries)
  <2>2. fate \in Fates
    BY FateType
  <2>3. next = Ending(p, "failed") \/ next = Going(p, "post")
    OBVIOUS
  <2> HIDE DEF next
  <2>4. ASSUME call' = next
        PROVE  \E v \in Quiet : Says(p, v)
    BY <1>3, <2>3, <2>4 DEF Steps
  <2> QED BY <1>1, <2>1, <2>2, <2>4, AfterSays
<1> QED BY <1>4, <1>5, <1>6, <1>7, <1>8, <1>9

verdicts == [p \in Threads |-> call[p].verdict]

LEMMA ContractStep ==
  ASSUME IInv, NEW p \in Threads, call[p].step # "done",
         NEW n \in {0, 1}, NEW v \in Verdicts, Says(p, v),
         taken' = [taken EXCEPT ![p] = n],
         v = "sent" => n = 1, v = "failed" => n = 0
  PROVE  Contract!Step(p)
<1>1. call[p].verdict = "open" /\ taken[p] = 0
  BY DEF IInv, OneSend
<1>2. verdicts' = [verdicts EXCEPT ![p] = v] /\ verdicts[p] = "open"
  BY <1>1 DEF verdicts, Says
<1>3. n \in {taken[p], 1} /\ v \in Contract!Verdicts \cup {"open"} /\ Contract!Truthful(v, n)
  BY <1>1 DEF Contract!Verdicts, Verdicts, Contract!Truthful
<1> QED BY <1>2, <1>3 DEF Contract!Step, verdicts

LEMMA PostIsStep ==
  ASSUME IInv, "oversized" \notin Answers, NEW p \in Threads, Post(p)
  PROVE  Contract!Step(p)
<1>1. call[p].step = "post"
  BY PostOutcome
<1>2. PICK answer \in Answers, n \in {0, 1} :
        /\ n \in Taking(answer)
        /\ taken' = [taken EXCEPT ![p] = n]
        /\ \/ answer = "ok" /\ call' = Ending(p, "sent")
           \/ answer \in {"unsent", "busy"} /\ call' = [call EXCEPT ![p].tries = @ + 1]
           \/ \E v \in {"unknown", "failed", "escaped"} :
                /\ call' = Ending(p, v)
                /\ v = "failed" => answer \in {"unsent", "busy", "refused", "expired", "oversized"}
  BY PostOutcome
<1>3. CASE answer = "ok" /\ call' = Ending(p, "sent")
  <2>1. n = 1
    BY <1>2, <1>3 DEF Taking
  <2>2. Says(p, "sent")
    BY <1>3, EndingSays DEF Verdicts
  <2> QED BY <1>1, <1>2, <2>1, <2>2, ContractStep DEF Verdicts
<1>4. CASE answer \in {"unsent", "busy"} /\ call' = [call EXCEPT ![p].tries = @ + 1]
  <2>1. Says(p, "open")
    BY <1>1, <1>4, AgainSays
  <2> QED BY <1>1, <1>2, <2>1, ContractStep DEF Verdicts
<1>5. CASE \E v \in {"unknown", "failed", "escaped"} :
             /\ call' = Ending(p, v)
             /\ v = "failed" => answer \in {"unsent", "busy", "refused", "expired", "oversized"}
  <2>1. PICK v \in {"unknown", "failed", "escaped"} :
             /\ call' = Ending(p, v)
             /\ v = "failed" => answer \in {"unsent", "busy", "refused", "expired", "oversized"}
    BY <1>5
  <2>2. v = "failed" => n = 0
    BY <1>2, <2>1 DEF Taking
  <2>3. v \in Verdicts /\ v # "sent"
    BY DEF Verdicts
  <2>4. Says(p, v)
    BY <2>1, <2>3, EndingSays
  <2> QED BY <1>1, <1>2, <2>2, <2>3, <2>4, ContractStep
<1> QED BY <1>2, <1>3, <1>4, <1>5

LEMMA RestartIsCrash ==
  ASSUME IInv, Restart
  PROVE  \E S \in SUBSET Threads : Contract!Crash(S)
<1> PICK S \in SUBSET Threads : S = {p \in Threads : call[p].step # "done"}
  OBVIOUS
<1>1. \A p \in S : verdicts[p] = "open"
  BY DEF IInv, OneSend, verdicts
<1>2. /\ UNCHANGED taken
      /\ call' = [p \in Threads |->
                    IF At(p, "done") THEN call[p] ELSE Ending(p, "escaped")[p]]
  BY DEF Restart
<1>3. \A p \in Threads : Ending(p, "escaped")[p].verdict = "escaped"
  BY DEF IInv, TypeOK, Ending, NoCall
<1>4. verdicts' = [p \in Threads |-> IF p \in S THEN "escaped" ELSE verdicts[p]]
  BY <1>2, <1>3 DEF verdicts, At
<1>5. Contract!Crash(S)
  BY <1>1, <1>2, <1>4 DEF Contract!Crash, verdicts
<1> QED BY <1>5

LEMMA ContractNext ==
  ASSUME IInv, "oversized" \notin Answers, [MetaNext]_metaVars
  PROVE  [Contract!Next]_(Contract!vars)
<1>1. CASE UNCHANGED metaVars
  BY <1>1 DEF metaVars, Contract!vars
<1>2. ASSUME NEW p \in Threads, NEW kind \in Kinds, NEW t \in Templates, NEW P \in Parameters,
             NEW media \in MediaTypes, Begin(p, kind, t, P, media)
      PROVE  Contract!Begin(p)
  <2>1. taken' = [taken EXCEPT ![p] = 0]
    BY <1>2 DEF Begin
  <2>2. call'[p].verdict = "open" /\ \A q \in Threads : q # p => call'[q] = call[q]
    BY <1>2 DEF Begin, IInv, TypeOK
  <2>3. verdicts' = [verdicts EXCEPT ![p] = "open"]
    BY <2>2 DEF verdicts
  <2> QED BY <2>1, <2>3 DEF Contract!Begin, verdicts
<1>3. ASSUME NEW p \in Threads,
             \/ ListPage(p) \/ Replace(p) \/ Prepare(p) \/ SendTemplate(p)
             \/ LoadMedia(p) \/ UploadMedia(p)
      PROVE  Contract!Step(p)
  <2>1. call[p].step # "done" /\ UNCHANGED taken
    BY <1>3, QuietSteps
  <2>2. PICK v \in Quiet : Says(p, v)
    BY <1>3, QuietSteps
  <2>3. taken' = [taken EXCEPT ![p] = 0]
    BY <2>1 DEF IInv, OneSend, TypeOK
  <2>4. v \in Verdicts /\ v # "sent"
    BY DEF Quiet, Verdicts
  <2> QED BY <2>1, <2>2, <2>3, <2>4, ContractStep
<1>4. CASE \E t \in Templates, s \in Entries : ChangeCatalog(t, s)
  <2>1. UNCHANGED taken /\ \A p \in Threads : call'[p].verdict = call[p].verdict
    BY <1>4 DEF ChangeCatalog, IInv, TypeOK, Calls
  <2> QED BY <2>1 DEF Contract!vars
<1>5. CASE Restart
  BY <1>5, RestartIsCrash DEF Contract!Next
<1>6. CASE \E p \in Threads, kind \in Kinds, t \in Templates, P \in Parameters,
              media \in MediaTypes : Begin(p, kind, t, P, media)
  BY <1>2, <1>6 DEF Contract!Next
<1>7. CASE \E p \in Threads :
             \/ ListPage(p) \/ Replace(p) \/ Prepare(p) \/ SendTemplate(p)
             \/ LoadMedia(p) \/ UploadMedia(p)
  BY <1>3, <1>7 DEF Contract!Next
<1>8. CASE \E p \in Threads : Post(p)
  BY <1>8, PostIsStep DEF Contract!Next
<1> QED BY <1>1, <1>4, <1>5, <1>6, <1>7, <1>8 DEF MetaNext

\* CRM-009: whatever is retried, and wherever the process dies, a call of the
\* adapter is one send, and a result or a definitive failure says truly whether
\* Meta took the message, as long as no response to a send is oversized.
THEOREM ImplementsContractCorrect ==
  ASSUME "oversized" \notin Answers
  PROVE  MetaSpec => ImplementsContract
<1>1. MetaInit => Contract!Init
  BY DEF MetaInit, Contract!Init, NoCall
<1>2. IInv /\ [MetaNext]_metaVars => [Contract!Next]_(Contract!vars)
  BY ContractNext
<1> QED BY <1>1, <1>2, Invariance, PTL DEF MetaSpec, ImplementsContract, Contract!Spec

-----------------------------------------------------------------------------
(* Media.                                                                  *)

RowStatuses == {"none", "PENDING", "AVAILABLE", "FAILED"}
Rows == [status : RowStatuses, key : Nat]
Reads == [stage : Stages, attachment : Attachments \cup {NoObject}, tries : Nat,
          again : BOOLEAN, held : RowStatuses, key : Nat]

StorageTypes ==
  /\ row \in [Attachments -> Rows]
  /\ read \in [Readers -> Reads]
  /\ writing \in Nat
  /\ objects \subseteq Nat /\ uploads \subseteq Nat

\* A download that is about to be recorded has its object.
RecordsItsObject(r) ==
  In(r, "record") => read[r].attachment \in Attachments /\ read[r].key \in objects

MediaInv ==
  /\ StorageTypes /\ AvailableIsComplete
  /\ \A r \in Readers : RecordsItsObject(r)

\* What a reader holds after one of its steps.
Becomes(r, c) == read' = [read EXCEPT ![r] = c]

LEMMA ToSays ==
  ASSUME StorageTypes, NEW r \in Readers, NEW stage \in Stages, To(r, stage)
  PROVE  \E c \in Reads : /\ Becomes(r, c) /\ c.stage = stage
                          /\ c.attachment = read[r].attachment /\ c.key = read[r].key
<1> DEFINE c == [read[r] EXCEPT !.stage = stage, !.tries = 1]
<1>1. read[r] \in Reads
  BY DEF StorageTypes
<1>2. /\ c \in Reads /\ c.stage = stage
      /\ c.attachment = read[r].attachment /\ c.key = read[r].key
  BY <1>1 DEF Reads
<1>3. Becomes(r, c)
  BY DEF To, Becomes
<1> QED BY <1>2, <1>3

LEMMA NoReaderSays == NoReader \in Reads /\ NoReader.stage = "idle"
BY DEF NoReader, Reads, RowStatuses, Stages, NoObject

\* A step of one reader: nothing is recorded that is not an object by then.
LEMMA ReaderStep ==
  ASSUME MediaInv, NEW r \in Readers, NEW c \in Reads, Becomes(r, c),
         c.stage = "record" => c.attachment \in Attachments /\ c.key \in objects',
         objects \subseteq objects', objects' \subseteq Nat, uploads' \subseteq Nat,
         writing' \in Nat, row' \in [Attachments -> Rows],
         \A a \in Attachments : row'[a].status = "AVAILABLE" =>
            row'[a].key \in objects' \/ row'[a] = row[a]
  PROVE  MediaInv'
<1>1. read' \in [Readers -> Reads] /\ read'[r] = c /\ \A q \in Readers \ {r} : read'[q] = read[q]
  BY DEF MediaInv, StorageTypes, Becomes
<1>2. StorageTypes'
  BY <1>1 DEF StorageTypes
<1>3. AvailableIsComplete'
  BY DEF MediaInv, AvailableIsComplete
<1>4. \A q \in Readers : RecordsItsObject(q)'
  BY <1>1 DEF MediaInv, RecordsItsObject, In
<1> QED BY <1>2, <1>3, <1>4 DEF MediaInv

\* A step of one reader that leaves rows and objects alone.
LEMMA ReaderMoves ==
  ASSUME MediaInv, NEW r \in Readers, NEW c \in Reads, Becomes(r, c), c.stage # "record",
         mediaKept
  PROVE  MediaInv'
BY ReaderStep DEF MediaInv, StorageTypes, mediaKept

LEMMA ReaderGoes ==
  ASSUME MediaInv, NEW r \in Readers, NEW stage \in Stages \ {"record"}, To(r, stage), mediaKept
  PROVE  MediaInv'
BY ToSays, ReaderMoves DEF MediaInv

LEMMA ReaderLeaves ==
  ASSUME MediaInv, NEW r \in Readers, Leave(r), mediaKept PROVE MediaInv'
BY NoReaderSays, ReaderMoves DEF Leave, Becomes

LEMMA AttemptedStep ==
  ASSUME MediaInv, NEW r \in Readers, NEW op, NEW answer,
         NEW next \in {"download", "write", "fail"}, Attempted(r, op, answer, next),
         read[r].stage # "record", mediaKept
  PROVE  MediaInv'
<1> DEFINE c == [read[r] EXCEPT !.tries = @ + 1]
<1>1. read[r] \in Reads
  BY DEF MediaInv, StorageTypes
<1>2. c \in Reads /\ c.stage = read[r].stage
  BY <1>1 DEF Reads
<1>3. CASE To(r, next)
  BY <1>3, ReaderGoes DEF Stages
<1>4. CASE To(r, "fail")
  BY <1>4, ReaderGoes DEF Stages
<1>5. CASE Leave(r)
  BY <1>5, ReaderLeaves
<1>6. CASE read' = [read EXCEPT ![r].tries = @ + 1]
  <2>1. Becomes(r, c)
    BY <1>6 DEF Becomes
  <2> QED BY <1>2, <2>1, ReaderMoves
<1> QED BY <1>3, <1>4, <1>5, <1>6 DEF Attempted

LEMMA OpenStep ==
  ASSUME MediaInv, NEW r \in Readers, NEW a \in Attachments, Open(r, a) PROVE MediaInv'
<1> DEFINE stage == CASE row[a].status = "AVAILABLE" -> "get"
                      [] a \in Inbound -> "resolve"
                      [] OTHER -> "idle"
           c == [NoReader EXCEPT !.attachment = a, !.held = row[a].status, !.key = row[a].key,
                                 !.stage = stage]
<1>1. Becomes(r, c) /\ mediaKept
  BY DEF Open, Becomes
<1>2. row[a].status \in RowStatuses /\ row[a].key \in Nat
  BY DEF MediaInv, StorageTypes, Rows
<1>3. stage \in Stages \ {"record"}
  BY DEF Stages
<1>4. c \in Reads /\ c.stage = stage
  <2> HIDE DEF stage
  <2> QED BY <1>2, <1>3 DEF NoReader, Reads
<1> HIDE DEF c, stage
<1> QED BY <1>1, <1>3, <1>4, ReaderMoves

LEMMA DownloadStep ==
  ASSUME MediaInv, NEW r \in Readers, Download(r) PROVE MediaInv'
<1>1. PICK answer \in Answers, next \in {"write", "fail"} :
        IF answer = "expired" /\ ~read[r].again
        THEN read' = [read EXCEPT ![r].stage = "resolve", ![r].tries = 1, ![r].again = TRUE]
        ELSE Attempted(r, "download", answer, next)
  BY DEF Download
<1>2. mediaKept /\ read[r].stage = "download" /\ read[r] \in Reads
  BY DEF Download, In, MediaInv, StorageTypes
<1>3. CASE Attempted(r, "download", answer, next)
  BY <1>2, <1>3, AttemptedStep
<1>4. CASE read' = [read EXCEPT ![r].stage = "resolve", ![r].tries = 1, ![r].again = TRUE]
  <2> DEFINE c == [read[r] EXCEPT !.stage = "resolve", !.tries = 1, !.again = TRUE]
  <2>1. Becomes(r, c)
    BY <1>4 DEF Becomes
  <2>2. c \in Reads /\ c.stage = "resolve"
    BY <1>2 DEF Reads, Stages
  <2> QED BY <1>2, <2>1, <2>2, ReaderMoves
<1> QED BY <1>1, <1>3, <1>4

\* An answer without an object.
LEMMA NotStoredSays ==
  ASSUME StorageTypes, NEW r \in Readers, NotStored(r)
  PROVE  \E c \in Reads : Becomes(r, c) /\ c.stage # "record"
<1>1. CASE To(r, "fail")
  BY <1>1, ToSays DEF Stages
<1>2. CASE Leave(r)
  BY <1>2, NoReaderSays DEF Leave, Becomes
<1> QED BY <1>1, <1>2 DEF NotStored

LEMMA WriteStep ==
  ASSUME MediaInv, NEW r \in Readers, Write(r) PROVE MediaInv'
<1>1. UNCHANGED <<row, objects, uploads>>
  BY DEF Write
<1>2. CASE /\ writing' = writing + 1
           /\ read' = [read EXCEPT ![r].stage = "promote", ![r].key = writing + 1]
  <2> DEFINE c == [read[r] EXCEPT !.stage = "promote", !.key = writing + 1]
  <2>1. Becomes(r, c)
    BY <1>2 DEF Becomes
  <2>2. read[r] \in Reads /\ writing + 1 \in Nat
    BY DEF MediaInv, StorageTypes
  <2>3. c \in Reads /\ c.stage = "promote"
    BY <2>2 DEF Reads, Stages
  <2> HIDE DEF c
  <2> QED BY <1>1, <1>2, <2>1, <2>2, <2>3, ReaderStep DEF MediaInv, StorageTypes
<1>3. CASE NotStored(r) /\ UNCHANGED writing
  BY <1>1, <1>3, NotStoredSays, ReaderMoves DEF MediaInv, mediaKept
<1> QED BY <1>2, <1>3 DEF Write

LEMMA PromoteStep ==
  ASSUME MediaInv, NEW r \in Readers, Promote(r) PROVE MediaInv'
<1>1. UNCHANGED <<row, writing>> /\ read[r] \in Reads /\ read[r].key \in Nat
  BY DEF Promote, MediaInv, StorageTypes, Reads
<1>2. objects' \in {objects, objects \cup {read[r].key}}
  BY DEF Promote
<1>3. objects \subseteq objects' /\ objects' \subseteq Nat
  BY <1>1, <1>2 DEF MediaInv, StorageTypes
<1>4. uploads' \subseteq Nat
  BY <1>1 DEF Promote, MediaInv, StorageTypes
<1>5. \E c \in Reads :
        /\ Becomes(r, c)
        /\ c.stage = "record" => c.attachment \in Attachments /\ c.key \in objects'
  <2>1. CASE NotStored(r)
    BY <2>1, NotStoredSays DEF MediaInv
  <2>2. CASE Leave(r)
    BY <2>2, NoReaderSays DEF Leave, Becomes
  <2>3. CASE /\ objects' = objects \cup {read[r].key}
             /\ read[r].attachment \in Attachments /\ To(r, "record")
    BY <2>3, ToSays DEF MediaInv, Stages
  <2> QED BY <2>1, <2>2, <2>3 DEF Promote
<1> QED BY <1>1, <1>3, <1>4, <1>5, ReaderStep DEF MediaInv, StorageTypes

LEMMA RecordStep ==
  ASSUME MediaInv, NEW r \in Readers, Record(r) PROVE MediaInv'
<1> DEFINE a == read[r].attachment
           new == [status |-> "AVAILABLE", key |-> read[r].key]
<1>1. /\ a \in Attachments /\ read[r].key \in objects /\ read[r].key \in Nat
      /\ To(r, "get") /\ UNCHANGED <<objects, uploads, writing>>
  BY DEF Record, MediaInv, RecordsItsObject, StorageTypes
<1>2. new \in Rows /\ new.key \in objects
  BY <1>1 DEF Rows, RowStatuses
<1>3. row' = row \/ row' = [row EXCEPT ![a] = new]
  BY DEF Record
<1>4. /\ row' \in [Attachments -> Rows]
      /\ \A b \in Attachments : row'[b] = row[b] \/ row'[b].key \in objects
  <2> HIDE DEF a, new
  <2> QED BY <1>1, <1>2, <1>3 DEF MediaInv, StorageTypes
<1>5. PICK c \in Reads : Becomes(r, c) /\ c.stage = "get"
  BY <1>1, ToSays DEF MediaInv, Stages
<1> QED BY <1>1, <1>4, <1>5, ReaderStep DEF MediaInv, StorageTypes

\* A row that is marked as failed is no longer available.
LEMMA MarkedRow ==
  ASSUME StorageTypes, NEW a, row' = row \/ row' = [row EXCEPT ![a].status = "FAILED"]
  PROVE  /\ row' \in [Attachments -> Rows]
         /\ \A b \in Attachments : row'[b].status = "AVAILABLE" => row'[b] = row[b]
<1> DEFINE new == [row[a] EXCEPT !.status = "FAILED"]
<1>1. CASE row' = row
  BY <1>1 DEF StorageTypes
<1>2. CASE row' = [row EXCEPT ![a] = new] /\ a \in Attachments
  <2>1. row[a] \in Rows
    BY <1>2 DEF StorageTypes
  <2>2. new \in Rows /\ new.status = "FAILED"
    BY <2>1 DEF Rows, RowStatuses
  <2> HIDE DEF new
  <2> QED BY <1>2, <2>2 DEF StorageTypes
<1>3. CASE row' = [row EXCEPT ![a] = new] /\ a \notin Attachments
  <2>1. row' = row
    BY <1>3 DEF StorageTypes
  <2> QED BY <1>1, <2>1
<1> QED BY <1>1, <1>2, <1>3

LEMMA MarkStep ==
  ASSUME MediaInv, NEW r \in Readers, MarkFailed(r) \/ MarkStorageFailed(r) PROVE MediaInv'
<1>1. /\ Leave(r) /\ UNCHANGED <<objects, uploads, writing>>
      /\ row' = row \/ row' = [row EXCEPT ![read[r].attachment].status = "FAILED"]
  BY DEF MarkFailed, MarkStorageFailed
<1>2. /\ row' \in [Attachments -> Rows]
      /\ \A b \in Attachments : row'[b].status = "AVAILABLE" => row'[b] = row[b]
  BY <1>1, MarkedRow DEF MediaInv
<1> QED BY <1>1, <1>2, NoReaderSays, ReaderStep DEF Leave, Becomes, MediaInv, StorageTypes

LEMMA AttachStep ==
  ASSUME MediaInv, NEW a \in Outbound, Attach(a) PROVE MediaInv'
<1>1. PICK key \in uploads :
        key \in objects /\ row' = [row EXCEPT ![a] = [status |-> "AVAILABLE", key |-> key]]
  BY DEF Attach
<1> DEFINE new == [status |-> "AVAILABLE", key |-> key]
<1>2. new \in Rows /\ new.key \in objects /\ a \in Attachments
  BY <1>1 DEF Rows, RowStatuses, MediaInv, StorageTypes, Attachments
<1>3. /\ row' \in [Attachments -> Rows]
      /\ \A b \in Attachments : row'[b] = row[b] \/ row'[b].key \in objects
  <2>1. row' = [row EXCEPT ![a] = new]
    BY <1>1
  <2> HIDE DEF new
  <2> QED BY <1>2, <2>1 DEF MediaInv, StorageTypes
<1>4. UNCHANGED <<objects, uploads, writing, read>>
  BY DEF Attach
<1>5. AvailableIsComplete'
  BY <1>3, <1>4 DEF MediaInv, AvailableIsComplete
<1> QED BY <1>3, <1>4, <1>5 DEF MediaInv, StorageTypes, RecordsItsObject, In

LEMMA MediaStep ==
  ASSUME MediaInv, [Next]_vars PROVE MediaInv'
<1>1. ASSUME NEW r \in Readers, NEW a \in Attachments, Open(r, a) PROVE MediaInv'
  BY <1>1, OpenStep
<1>2. ASSUME NEW r \in Readers, Resolve(r) PROVE MediaInv'
  BY <1>2, AttemptedStep DEF Resolve, In
<1>3. ASSUME NEW r \in Readers, Download(r) PROVE MediaInv'
  BY <1>3, DownloadStep
<1>4. ASSUME NEW r \in Readers, StartUpload(r) PROVE MediaInv'
  <2> DEFINE c == [NoReader EXCEPT !.stage = "write"]
  <2>1. Becomes(r, c) /\ mediaKept
    BY <1>4 DEF StartUpload, Becomes
  <2>2. c \in Reads /\ c.stage = "write"
    BY NoReaderSays DEF NoReader, Reads, Stages
  <2> HIDE DEF c
  <2> QED BY <2>1, <2>2, ReaderMoves
<1>5. ASSUME NEW r \in Readers, Write(r) \/ Promote(r) \/ Record(r) PROVE MediaInv'
  BY <1>5, WriteStep, PromoteStep, RecordStep
<1>6. ASSUME NEW r \in Readers, MarkFailed(r) \/ MarkStorageFailed(r) PROVE MediaInv'
  BY <1>6, MarkStep
<1>7. ASSUME NEW r \in Readers, Get(r) PROVE MediaInv'
  BY <1>7, ReaderLeaves, ReaderGoes DEF Get, Stages
<1>8. ASSUME NEW a \in Outbound, Attach(a) PROVE MediaInv'
  BY <1>8, AttachStep
<1>9. CASE Crash
  <2>1. read' = [r \in Readers |-> NoReader] /\ mediaKept
    BY <1>9 DEF Crash
  <2> QED BY <2>1, NoReaderSays
          DEF MediaInv, StorageTypes, AvailableIsComplete, RecordsItsObject, In, mediaKept
<1>10. CASE UNCHANGED mediaVars
  BY <1>10 DEF mediaVars, MediaInv, StorageTypes, AvailableIsComplete, RecordsItsObject, In
<1> QED
  BY <1>1, <1>2, <1>3, <1>4, <1>5, <1>6, <1>7, <1>8, <1>9, <1>10 DEF Next, MediaNext, vars

\* CRM-008: a row that says AVAILABLE names a complete object, for every number
\* of readers, uploads and attachments, wherever the process stops.
THEOREM AvailableIsCompleteCorrect == Spec => []AvailableIsComplete
<1>1. Init => MediaInv
  <2> SUFFICES ASSUME Init PROVE MediaInv
    OBVIOUS
  <2>1. StorageTypes
    BY NoReaderSays DEF Init, StorageTypes, Rows, RowStatuses, NoObject
  <2>2. AvailableIsComplete
    BY DEF Init, AvailableIsComplete
  <2>3. \A r \in Readers : RecordsItsObject(r)
    BY NoReaderSays DEF Init, RecordsItsObject, In
  <2> QED BY <2>1, <2>2, <2>3 DEF MediaInv
<1>2. MediaInv /\ [Next]_vars => MediaInv'
  BY MediaStep
<1>3. MediaInv => AvailableIsComplete
  BY DEF MediaInv
<1> QED BY <1>1, <1>2, <1>3, PTL DEF Spec

-----------------------------------------------------------------------------
(* Both together, as the runs check them.                                  *)

\* What media does never shows in the adapter: they share only the bounds.
LEMMA AdapterSteps ==
  ASSUME [Next]_vars PROVE MetaNext \/ UNCHANGED <<call, taken, catalog, cache>>
<1>1. \A r \in Readers, a \in Attachments : Open(r, a) => UNCHANGED <<call, taken, catalog, cache>>
  BY DEF Open
<1>2. ASSUME NEW r \in Readers,
             \/ Resolve(r) \/ Download(r) \/ StartUpload(r) \/ Write(r) \/ Promote(r)
             \/ Record(r) \/ MarkFailed(r) \/ Get(r) \/ MarkStorageFailed(r)
      PROVE  UNCHANGED <<call, taken, catalog, cache>>
  BY <1>2 DEF Resolve, Download, StartUpload, Write, Promote, Record, MarkFailed, Get,
              MarkStorageFailed, metaKept, metaVars
<1>3. \A a \in Outbound : Attach(a) => UNCHANGED <<call, taken, catalog, cache>>
  BY DEF Attach, metaKept, metaVars
<1>4. Crash \/ UNCHANGED vars => UNCHANGED <<call, taken, catalog, cache>>
  BY DEF Crash, metaKept, vars, metaVars
<1> QED BY <1>1, <1>2, <1>3, <1>4 DEF Next, MediaNext

\* The adapter keeps its promises while attachments are read and uploaded.
THEOREM ProviderWithMedia ==
  /\ Spec => []TemplatesAreChecked
  /\ Spec => CacheIsAReading
  /\ "oversized" \notin Answers => (Spec => ImplementsContract)
<1>1. Init => IInv
  BY Inits DEF Init
<1>2. IInv /\ [Next]_vars => IInv'
  BY AdapterSteps, AdapterKept, NextPreserves DEF metaVars
<1>3. IInv => TemplatesAreChecked
  BY DEF IInv, SentOK, Fits, TemplatesAreChecked
<1>4. Spec => [](IInv /\ TemplatesAreChecked)
  BY <1>1, <1>2, <1>3, PTL DEF Spec
<1>5. Spec => CacheIsAReading
  <2> DEFINE Good == cache' # cache =>
               \/ \A t \in Templates : cache'[t] = Absent
               \/ \E p \in Reading : \A t \in Templates : <<t, cache'[t]>> \in call[p].heard
  <2>1. IInv /\ [Next]_vars => [Good]_metaVars
    <3>1. ASSUME IInv, MetaNext PROVE Good
      BY <3>1, CacheIsRead
    <3>2. UNCHANGED cache => Good
      OBVIOUS
    <3> QED BY <3>1, <3>2, AdapterSteps
  <2> QED BY <1>4, <2>1, PTL DEF Spec, CacheIsAReading
<1>6. ASSUME "oversized" \notin Answers PROVE Spec => ImplementsContract
  <2>1. Init => Contract!Init
    BY DEF Init, MetaInit, Contract!Init, NoCall
  <2>2. IInv /\ [Next]_vars => [Contract!Next]_(Contract!vars)
    <3>1. UNCHANGED <<call, taken, catalog, cache>> => UNCHANGED Contract!vars
      BY DEF Contract!vars
    <3>2. IInv /\ MetaNext => [Contract!Next]_(Contract!vars)
      BY <1>6, ContractNext
    <3> QED BY <3>1, <3>2, AdapterSteps
  <2> QED BY <1>4, <2>1, <2>2, PTL DEF Spec, ImplementsContract, Contract!Spec
<1>7. Spec => []TemplatesAreChecked
  BY <1>4, PTL
<1> QED BY <1>5, <1>6, <1>7
=============================================================================
