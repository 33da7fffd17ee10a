---------------------------- MODULE MetaProvider ----------------------------
(***************************************************************************)
(* The adapter of the Meta Cloud API: the bounded retries of the Graph     *)
(* client, the messages that are sent through it with their media uploads, *)
(* and the process-local catalogue of templates, which threads read page   *)
(* by page and replace as a whole.  A human template message is prepared   *)
(* from a reading of its own before it is sent.                            *)
(*                                                                         *)
(* Meta and the network are outside: an attempt of a request has one of    *)
(* the Answers, and the catalogue changes when Meta says so.               *)
(***************************************************************************)
EXTENDS Integers, FiniteSets

CONSTANTS
  Threads,     \* threads of the process, each in one call at a time
  Templates,   \* template names, with their language
  Recontact,   \* the configured recontact templates
  HelloWorld,  \* the templates named hello_world, Meta's sample
  Shapes,      \* what a template of the catalogue may look like
  Absent,      \* no template
  Parameters,  \* parameter sets a user may fill in
  Answers,     \* what may become of an attempt
  MaxTries,    \* retry_max_attempts
  SnapshotLimit,  \* _MAX_TEMPLATE_SNAPSHOT_ITEMS
  Budgets      \* bounds: a behaviour has one of these budgets of calls begun,
               \* changes of the catalogue and attachments read

Headers == {"NONE", "TEXT", "IMAGE", "DOCUMENT"}  \* TemplateHeaderType
MediaTypes == {"NONE", "IMAGE", "DOCUMENT"}  \* of the media given for a header
Kinds == {"text", "media", "template", "list"}
Steps == {"list", "replace", "prepare", "send", "load", "upload", "post", "done"}
AllAnswers == {"ok", "garbled", "refused", "expired", "busy", "unsent", "lost", "oversized",
               "broken"}

ASSUME MetaAssumption ==
  /\ Answers \subseteq AllAnswers
  /\ MaxTries \in Nat \ {0} /\ SnapshotLimit \in Nat
  /\ Budgets \subseteq [{"calls", "changes", "reads"} -> Nat]
  /\ Recontact \subseteq Templates /\ Absent \notin Shapes
  /\ Shapes \subseteq [approved : BOOLEAN, marketing : BOOLEAN, named : BOOLEAN,
                       header : Headers \cup {"VIDEO"}, buttons : BOOLEAN,
                       parameters : Parameters]

VARIABLES
  call,     \* per thread: the call it is in; its "heard" is all that the catalogue
            \* has held since the call began, or since a reading then under way did
  taken,    \* per thread: how often Meta took the message of that call
  catalog,  \* Meta's templates
  cache,    \* MetaTemplateSnapshotCache
  budget    \* what is left of the bounds

metaVars == <<call, taken, catalog, cache, budget>>

Entries == Shapes \cup {Absent}

-----------------------------------------------------------------------------
(* One attempt of a request: MetaGraphClient._request and what the callers *)
(* make of a success.                                                      *)

\* Connecting failed, or Meta asks to try again later.  After a transmission
\* only a request that cannot have sent a message is repeated.
Retryable(op, answer) == answer \in {"unsent", "busy"} \/ (answer = "lost" /\ op # "post")

\* Mutant: a lost answer is an error like any other.
FateOfLost(op, answer, tries) ==
  CASE answer = "ok" -> "ok"
    [] op = "post" /\ answer = "garbled" -> "unknown"
    [] Retryable(op, answer) /\ tries < MaxTries -> "again"
    [] answer = "broken" -> "escaped"
    [] OTHER -> "failed"

\* What becomes of the request.  A garbled success of a send may have sent; an
\* oversized response is a failure; what the transport does not turn into its
\* own error escapes.
Fate(op, answer, tries) ==
  CASE answer = "ok" -> "ok"
    [] op = "post" /\ answer \in {"lost", "garbled"} -> "unknown"
    [] Retryable(op, answer) /\ tries < MaxTries -> "again"
    [] answer = "broken" -> "escaped"
    [] OTHER -> "failed"

\* Whether Meta may have taken a message it answers like this.
Taking(answer) ==
  CASE answer \in {"ok", "garbled", "oversized"} -> {1}
    [] answer \in {"lost", "broken"} -> {0, 1}
    [] OTHER -> {0}

-----------------------------------------------------------------------------
NoReading == [t \in {} |-> Absent]
NoCall == [kind |-> "text", step |-> "done", tries |-> 1, verdict |-> "open",
           template |-> CHOOSE t \in Templates : TRUE, parameters |-> {}, media |-> "NONE",
           reading |-> NoReading, heard |-> {}, fits |-> FALSE]

MetaInit ==
  /\ call = [p \in Threads |-> NoCall]
  /\ taken = [p \in Threads |-> 0]
  /\ catalog \in [Templates -> Entries]
  /\ cache = [t \in Templates |-> Absent]
  /\ budget \in Budgets

Spend(what) == budget[what] > 0 /\ budget' = [budget EXCEPT ![what] = @ - 1]

At(p, step) == call[p].step = step
Going(p, step) == [call EXCEPT ![p].step = step, ![p].tries = 1]
Ending(p, v) == [call EXCEPT ![p] = [NoCall EXCEPT !.verdict = v]]

\* The step after an attempt: another one, the next step, or the end.
After(p, fate, next) ==
  CASE fate = "again" -> [call EXCEPT ![p].tries = @ + 1]
    [] fate = "ok" -> next
    [] OTHER -> Ending(p, fate)

Now == {<<t, catalog[t]>> : t \in Templates}
Reading == {p \in Threads : call[p].step \in {"list", "replace"}}

FirstStep(kind) ==
  CASE kind = "text" -> "post" [] kind = "media" -> "load" [] OTHER -> "list"

\* A route calls the adapter, or prepare_send first.
Begin(p, kind, t, P, media) ==
  /\ At(p, "done") /\ Spend("calls")
  /\ kind # "template" => P = {} /\ media = "NONE" /\ t = NoCall.template
  /\ call' = [call EXCEPT ![p] =
       [kind |-> kind, step |-> FirstStep(kind), tries |-> 1, verdict |-> "open", template |-> t,
        parameters |-> P, media |-> media, reading |-> NoReading, fits |-> FALSE,
        heard |-> IF kind \in {"text", "media"} THEN {}
                  ELSE Now \cup UNION {call[q].heard : q \in Reading}]]
  /\ taken' = [taken EXCEPT ![p] = 0]
  /\ UNCHANGED <<catalog, cache>>

-----------------------------------------------------------------------------
(* Templates.                                                              *)

\* header_media_required
Pictured(s) == s.header \in {"IMAGE", "DOCUMENT"}
\* WhatsAppHumanTemplateService._media_type: what its header asks for
HeaderMedia(s) == IF Pictured(s) THEN s.header ELSE "NONE"

\* _template_definition: which templates send_template can express.
Supported(s) ==
  /\ ~s.buttons
  /\ s.parameters # {} => s.named

UsableMarketing(t, s) ==  \* Mutant: marketing templates too
  t \notin HelloWorld /\ s # Absent /\ s.approved /\ Supported(s)
\* WhatsAppHumanTemplateService._is_usable, on the cached snapshot
Usable(t, s) ==
  /\ t \notin HelloWorld /\ s # Absent
  /\ s.marketing => t \in Recontact
  /\ s.approved /\ Supported(s)

Items(reading) == Cardinality({t \in DOMAIN reading : reading[t] # Absent})

\* A page of _fetch_all_templates, with one template or, for one that the
\* catalogue does not hold, none.  A template seen before, one too many, or one
\* with a header format the adapter does not know is an error for the whole
\* reading, which is then dropped.
ListPage(p) ==
  /\ At(p, "list")
  /\ \E answer \in Answers, t \in Templates :
       LET old == call[p].reading
           fate == Fate("list", answer, call[p].tries)
           read == [u \in DOMAIN old \cup {t} |-> IF u = t THEN catalog[t] ELSE old[u]]
           whole == DOMAIN read = Templates
           refused == /\ catalog[t] # Absent
                      /\ \/ t \in DOMAIN old /\ old[t] # Absent
                         \/ Items(read) > SnapshotLimit
                         \/ catalog[t].header \notin Headers
       IN /\ catalog[t] # Absent \/ t \notin DOMAIN old
          /\ call' = IF fate = "ok" /\ refused THEN Ending(p, "failed")
                     ELSE After(p, fate, [Going(p, IF whole THEN "replace" ELSE "list")
                                            EXCEPT ![p].reading = read])
  /\ UNCHANGED <<taken, catalog, cache, budget>>

\* list_templates returns, to the route or to prepare_send.
Listed(p) ==
  IF call[p].kind = "list" THEN Ending(p, "open")
  ELSE [Going(p, "prepare") EXCEPT ![p].reading = NoReading]

\* MetaTemplateSnapshotCache.replace
Replace(p) ==
  /\ At(p, "replace")
  /\ cache' = call[p].reading
  /\ call' = Listed(p)
  /\ UNCHANGED <<taken, catalog, budget>>

\* prepare_send on what list_templates returns, the cache as it is by then: the
\* parameters are those of the template, and the media is of the type that its
\* header asks for.
Prepare(p) ==
  LET t == call[p].template
      s == cache[t]
  IN
  /\ At(p, "prepare")
  /\ call' = IF /\ Usable(t, s)
                /\ s.parameters = call[p].parameters
                /\ call[p].media = HeaderMedia(s)
             THEN Going(p, "send") ELSE Ending(p, "failed")
  /\ UNCHANGED <<taken, catalog, cache, budget>>

\* send_template against the cache.  Whether the header takes media it looks at
\* after their upload, and it does not compare their types: media go out under
\* the type of the header that the cache now shows.
SendTemplate(p) ==
  LET s == cache[call[p].template]
      accepted == /\ s # Absent /\ s.approved /\ Supported(s)
                  /\ s.parameters = call[p].parameters
  IN
  /\ At(p, "send")
  /\ call' = CASE accepted /\ call[p].media # "NONE" ->
                    [Going(p, "load") EXCEPT ![p].fits = Pictured(s)]
               [] accepted /\ ~Pictured(s) -> Going(p, "post")
               [] OTHER -> Ending(p, "failed")
  /\ UNCHANGED <<taken, catalog, cache, budget>>

\* Meta approves, pauses, changes, adds or removes a template.
ChangeCatalog(t, s) ==
  /\ s # catalog[t] /\ Spend("changes")
  /\ catalog' = [catalog EXCEPT ![t] = s]
  /\ call' = [p \in Threads |->
       IF call[p].heard = {} THEN call[p] ELSE [call[p] EXCEPT !.heard = @ \cup {<<t, s>>}]]
  /\ UNCHANGED <<taken, cache>>

-----------------------------------------------------------------------------
(* Media and messages.                                                     *)

\* _resolve_outbound_media_id reads the stored object.
LoadMedia(p) ==
  /\ At(p, "load")
  /\ \E stored \in BOOLEAN :
       call' = IF stored THEN Going(p, "upload") ELSE Ending(p, "failed")
  /\ UNCHANGED <<taken, catalog, cache, budget>>

UploadMedia(p) ==
  /\ At(p, "upload")
  /\ \E answer \in Answers :
       call' = After(p, Fate("upload", answer, call[p].tries),
                     IF call[p].kind = "template" /\ ~call[p].fits
                     THEN Ending(p, "failed") ELSE Going(p, "post"))
  /\ UNCHANGED <<taken, catalog, cache, budget>>

\* _send
Post(p) ==
  /\ At(p, "post")
  /\ \E answer \in Answers, n \in {0, 1} :
       /\ n \in Taking(answer)
       /\ call' = After(p, Fate("post", answer, call[p].tries), Ending(p, "sent"))
       /\ taken' = [taken EXCEPT ![p] = @ + n]
  /\ UNCHANGED <<catalog, cache, budget>>

\* The process dies, and with it its cache.
Restart ==
  /\ \E p \in Threads : ~At(p, "done")
  /\ call' = [p \in Threads |-> IF At(p, "done") THEN call[p] ELSE Ending(p, "escaped")[p]]
  /\ cache' = [t \in Templates |-> Absent]
  /\ UNCHANGED <<taken, catalog, budget>>

MetaNext ==
  \/ \E p \in Threads :
       \/ \E kind \in Kinds, t \in Templates, P \in Parameters, media \in MediaTypes :
            Begin(p, kind, t, P, media)
       \/ ListPage(p) \/ Replace(p) \/ Prepare(p) \/ SendTemplate(p)
       \/ LoadMedia(p) \/ UploadMedia(p) \/ Post(p)
  \/ \E t \in Templates, s \in Entries : ChangeCatalog(t, s)
  \/ Restart

MetaSpec == MetaInit /\ [][MetaNext]_metaVars

-----------------------------------------------------------------------------
(* Properties                                                              *)

Contract == INSTANCE SendContract WITH
  verdict <- [p \in Threads |-> call[p].verdict]

\* CRM-009: "a timeout/reset after request transmission, an ambiguous success
\* body, or any lost acceptance response maps to unknown acceptance and is never
\* automatically retried".  Whatever the retries do, a call of the adapter is one
\* send: Meta takes its message at most once, a result and a definitive failure
\* say truly whether it did.
ImplementsContract == Contract!Spec

\* CRM-052: the endpoint "continues to validate the selected name, language,
\* approval, sendability, parameters and header media against a fresh provider
\* snapshot before dispatch".  Whatever other threads read meanwhile, a template
\* that is uploaded for or posted was, since its request or a reading under way
\* at that time began, approved, sendable, not for marketing unless it is the
\* recontact template, with those parameters and a header for just that type of
\* media.
TemplatesAreChecked ==
  \A p \in Threads :
    call[p].kind = "template" /\ call[p].step \in {"load", "upload", "post"} =>
      \E s \in Shapes :
        /\ <<call[p].template, s>> \in call[p].heard
        /\ s.approved /\ ~s.buttons /\ s.header \in Headers
        /\ call[p].template \notin HelloWorld
        /\ s.marketing => call[p].template \in Recontact
        /\ s.parameters = call[p].parameters
        /\ call[p].media = HeaderMedia(s)

\* CRM-009: "missing entries are never inferred from a partial/failed
\* pagination".  Whoever replaces the cache replaces it by what the catalogue
\* held while it was read, template by template.
CacheIsAReading ==
  [][cache' # cache =>
       \/ \A t \in Templates : cache'[t] = Absent
       \/ \E p \in Reading : \A t \in Templates : <<t, cache'[t]>> \in call[p].heard]_metaVars
=============================================================================
