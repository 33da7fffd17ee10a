-------------------------------- MODULE Media --------------------------------
(***************************************************************************)
(* Attachments and the objects that hold their content.  A reader opens an *)
(* attachment; one that is not available is downloaded from Meta, stored   *)
(* and recorded first, between two transactions on its row, and an object  *)
(* that cannot be read is recorded as failed.  An outbound attachment      *)
(* refers to an object uploaded before.                                    *)
(*                                                                         *)
(* A reader's session keeps the row as its first transaction read it: the  *)
(* second one locks the row again but does not refresh it, so that its     *)
(* checks see the first reading and it writes only what differs from it.   *)
(***************************************************************************)
EXTENDS MetaProvider

CONSTANTS
  Readers,   \* requests for the content of an attachment, or uploads
  Inbound,   \* attachments of inbound messages, with a provider media id
  Outbound,  \* attachments of outbound messages
  Objects    \* storage keys, 1 .. n: bound on objects stored

ASSUME MediaAssumption == Objects = 1..Cardinality(Objects) /\ Inbound \cap Outbound = {}

Attachments == Inbound \cup Outbound
NoObject == 0
Stages == {"idle", "resolve", "download", "write", "promote", "record", "fail", "get", "mark"}

VARIABLES
  row,      \* per attachment: storage_status and storage_key
  objects,  \* keys of complete objects
  uploads,  \* those a route has answered with
  writing,  \* greatest key given out
  read      \* per reader: where it is and what it holds

mediaVars == <<row, objects, uploads, writing, read>>
vars == <<metaVars, mediaVars>>

NoReader == [stage |-> "idle", attachment |-> NoObject, tries |-> 1, again |-> FALSE,
             held |-> "PENDING", key |-> NoObject]

Init ==
  /\ MetaInit
  /\ row = [a \in Attachments |->
              [status |-> IF a \in Inbound THEN "PENDING" ELSE "none", key |-> NoObject]]
  /\ objects = {} /\ uploads = {} /\ writing = 0
  /\ read = [r \in Readers |-> NoReader]

-----------------------------------------------------------------------------
In(r, stage) == read[r].stage = stage
To(r, stage) == read' = [read EXCEPT ![r].stage = stage, ![r].tries = 1]
Leave(r) == read' = [read EXCEPT ![r] = NoReader]
mediaKept == UNCHANGED <<row, objects, uploads, writing>>
metaKept == UNCHANGED metaVars

\* WhatsAppMediaService.download, first transaction: an available attachment is
\* read at once; one without a provider media id cannot be downloaded.
Open(r, a) ==
  /\ In(r, "idle") /\ row[a].status # "none" /\ Spend("reads")
  /\ read' = [read EXCEPT ![r] =
       [NoReader EXCEPT !.attachment = a, !.held = row[a].status, !.key = row[a].key,
          !.stage = CASE row[a].status = "AVAILABLE" -> "get"
                      [] a \in Inbound -> "resolve"
                      [] OTHER -> "idle"]]
  /\ mediaKept
  /\ UNCHANGED <<call, taken, catalog, cache>>

\* The attempts of one request of download_media, and the stage after it: an
\* error of the provider is recorded, another one is not.
Attempted(r, op, answer, next) ==
  LET fate == Fate(op, answer, read[r].tries) IN
  CASE fate = "ok" -> To(r, next)
    [] fate = "again" -> read' = [read EXCEPT ![r].tries = @ + 1]
    [] fate = "escaped" -> Leave(r)
    [] OTHER -> To(r, "fail")

\* _resolve_media; the size Meta declares may exceed the limit.
Resolve(r) ==
  /\ In(r, "resolve")
  /\ \E answer \in Answers, next \in {"download", "fail"} : Attempted(r, "resolve", answer, next)
  /\ mediaKept /\ metaKept

\* The temporary URL may have expired, which the second resolution forgives
\* once.  Type, length and checksum may not match, and the content may not pass
\* the media policy.
Download(r) ==
  /\ In(r, "download")
  /\ \E answer \in Answers, next \in {"write", "fail"} :
       IF answer = "expired" /\ ~read[r].again
       THEN read' = [read EXCEPT ![r].stage = "resolve", ![r].tries = 1, ![r].again = TRUE]
       ELSE Attempted(r, "download", answer, next)
  /\ mediaKept /\ metaKept

\* WhatsAppApiMediaService.upload of content that passes the media policy.
StartUpload(r) ==
  /\ In(r, "idle") /\ Spend("reads")
  /\ read' = [read EXCEPT ![r] = [NoReader EXCEPT !.stage = "write"]]
  /\ mediaKept
  /\ UNCHANGED <<call, taken, catalog, cache>>

\* An upload answers with an error, a download is recorded as failed.
NotStored(r) == IF read[r].attachment \in Attachments THEN To(r, "fail") ELSE Leave(r)

\* Mutant: the row is recorded before the directory is renamed.
RecordUnfinished(r) ==
  /\ In(r, "write") /\ writing + 1 \in Objects
  /\ writing' = writing + 1
  /\ read' = [read EXCEPT ![r].key = writing + 1,
                          ![r].stage = IF read[r].attachment \in Attachments
                                       THEN "record" ELSE "promote"]
  /\ UNCHANGED <<row, objects, uploads>> /\ metaKept

\* FilesystemMediaStorage.put under a new reference: content and metadata are
\* written to a temporary directory of their own, or cannot be.
Write(r) ==
  /\ In(r, "write")
  /\ \/ /\ writing + 1 \in Objects
        /\ writing' = writing + 1
        /\ read' = [read EXCEPT ![r].stage = "promote", ![r].key = writing + 1]
     \/ NotStored(r) /\ UNCHANGED writing
  /\ UNCHANGED <<row, objects, uploads>> /\ metaKept

\* The directory is renamed to its final name, which makes the object; an error
\* may follow yet.
Promote(r) ==
  /\ In(r, "promote")
  /\ \/ /\ objects' = objects \cup {read[r].key}
        /\ IF read[r].attachment \in Attachments
           THEN To(r, "record") /\ UNCHANGED uploads
           ELSE Leave(r) /\ uploads' = uploads \cup {read[r].key}
     \/ /\ objects' \in {objects, objects \cup {read[r].key}}
        /\ NotStored(r) /\ UNCHANGED uploads
  /\ UNCHANGED <<row, writing>> /\ metaKept

\* An outbound message is created with an uploaded object.
Attach(a) ==
  /\ row[a].status = "none"
  /\ \E key \in uploads :
       /\ key \in objects
       /\ row' = [row EXCEPT ![a] = [status |-> "AVAILABLE", key |-> key]]
  /\ UNCHANGED <<objects, uploads, writing, read>> /\ metaKept

\* Second transaction of a download: the status it looks at is the one it held.
Record(r) ==
  /\ In(r, "record")
  /\ row' = IF read[r].held = "AVAILABLE" THEN row
            ELSE [row EXCEPT ![read[r].attachment] =
                    [status |-> "AVAILABLE", key |-> read[r].key]]
  /\ To(r, "get")
  /\ UNCHANGED <<objects, uploads, writing>> /\ metaKept

\* _mark_failed, likewise; a status that was FAILED when it was read is not
\* written again.
MarkFailed(r) ==
  /\ In(r, "fail")
  /\ row' = IF read[r].held \in {"AVAILABLE", "FAILED"} THEN row
            ELSE [row EXCEPT ![read[r].attachment].status = "FAILED"]
  /\ Leave(r)
  /\ UNCHANGED <<objects, uploads, writing>> /\ metaKept

\* read_attachment reads the object and checks it against its metadata and the
\* media policy; it is answered, or cannot be.
Get(r) ==
  /\ In(r, "get")
  /\ \/ read[r].key \in objects /\ Leave(r)
     \/ To(r, "mark")
  /\ mediaKept /\ metaKept

\* mark_storage_failed's expected_storage_key.
MarksItsOwn(r) == row[read[r].attachment].key = read[r].key

\* mark_storage_failed; the row is read afresh.
MarkStorageFailed(r) ==
  /\ In(r, "mark")
  /\ row' = IF MarksItsOwn(r) THEN [row EXCEPT ![read[r].attachment].status = "FAILED"] ELSE row
  /\ Leave(r)
  /\ UNCHANGED <<objects, uploads, writing>> /\ metaKept

\* The process dies, and leaves at most a temporary directory behind.
Crash ==
  /\ \E r \in Readers : ~In(r, "idle")
  /\ read' = [r \in Readers |-> NoReader]
  /\ mediaKept /\ metaKept

MediaNext ==
  \/ \E r \in Readers :
       \/ \E a \in Attachments : Open(r, a)
       \/ Resolve(r) \/ Download(r) \/ StartUpload(r) \/ Write(r) \/ Promote(r)
       \/ Record(r) \/ MarkFailed(r) \/ Get(r) \/ MarkStorageFailed(r)
  \/ \E a \in Outbound : Attach(a)
  \/ Crash

Next ==
  \/ MetaNext /\ UNCHANGED mediaVars
  \/ MediaNext

Spec == Init /\ [][Next]_vars

-----------------------------------------------------------------------------
(* Properties                                                              *)

\* CRM-008: "Partial objects are never treated as available": a row that says
\* AVAILABLE names an object that is complete, at whatever point a reader, an
\* upload or the process stops.
AvailableIsComplete ==
  \A a \in Attachments : row[a].status = "AVAILABLE" => row[a].key \in objects

\* CRM-008: "Concurrent reconciliation must lock/recheck the attachment and never
\* downgrade `AVAILABLE`": only an unreadable object makes it unavailable.
NeverDowngraded ==
  [][\A a \in Attachments :
       row[a].status = "AVAILABLE" /\ row'[a].status # "AVAILABLE" =>
         \E r \in Readers : In(r, "mark") /\ read[r].attachment = a]_vars
=============================================================================
