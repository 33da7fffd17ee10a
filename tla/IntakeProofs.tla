----------------------------- MODULE IntakeProofs -----------------------------
(***************************************************************************)
(* Theorems of Intake for every number of requests, ids and customers: no  *)
(* key is in two hands, and so a submission or a command that is sent      *)
(* again, or twice at once, is answered with the opportunity it made; keys *)
(* are taken in one order, so that nobody waits in a cycle of keys; no two *)
(* live customers share a signal but by hand, and an import does to each   *)
(* customer what its preview showed, since a match is made under the keys  *)
(* of its signals and the rows it found stay locked.                       *)
(***************************************************************************)
EXTENDS Intake, Inductions, TLAPS

Fields ==
  {"kind", "id", "profile", "rest", "asked", "target", "batch", "item", "plan", "step",
   "wanted", "held", "rows", "found", "outcome", "answer"}
IdKinds == {"lead", "manual", "chosen"}
Deciding == {"email", "phone", "decide", "row", "flag", "commit"}
IdKey(q) == <<"id", q.id>>

\* The record of the request's id is what it is answered with.
Recorded(q) ==
  /\ q.id \in DOMAIN ledger
  /\ ledger[q.id].payload = Payload(q) /\ ledger[q.id].opportunity = q.answer

\* A request for an id has the key of the id from the lookup to the end, and
\* nobody records the id while it decides.
IdOK(q) ==
  /\ q.item = 0
  /\ q.step = "locks" => IdKey(q) \in q.held \cup q.wanted
  /\ q.step \in {"lookup"} \cup Deciding => IdKey(q) \in q.held
  /\ q.step \in Deciding => q.id \notin DOMAIN ledger
  /\ q.step \in {"locks", "lookup"} \cup Deciding => q.outcome = "open"
  /\ q.outcome \in {"created", "replayed"} => Recorded(q)

RequestOK(q) ==
  /\ DOMAIN q = Fields /\ q.outcome # "constraint"
  /\ q.kind \in IdKinds => IdOK(q)

KeysAreExclusive == \A r, s \in Requests : r # s => req[r].held \cap req[s].held = {}

LedgerOK ==
  /\ \E S : opportunities \in Seq(S)
  /\ \A i \in DOMAIN ledger :
       /\ ledger[i].opportunity \in 1..Len(opportunities)
       /\ opportunities[ledger[i].opportunity].id = i
  /\ \A o \in 1..Len(opportunities) :
       /\ opportunities[o].id \in DOMAIN ledger
       /\ ledger[opportunities[o].id].opportunity = o

IInv ==
  /\ DOMAIN req = Requests /\ \A r \in Requests : RequestOK(req[r])
  /\ KeysAreExclusive
  /\ LedgerOK

-----------------------------------------------------------------------------
\* One request moves, and nothing is recorded.
LEMMA OneMoves ==
  ASSUME IInv, NEW r \in Requests, NEW q, RequestOK(q),
         req' = [req EXCEPT ![r] = q], UNCHANGED <<ledger, opportunities>>,
         \A s \in Requests \ {r} : q.held \cap req[s].held = {}
  PROVE  IInv'
<1>1. /\ DOMAIN req' = Requests /\ req'[r] = q
      /\ \A s \in Requests \ {r} : req'[s] = req[s]
  BY DEF IInv
<1>2. \A s \in Requests : RequestOK(req'[s])
  BY <1>1 DEF IInv
<1>3. \A s \in Requests : RequestOK(req[s])'
  BY <1>2 DEF RequestOK, IdOK, Recorded, Payload, IdKey
<1>4. KeysAreExclusive'
  BY <1>1 DEF IInv, KeysAreExclusive
<1>5. LedgerOK'
  BY DEF IInv, LedgerOK
<1> QED BY <1>1, <1>3, <1>4, <1>5 DEF IInv

\* It keeps its keys, or gives some back.
LEMMA KeepsKeys ==
  ASSUME IInv, NEW r \in Requests, NEW q, RequestOK(q), q.held \subseteq req[r].held,
         req' = [req EXCEPT ![r] = q], UNCHANGED <<ledger, opportunities>>
  PROVE  IInv'
<1>1. \A s \in Requests \ {r} : q.held \cap req[s].held = {}
  BY DEF IInv, KeysAreExclusive
<1> QED BY <1>1, OneMoves

LEMMA EndedIs ==
  ASSUME NEW q, DOMAIN q = Fields, NEW outcome, NEW answer
  PROVE  LET e == Ended(q, outcome, answer) IN
         /\ DOMAIN e = Fields /\ e.step = "done" /\ e.held = {} /\ e.item = 0
         /\ e.outcome = outcome /\ e.answer = answer
         /\ e.kind = q.kind /\ e.id = q.id /\ Payload(e) = Payload(q)
BY DEF Ended, Fields, Payload

LEMMA FailStep ==
  ASSUME IInv, NEW r \in Requests, NEW outcome, Fail(r, outcome),
         outcome \notin {"constraint", "created", "replayed"}
  PROVE  IInv'
<1> DEFINE q == Ended(req[r], outcome, 0)
<1>1. DOMAIN req[r] = Fields
  BY DEF IInv, RequestOK
<1>2. /\ DOMAIN q = Fields /\ q.step = "done" /\ q.held = {} /\ q.item = 0
      /\ q.outcome = outcome /\ q.kind = req[r].kind /\ q.id = req[r].id
  BY <1>1, EndedIs
<1>3. req' = [req EXCEPT ![r] = q] /\ UNCHANGED <<ledger, opportunities>>
  BY DEF Fail, Finish
<1> HIDE DEF q
<1>4. RequestOK(q)
  BY <1>2 DEF RequestOK, IdOK, Deciding
<1> QED BY <1>2, <1>3, <1>4, KeepsKeys

\* A step of a request that only moves on, with its keys.
LEMMA Advances ==
  ASSUME IInv, NEW r \in Requests, NEW q, Advance(r, q), DOMAIN q = Fields,
         q.held = req[r].held, q.kind = req[r].kind, q.id = req[r].id,
         q.outcome = req[r].outcome,
         \/ req[r].kind \notin IdKinds
         \/ /\ q.item = 0 /\ q.step \in Deciding
            /\ req[r].step \in {"lookup"} \cup Deciding
            /\ req[r].step = "lookup" => q.id \notin DOMAIN ledger
  PROVE  IInv'
<1>1. req' = [req EXCEPT ![r] = q] /\ UNCHANGED <<ledger, opportunities>>
  BY DEF Advance
<1>2. RequestOK(req[r])
  BY DEF IInv
<1>3. q.outcome # "constraint" /\ q.held \subseteq req[r].held
  BY <1>2 DEF RequestOK
<1>4. ASSUME q.kind \in IdKinds
      PROVE  IdOK(q)
  <2>1. IdOK(req[r])
    BY <1>2, <1>4 DEF RequestOK
  <2>2. q.outcome = "open" /\ IdKey(q) \in q.held /\ q.id \notin DOMAIN ledger
    BY <1>4, <2>1 DEF IdOK, IdKey
  <2> QED BY <1>4, <2>2 DEF IdOK, Deciding
<1>5. RequestOK(q)
  BY <1>3, <1>4 DEF RequestOK
<1> QED BY <1>1, <1>3, <1>5, KeepsKeys

-----------------------------------------------------------------------------
(* Requests begin.                                                         *)

LEMMA IdleIs ==
  /\ DOMAIN Idle = Fields /\ Idle.held = {} /\ Idle.kind = "idle" /\ Idle.item = 0
  /\ Idle.outcome = "open" /\ Idle.step = "ready"
BY DEF Idle, Fields

LEMMA Begins ==
  ASSUME IInv, NEW r \in Requests, NEW q, Begin(r, q), DOMAIN q = Fields, q.held = {},
         q.outcome = "open",
         q.kind \in IdKinds => q.item = 0 /\ q.step = "locks" /\ IdKey(q) \in q.wanted
  PROVE  IInv'
<1>1. req' = [req EXCEPT ![r] = q] /\ UNCHANGED <<ledger, opportunities>>
  BY DEF Begin, Advance
<1>2. RequestOK(q)
  BY DEF RequestOK, IdOK, Deciding
<1> QED BY <1>1, <1>2, KeepsKeys

LEMMA RequestedStep ==
  ASSUME IInv, NEW r \in Requests, Requested(r)
  PROVE  IInv'
<1>1. ASSUME NEW i, NEW p, NEW x, BeginLead(r, i, p, x) \/ BeginManual(r, i, p, x)
      PROVE  IInv'
  <2>1. PICK kind \in {"lead", "manual"} :
          Begin(r, [Idle EXCEPT !.kind = kind, !.id = i, !.profile = p, !.rest = x,
                      !.wanted = LockKeys(i, p), !.step = "locks"])
    BY <1>1 DEF BeginLead, BeginManual
  <2> DEFINE q == [Idle EXCEPT !.kind = kind, !.id = i, !.profile = p, !.rest = x,
                     !.wanted = LockKeys(i, p), !.step = "locks"]
  <2>2. /\ DOMAIN q = Fields /\ q.held = {} /\ q.outcome = "open" /\ q.item = 0
        /\ q.step = "locks" /\ q.wanted = LockKeys(i, p) /\ q.id = i
    BY IdleIs DEF Fields
  <2> HIDE DEF q
  <2>3. IdKey(q) \in q.wanted
    BY <2>2 DEF IdKey, LockKeys
  <2> QED BY <2>1, <2>2, <2>3, Begins DEF q
<1>2. ASSUME NEW i, NEW c, NEW x, BeginChosen(r, i, c, x)
      PROVE  IInv'
  <2> DEFINE q == [Idle EXCEPT !.kind = "chosen", !.id = i, !.rest = x, !.asked = c,
                     !.wanted = {<<"id", i>>}, !.step = "locks"]
  <2>1. Begin(r, q)
    BY <1>2 DEF BeginChosen
  <2>2. /\ DOMAIN q = Fields /\ q.held = {} /\ q.outcome = "open" /\ q.item = 0
        /\ q.step = "locks" /\ q.wanted = {<<"id", i>>} /\ q.id = i
    BY IdleIs DEF Fields
  <2> HIDE DEF q
  <2>3. IdKey(q) \in q.wanted
    BY <2>2 DEF IdKey
  <2> QED BY <2>1, <2>2, <2>3, Begins
<1>3. ASSUME NEW b, NEW i, BeginImport(r, b, i)
      PROVE  IInv'
  <2> DEFINE q == [Idle EXCEPT !.kind = "import", !.batch = b, !.id = i,
                     !.wanted = {<<"batch", b>>}, !.step = "locks"]
  <2>1. Begin(r, q)
    BY <1>3 DEF BeginImport
  <2>2. DOMAIN q = Fields /\ q.held = {} /\ q.outcome = "open" /\ q.kind = "import"
    BY IdleIs DEF Fields
  <2> HIDE DEF q
  <2> QED BY <2>1, <2>2, Begins DEF IdKinds
<1>4. ASSUME NEW c, NEW p, BeginEdit(r, c, p)
      PROVE  IInv'
  <2> DEFINE q == [Idle EXCEPT !.kind = "edit", !.asked = c, !.profile = p, !.step = "row"]
  <2>1. req' = [req EXCEPT ![r] = q] /\ UNCHANGED <<ledger, opportunities>>
    BY <1>4 DEF BeginEdit
  <2>2. DOMAIN q = Fields /\ q.held = {} /\ q.outcome = "open" /\ q.kind = "edit"
    BY IdleIs DEF Fields
  <2> HIDE DEF q
  <2>3. RequestOK(q)
    BY <2>2 DEF RequestOK, IdKinds
  <2> QED BY <2>1, <2>2, <2>3, KeepsKeys
<1>5. ASSUME BeginRecompute(r)
      PROVE  IInv'
  <2> DEFINE q == [Idle EXCEPT !.kind = "job", !.target = 1, !.item = Len(customers),
                                !.step = "flag"]
  <2>1. Begin(r, q)
    BY <1>5 DEF BeginRecompute
  <2>2. DOMAIN q = Fields /\ q.held = {} /\ q.outcome = "open" /\ q.kind = "job"
    BY IdleIs DEF Fields
  <2> HIDE DEF q
  <2> QED BY <2>1, <2>2, Begins DEF IdKinds
<1> QED BY <1>1, <1>2, <1>3, <1>4, <1>5 DEF Requested

-----------------------------------------------------------------------------
(* Requests go on.                                                         *)

LEMMA TakeKeyStep ==
  ASSUME IInv, NEW r \in Requests, TakeKey(r)
  PROVE  IInv'
<1> DEFINE k == NextKey(req[r].kind, req[r].wanted)
           rest == req[r].wanted \ {k}
           q == [req[r] EXCEPT !.held = @ \cup {k}, !.wanted = rest,
                   !.step = IF rest # {} THEN "locks"
                            ELSE IF req[r].item = 0 THEN "lookup" ELSE "email"]
<1>1. /\ req[r].step = "locks" /\ Holders(r, k) = {}
      /\ req' = [req EXCEPT ![r] = q] /\ UNCHANGED <<ledger, opportunities>>
  BY DEF TakeKey, Advance
<1>2. RequestOK(req[r])
  BY DEF IInv
<1>3. /\ DOMAIN q = Fields /\ q.kind = req[r].kind /\ q.id = req[r].id
      /\ q.item = req[r].item /\ q.outcome = req[r].outcome
      /\ q.held = req[r].held \cup {k} /\ q.wanted = rest
      /\ q.step = IF rest # {} THEN "locks"
                  ELSE IF req[r].item = 0 THEN "lookup" ELSE "email"
  BY <1>2 DEF RequestOK, Fields
<1>4. ASSUME NEW s \in Requests \ {r}
      PROVE  q.held \cap req[s].held = {}
  <2>1. k \notin req[s].held
    BY <1>1 DEF Holders, Others
  <2> HIDE DEF q, k
  <2> QED BY <1>3, <2>1 DEF IInv, KeysAreExclusive
<1> HIDE DEF q, k
<1>5. ASSUME q.kind \in IdKinds
      PROVE  IdOK(q)
  <2>1. IdOK(req[r]) /\ req[r].item = 0
    BY <1>2, <1>3, <1>5 DEF RequestOK, IdOK
  <2>2. /\ IdKey(q) \in q.held \cup q.wanted
        /\ q.step = IF q.wanted # {} THEN "locks" ELSE "lookup"
        /\ q.outcome = "open" /\ q.item = 0
    BY <1>1, <1>3, <2>1 DEF IdOK, IdKey
  <2> QED BY <2>2 DEF IdOK, Deciding
<1>6. RequestOK(q)
  BY <1>2, <1>3, <1>5 DEF RequestOK
<1> QED BY <1>1, <1>4, <1>6, OneMoves

LEMMA TakeFlagKeyStep ==
  ASSUME IInv, NEW r \in Requests, TakeFlagKey(r)
  PROVE  IInv'
<1> DEFINE keys == FlagKeys(req[r].target)
           q == [req[r] EXCEPT !.held = @ \cup keys,
                               !.step = IF req[r].kind = "job" THEN "row" ELSE "commit"]
<1>1. /\ req[r].step = "flag" /\ \A k \in keys : Holders(r, k) = {}
      /\ req' = [req EXCEPT ![r] = q] /\ UNCHANGED <<ledger, opportunities>>
  BY DEF TakeFlagKey, Advance
<1>2. RequestOK(req[r])
  BY DEF IInv
<1>3. /\ DOMAIN q = Fields /\ q.kind = req[r].kind /\ q.id = req[r].id
      /\ q.item = req[r].item /\ q.outcome = req[r].outcome
      /\ q.held = req[r].held \cup keys
      /\ q.step = IF req[r].kind = "job" THEN "row" ELSE "commit"
  BY <1>2 DEF RequestOK, Fields
<1>4. ASSUME NEW s \in Requests \ {r}
      PROVE  q.held \cap req[s].held = {}
  <2>1. keys \cap req[s].held = {}
    BY <1>1 DEF Holders, Others
  <2> HIDE DEF q, keys
  <2> QED BY <1>3, <2>1 DEF IInv, KeysAreExclusive
<1> HIDE DEF q, keys
<1>5. ASSUME q.kind \in IdKinds
      PROVE  IdOK(q)
  <2>1. IdOK(req[r])
    BY <1>2, <1>3, <1>5 DEF RequestOK
  <2>2. /\ IdKey(q) \in q.held /\ q.step = "commit" /\ q.id \notin DOMAIN ledger
        /\ q.outcome = "open" /\ q.item = 0
    BY <1>1, <1>3, <1>5, <2>1 DEF IdOK, IdKey, Deciding, IdKinds
  <2> QED BY <2>2 DEF IdOK
<1>6. RequestOK(q)
  BY <1>2, <1>3, <1>5 DEF RequestOK
<1> QED BY <1>1, <1>4, <1>6, OneMoves

\* The durable record answers, refuses or lets pass.
LEMMA LookUpStep ==
  ASSUME IInv, NEW r \in Requests, LookUp(r)
  PROVE  IInv'
<1>1. /\ req[r].step = "lookup" /\ req[r].kind \in IdKinds
  BY DEF LookUp, IdKinds
<1>2. RequestOK(req[r]) /\ IdOK(req[r])
  BY <1>1 DEF IInv, RequestOK
<1>3. CASE /\ req[r].id \in DOMAIN ledger
           /\ ledger[req[r].id].payload = Payload(req[r])
  <2> DEFINE q == Ended(req[r], "replayed", ledger[req[r].id].opportunity)
  <2>1. req' = [req EXCEPT ![r] = q] /\ UNCHANGED <<ledger, opportunities>>
    BY <1>3 DEF LookUp, Finish
  <2>2. /\ DOMAIN q = Fields /\ q.step = "done" /\ q.held = {} /\ q.item = 0
        /\ q.outcome = "replayed" /\ q.answer = ledger[req[r].id].opportunity
        /\ q.kind = req[r].kind /\ q.id = req[r].id /\ Payload(q) = Payload(req[r])
    BY <1>2, EndedIs DEF RequestOK
  <2> HIDE DEF q
  <2>3. RequestOK(q)
    BY <1>3, <2>2 DEF RequestOK, IdOK, Recorded, Deciding
  <2> QED BY <2>1, <2>2, <2>3, KeepsKeys
<1>4. CASE \/ Fail(r, "conflict") \/ Fail(r, "denied")
  BY <1>4, FailStep
<1>5. CASE /\ req[r].id \notin DOMAIN ledger
           /\ \E step \in {"row", "email"} : Advance(r, [req[r] EXCEPT !.step = step])
  <2>1. PICK step \in {"row", "email"} : Advance(r, [req[r] EXCEPT !.step = step])
    BY <1>5
  <2> DEFINE q == [req[r] EXCEPT !.step = step]
  <2>2. /\ DOMAIN q = Fields /\ q.kind = req[r].kind /\ q.id = req[r].id
        /\ q.item = req[r].item /\ q.outcome = req[r].outcome /\ q.held = req[r].held
        /\ q.step = step
    BY <1>2 DEF RequestOK, Fields
  <2>3. Advance(r, q)
    BY <2>1
  <2> HIDE DEF q
  <2>4. q.item = 0 /\ q.step \in Deciding
    BY <1>2, <2>2 DEF IdOK, Deciding
  <2> QED BY <1>1, <1>5, <2>2, <2>3, <2>4, Advances
<1> QED BY <1>3, <1>4, <1>5 DEF LookUp

\* A request that holds its locks moves on among the steps of a decision.
LEMMA DecidingMoves ==
  ASSUME IInv, NEW r \in Requests, NEW q, Advance(r, q),
         DOMAIN q = Fields, q.held = req[r].held, q.kind = req[r].kind, q.id = req[r].id,
         q.outcome = req[r].outcome, q.item = req[r].item,
         req[r].step \in Deciding, q.step \in Deciding
  PROVE  IInv'
<1>1. req[r].kind \in IdKinds => req[r].item = 0
  BY DEF IInv, RequestOK, IdOK
<1>2. req[r].step # "lookup"
  BY DEF Deciding
<1> QED BY <1>1, <1>2, Advances

LEMMA MatchSteps ==
  ASSUME IInv, NEW r \in Requests,
         \/ LockEmailMatches(r) \/ LockPhoneMatches(r)
         \/ DecideLead(r) \/ DecideManual(r) \/ LockChosen(r)
  PROVE  IInv'
<1>1. DOMAIN req[r] = Fields
  BY DEF IInv, RequestOK
<1>2. CASE LockEmailMatches(r)
  <2>1. PICK rows, found : Advance(r, [req[r] EXCEPT !.rows = rows, !.found = found,
                                                    !.step = "phone"])
    BY <1>2 DEF LockEmailMatches
  <2> DEFINE q == [req[r] EXCEPT !.rows = rows, !.found = found, !.step = "phone"]
  <2>2. /\ DOMAIN q = Fields /\ q.held = req[r].held /\ q.kind = req[r].kind
        /\ q.id = req[r].id /\ q.outcome = req[r].outcome /\ q.item = req[r].item
        /\ q.step = "phone"
    BY <1>1 DEF Fields
  <2>3. Advance(r, q) /\ req[r].step = "email"
    BY <1>2, <2>1 DEF LockEmailMatches
  <2> HIDE DEF q
  <2> QED BY <2>2, <2>3, DecidingMoves DEF Deciding
<1>3. CASE LockPhoneMatches(r)
  <2>1. PICK rows, found : Advance(r, [req[r] EXCEPT !.rows = rows, !.found = found,
                                                    !.step = "decide"])
    BY <1>3 DEF LockPhoneMatches
  <2> DEFINE q == [req[r] EXCEPT !.rows = rows, !.found = found, !.step = "decide"]
  <2>2. /\ DOMAIN q = Fields /\ q.held = req[r].held /\ q.kind = req[r].kind
        /\ q.id = req[r].id /\ q.outcome = req[r].outcome /\ q.item = req[r].item
        /\ q.step = "decide"
    BY <1>1 DEF Fields
  <2>3. Advance(r, q) /\ req[r].step = "phone"
    BY <1>3, <2>1 DEF LockPhoneMatches
  <2> HIDE DEF q
  <2> QED BY <2>2, <2>3, DecidingMoves DEF Deciding
<1>4. CASE DecideLead(r)
  <2>1. CASE Fail(r, "ambiguous")
    BY <2>1, FailStep
  <2>2. CASE ~Fail(r, "ambiguous")
    <3>1. PICK target : Advance(r, [req[r] EXCEPT !.step = "flag", !.target = target])
      BY <1>4, <2>2 DEF DecideLead
    <3> DEFINE q == [req[r] EXCEPT !.step = "flag", !.target = target]
    <3>2. /\ DOMAIN q = Fields /\ q.held = req[r].held /\ q.kind = req[r].kind
          /\ q.id = req[r].id /\ q.outcome = req[r].outcome /\ q.item = req[r].item
          /\ q.step = "flag"
      BY <1>1 DEF Fields
    <3>3. Advance(r, q) /\ req[r].step = "decide"
      BY <1>4, <3>1 DEF DecideLead
    <3> HIDE DEF q
    <3> QED BY <3>2, <3>3, DecidingMoves DEF Deciding
  <2> QED BY <2>1, <2>2
<1>5. CASE DecideManual(r)
  <2> DEFINE q == [req[r] EXCEPT !.step = "flag"]
  <2>1. /\ req[r].step = "decide"
        /\ \/ Fail(r, "deleted") \/ Fail(r, "ambiguous") \/ Fail(r, "matched")
           \/ Advance(r, q)
    BY <1>5 DEF DecideManual
  <2>2. /\ DOMAIN q = Fields /\ q.held = req[r].held /\ q.kind = req[r].kind
        /\ q.id = req[r].id /\ q.outcome = req[r].outcome /\ q.item = req[r].item
        /\ q.step = "flag"
    BY <1>1 DEF Fields
  <2> HIDE DEF q
  <2>3. CASE Advance(r, q)
    BY <2>1, <2>2, <2>3, DecidingMoves DEF Deciding
  <2> QED BY <2>1, <2>3, FailStep
<1>6. CASE LockChosen(r)
  <2> DEFINE q == [req[r] EXCEPT !.rows = {req[r].asked}, !.target = req[r].asked,
                     !.step = "flag"]
  <2>1. req[r].step = "row" /\ (Fail(r, "deleted") \/ Advance(r, q))
    BY <1>6 DEF LockChosen
  <2>2. /\ DOMAIN q = Fields /\ q.held = req[r].held /\ q.kind = req[r].kind
        /\ q.id = req[r].id /\ q.outcome = req[r].outcome /\ q.item = req[r].item
        /\ q.step = "flag"
    BY <1>1 DEF Fields
  <2> HIDE DEF q
  <2>3. CASE Advance(r, q)
    BY <2>1, <2>2, <2>3, DecidingMoves DEF Deciding
  <2> QED BY <2>1, <2>3, FailStep
<1> QED BY <1>2, <1>3, <1>4, <1>5, <1>6

-----------------------------------------------------------------------------
(* Imports, edits and jobs: requests that are for no id.                   *)

LEMMA OtherKinds ==
  ASSUME IInv, NEW r \in Requests, NEW q, DOMAIN q = Fields,
         q.kind = req[r].kind, q.kind \notin IdKinds, q.held \subseteq req[r].held,
         q.outcome # "constraint",
         req' = [req EXCEPT ![r] = q], UNCHANGED <<ledger, opportunities>>
  PROVE  IInv'
<1>1. RequestOK(q)
  BY DEF RequestOK
<1> QED BY <1>1, KeepsKeys

LEMMA OtherEnds ==
  ASSUME IInv, NEW r \in Requests, req[r].kind \notin IdKinds, NEW outcome,
         outcome # "constraint", Finish(r, outcome, 0), UNCHANGED <<ledger, opportunities>>
  PROVE  IInv'
<1> DEFINE q == Ended(req[r], outcome, 0)
<1>1. DOMAIN req[r] = Fields
  BY DEF IInv, RequestOK
<1>2. DOMAIN q = Fields /\ q.kind = req[r].kind /\ q.held = {} /\ q.outcome = outcome
  BY <1>1, EndedIs
<1>3. req' = [req EXCEPT ![r] = q]
  BY DEF Finish
<1> HIDE DEF q
<1> QED BY <1>2, <1>3, OtherKinds

LEMMA OtherAdvances ==
  ASSUME IInv, NEW r \in Requests, NEW q, Advance(r, q), req[r].kind \notin IdKinds,
         DOMAIN q = Fields, q.kind = req[r].kind, q.held = req[r].held,
         q.outcome = req[r].outcome
  PROVE  IInv'
<1>1. req' = [req EXCEPT ![r] = q] /\ UNCHANGED <<ledger, opportunities>>
  BY DEF Advance
<1>2. q.outcome # "constraint"
  BY DEF IInv, RequestOK
<1> QED BY <1>1, <1>2, OtherKinds

LEMMA ImportSteps ==
  ASSUME IInv, NEW r \in Requests, LookUpBatch(r) \/ DecideRow(r) \/ CommitImport(r)
  PROVE  IInv'
<1>1. req[r].kind \notin IdKinds
  BY DEF LookUpBatch, DecideRow, CommitImport, IdKinds
<1>2. DOMAIN req[r] = Fields
  BY DEF IInv, RequestOK
<1>3. CASE LookUpBatch(r)
  <2>1. CASE Fail(r, "replayed") \/ Fail(r, "conflict") \/ Fail(r, "invalid")
    BY <1>1, <2>1, OtherEnds DEF Fail
  <2>2. CASE ~(Fail(r, "replayed") \/ Fail(r, "conflict") \/ Fail(r, "invalid"))
    <3>1. PICK wanted, step : Advance(r, [AtRow(req[r], 1) EXCEPT !.wanted = wanted, !.step = step])
      BY <1>3, <2>2 DEF LookUpBatch
    <3> DEFINE q == [AtRow(req[r], 1) EXCEPT !.wanted = wanted, !.step = step]
    <3>2. /\ DOMAIN q = Fields /\ q.held = req[r].held /\ q.kind = req[r].kind
          /\ q.outcome = req[r].outcome
      BY <1>2 DEF AtRow, Fields
    <3>3. Advance(r, q)
      BY <3>1
    <3> HIDE DEF q
    <3> QED BY <1>1, <3>2, <3>3, OtherAdvances
  <2> QED BY <2>1, <2>2
<1>4. CASE DecideRow(r)
  <2>1. CASE Fail(r, "stale")
    BY <1>1, <2>1, OtherEnds DEF Fail
  <2>2. CASE ~Fail(r, "stale")
    <3>1. PICK plan, i :
            LET planned == [req[r] EXCEPT !.plan = plan] IN
            \/ Advance(r, [AtRow(planned, i) EXCEPT !.step = "email"])
            \/ Advance(r, [planned EXCEPT !.step = "commit"])
      BY <1>4, <2>2 DEF DecideRow
    <3> DEFINE planned == [req[r] EXCEPT !.plan = plan]
               q == [AtRow(planned, i) EXCEPT !.step = "email"]
               p == [planned EXCEPT !.step = "commit"]
    <3>2. /\ DOMAIN planned = Fields /\ planned.held = req[r].held
          /\ planned.kind = req[r].kind /\ planned.outcome = req[r].outcome
      BY <1>2 DEF Fields
    <3>3. Advance(r, q) \/ Advance(r, p)
      BY <3>1
    <3> HIDE DEF planned
    <3>4. /\ DOMAIN q = Fields /\ q.held = req[r].held /\ q.kind = req[r].kind
          /\ q.outcome = req[r].outcome
      BY <3>2 DEF AtRow, Fields
    <3>5. /\ DOMAIN p = Fields /\ p.held = req[r].held /\ p.kind = req[r].kind
          /\ p.outcome = req[r].outcome
      BY <3>2 DEF Fields
    <3> HIDE DEF q, p
    <3> QED BY <1>1, <3>3, <3>4, <3>5, OtherAdvances
  <2> QED BY <2>1, <2>2
<1>5. CASE CommitImport(r)
  BY <1>1, <1>5, OtherEnds DEF CommitImport
<1> QED BY <1>3, <1>4, <1>5

LEMMA EditSteps ==
  ASSUME IInv, NEW r \in Requests,
         \/ \E override \in BOOLEAN : LockEdited(r, override)
         \/ CommitEdit(r) \/ LockRecomputed(r)
  PROVE  IInv'
<1>1. req[r].kind \notin IdKinds
  BY DEF LockEdited, CommitEdit, LockRecomputed, IdKinds
<1>2. DOMAIN req[r] = Fields
  BY DEF IInv, RequestOK
<1>3. ASSUME NEW override \in BOOLEAN, LockEdited(r, override)
      PROVE  IInv'
  <2>1. CASE Fail(r, "deleted")
    BY <1>1, <2>1, OtherEnds DEF Fail
  <2>2. CASE ~Fail(r, "deleted")
    <3>1. PICK rows, target, step :
            Advance(r, [req[r] EXCEPT !.rows = rows, !.target = target, !.step = step])
      BY <1>3, <2>2 DEF LockEdited
    <3> DEFINE q == [req[r] EXCEPT !.rows = rows, !.target = target, !.step = step]
    <3>2. /\ DOMAIN q = Fields /\ q.held = req[r].held /\ q.kind = req[r].kind
          /\ q.outcome = req[r].outcome
      BY <1>2 DEF Fields
    <3>3. Advance(r, q)
      BY <3>1
    <3> HIDE DEF q
    <3> QED BY <1>1, <3>2, <3>3, OtherAdvances
  <2> QED BY <2>1, <2>2
<1>4. CASE CommitEdit(r)
  BY <1>1, <1>4, OtherEnds DEF CommitEdit
<1>5. CASE LockRecomputed(r)
  <2>1. CASE Fail(r, "created")
    BY <1>1, <2>1, OtherEnds DEF Fail
  <2>2. CASE ~Fail(r, "created")
    <3>1. PICK rows, target :
            Advance(r, [req[r] EXCEPT !.rows = rows, !.target = target, !.step = "flag"])
      BY <1>5, <2>2 DEF LockRecomputed
    <3> DEFINE q == [req[r] EXCEPT !.rows = rows, !.target = target, !.step = "flag"]
    <3>2. /\ DOMAIN q = Fields /\ q.held = req[r].held /\ q.kind = req[r].kind
          /\ q.outcome = req[r].outcome
      BY <1>2 DEF Fields
    <3>3. Advance(r, q)
      BY <3>1
    <3> HIDE DEF q
    <3> QED BY <1>1, <3>2, <3>3, OtherAdvances
  <2> QED BY <2>1, <2>2
<1> QED BY <1>3, <1>4, <1>5

-----------------------------------------------------------------------------
(* The commit that records an id.                                          *)

\* The request had the key of the id, so nobody else is deciding about it.
LEMMA NobodyElseDecides ==
  ASSUME IInv, NEW r \in Requests, req[r].kind \in IdKinds, req[r].step = "commit",
         NEW s \in Requests \ {r}, req[s].kind \in IdKinds, req[s].step \in Deciding
  PROVE  req[s].id # req[r].id
<1>1. IdOK(req[r]) /\ IdOK(req[s])
  BY DEF IInv, RequestOK
<1>2. IdKey(req[r]) \in req[r].held /\ IdKey(req[s]) \in req[s].held
  BY <1>1 DEF IdOK, Deciding
<1>3. req[r].held \cap req[s].held = {}
  BY DEF IInv, KeysAreExclusive
<1> QED BY <1>2, <1>3 DEF IdKey

\* The opportunity of a new id joins the others.
LEMMA RecordsGrow ==
  ASSUME LedgerOK, NEW id, id \notin DOMAIN ledger, NEW row, row.id = id, NEW payload,
         opportunities' = Append(opportunities, row),
         ledger' = [i \in DOMAIN ledger \cup {id} |->
                      IF i = id THEN [payload |-> payload, opportunity |-> Len(opportunities) + 1]
                                ELSE ledger[i]]
  PROVE  LedgerOK'
<1> DEFINE o == Len(opportunities) + 1
<1>1. PICK S : opportunities \in Seq(S)
  BY DEF LedgerOK
<1>2. opportunities \in Seq(S \cup {row}) /\ Len(opportunities) \in Nat
  BY <1>1
<1>3. opportunities' \in Seq(S \cup {row})
  BY <1>2
<1>4. /\ Len(opportunities') = o /\ opportunities'[o] = row
      /\ \A p \in 1..Len(opportunities) : opportunities'[p] = opportunities[p]
  BY <1>2
<1>5. ASSUME NEW i \in DOMAIN ledger'
      PROVE  /\ ledger'[i].opportunity \in 1..Len(opportunities')
             /\ opportunities'[ledger'[i].opportunity].id = i
  <2>1. CASE i = id
    BY <1>2, <1>4, <2>1
  <2>2. CASE i # id
    <3>1. i \in DOMAIN ledger /\ ledger'[i] = ledger[i]
      BY <2>2
    <3>2. /\ ledger[i].opportunity \in 1..Len(opportunities)
          /\ opportunities[ledger[i].opportunity].id = i
      BY <3>1 DEF LedgerOK
    <3> QED BY <1>2, <1>4, <3>1, <3>2
  <2> QED BY <2>1, <2>2
<1>6. ASSUME NEW p \in 1..Len(opportunities')
      PROVE  /\ opportunities'[p].id \in DOMAIN ledger'
             /\ ledger'[opportunities'[p].id].opportunity = p
  <2>1. CASE p = o
    BY <1>4, <2>1
  <2>2. CASE p # o
    <3>1. p \in 1..Len(opportunities)
      BY <1>2, <1>4, <2>2
    <3>2. /\ opportunities[p].id \in DOMAIN ledger
          /\ ledger[opportunities[p].id].opportunity = p
      BY <3>1 DEF LedgerOK
    <3> QED BY <1>4, <3>1, <3>2
  <2> QED BY <2>1, <2>2
<1> QED BY <1>3, <1>5, <1>6 DEF LedgerOK

LEMMA CommitOpportunityStep ==
  ASSUME IInv, NEW r \in Requests, CommitOpportunity(r)
  PROVE  IInv'
<1> DEFINE id == req[r].id
           payload == Payload(req[r])
           o == Len(opportunities) + 1
           q == Ended(req[r], "created", o)
<1>1. req[r].step = "commit" /\ req[r].kind \in IdKinds
  BY DEF CommitOpportunity, IdKinds
<1>2. DOMAIN req[r] = Fields /\ id \notin DOMAIN ledger
  BY <1>1 DEF IInv, RequestOK, IdOK, Deciding
<1>3. PICK c : opportunities' = Append(opportunities, [customer |-> c, id |-> id])
  BY <1>2 DEF CommitOpportunity
<1>4. /\ ledger' = [i \in DOMAIN ledger \cup {id} |->
                      IF i = id THEN [payload |-> payload, opportunity |-> o] ELSE ledger[i]]
      /\ req' = [req EXCEPT ![r] = q]
  BY <1>2 DEF CommitOpportunity, Finish
<1>5. /\ DOMAIN q = Fields /\ q.step = "done" /\ q.held = {} /\ q.item = 0
      /\ q.outcome = "created" /\ q.answer = o
      /\ q.kind = req[r].kind /\ q.id = id /\ Payload(q) = payload
  BY <1>2, EndedIs
<1>6. LedgerOK'
  BY <1>2, <1>3, <1>4, RecordsGrow DEF IInv
<1>7. /\ \A i \in DOMAIN ledger : i \in DOMAIN ledger' /\ ledger'[i] = ledger[i]
      /\ DOMAIN ledger' = DOMAIN ledger \cup {id}
      /\ ledger'[id].payload = payload /\ ledger'[id].opportunity = o
  BY <1>2, <1>4
<1> HIDE DEF q, payload, o
<1>8. /\ DOMAIN req' = Requests /\ req'[r] = q
      /\ \A s \in Requests \ {r} : req'[s] = req[s]
  BY <1>4 DEF IInv
<1>9. RequestOK(req[r])'
  BY <1>5, <1>7, <1>8 DEF RequestOK, IdOK, Recorded, Deciding, Payload
<1>10. ASSUME NEW s \in Requests \ {r}
       PROVE  RequestOK(req[s])'
  <2>1. RequestOK(req[s])
    BY DEF IInv
  <2>2. ASSUME req[s].kind \in IdKinds
        PROVE  IdOK(req[s])'
    <3>1. IdOK(req[s])
      BY <2>1, <2>2 DEF RequestOK
    <3>2. req[s].step \in Deciding => req[s].id \notin DOMAIN ledger'
      BY <1>1, <1>7, <2>2, <3>1, NobodyElseDecides DEF IdOK
    <3>3. req[s].outcome \in {"created", "replayed"} =>
            /\ req[s].id \in DOMAIN ledger'
            /\ ledger'[req[s].id].payload = Payload(req[s])
            /\ ledger'[req[s].id].opportunity = req[s].answer
      BY <1>7, <3>1 DEF IdOK, Recorded
    <3> QED BY <1>8, <3>1, <3>2, <3>3 DEF IdOK, Recorded, IdKey, Payload
  <2> QED BY <1>8, <2>1, <2>2 DEF RequestOK
<1>11. KeysAreExclusive'
  BY <1>5, <1>8 DEF IInv, KeysAreExclusive
<1> QED BY <1>6, <1>8, <1>9, <1>10, <1>11 DEF IInv

-----------------------------------------------------------------------------
(* Together.                                                               *)

LEMMA Initially == Init => IInv
<1> SUFFICES ASSUME Init PROVE IInv
  OBVIOUS
<1>1. DOMAIN req = Requests /\ \A r \in Requests : req[r] = Idle
  BY DEF Init
<1>2. RequestOK(Idle)
  BY IdleIs DEF RequestOK, IdKinds
<1>3. KeysAreExclusive
  BY <1>1, IdleIs DEF KeysAreExclusive
<1>4. opportunities = <<>> /\ DOMAIN ledger = {}
  BY DEF Init
<1>5. opportunities \in Seq({}) /\ Len(opportunities) = 0
  BY <1>4
<1>6. LedgerOK
  BY <1>4, <1>5 DEF LedgerOK
<1> QED BY <1>1, <1>2, <1>3, <1>6 DEF IInv

LEMMA ProgressStep ==
  ASSUME IInv, NEW r \in Requests, Progress(r)
  PROVE  IInv'
<1>1. CASE AbortDeadlocked(r)
  BY <1>1, FailStep DEF AbortDeadlocked
<1> QED BY <1>1, TakeKeyStep, TakeFlagKeyStep, LookUpStep, MatchSteps, ImportSteps,
           CommitOpportunityStep, EditSteps DEF Progress

\* Steps of hands, of previews and of nobody leave requests and records alone.
LEMMA Untouched ==
  ASSUME IInv, UNCHANGED <<req, ledger, opportunities>>
  PROVE  IInv'
<1>1. \A r \in Requests : RequestOK(req[r])'
  BY DEF IInv, RequestOK, IdOK, Recorded, Payload, IdKey
<1> QED BY <1>1 DEF IInv, KeysAreExclusive, LedgerOK

LEMMA Inductive == IInv /\ [Next]_vars => IInv'
<1> SUFFICES ASSUME IInv, [Next]_vars PROVE IInv'
  OBVIOUS
<1>1. ASSUME NEW r \in Requests, Requested(r) \/ Progress(r)
      PROVE  IInv'
  BY <1>1, RequestedStep, ProgressStep
<1>2. CASE \/ \E b \in Batches, f \in Files : Preview(b, f)
           \/ \E p \in Offered : CreateByHand(p)
           \/ \E c \in DOMAIN customers : DeleteByHand(c)
           \/ UNCHANGED vars
  BY <1>2, Untouched DEF Preview, CreateByHand, DeleteByHand, vars
<1> QED BY <1>1, <1>2 DEF Next

\* The inductive invariant of the id and signal locks: a request holds its id's
\* key from its lookup to its end, and no key has two holders.
THEOREM Invariance == Spec => []IInv
BY Initially, Inductive, PTL DEF Spec

LEMMA InvariantAnswers == IInv => DuplicatesAreAnswered
<1> SUFFICES ASSUME IInv PROVE DuplicatesAreAnswered
  OBVIOUS
<1>1. \A r \in Requests : req[r].outcome # "constraint"
  BY DEF IInv, RequestOK
<1>2. ASSUME NEW r \in Requests, req[r].kind \in IdKinds, Answered(r)
      PROVE  Recorded(req[r])
  BY <1>2 DEF IInv, RequestOK, IdOK, Answered
<1>3. ASSUME NEW r \in Requests, NEW s \in Requests,
             req[r].kind \in IdKinds, req[s].kind = req[r].kind,
             req[r].id = req[s].id, Answered(r), Answered(s)
      PROVE  /\ Payload(req[r]) = Payload(req[s]) /\ req[r].answer = req[s].answer
             /\ opportunities[req[r].answer].id = req[r].id
  <2>1. Recorded(req[r]) /\ Recorded(req[s])
    BY <1>2, <1>3
  <2> QED BY <1>3, <2>1 DEF Recorded, IInv, LedgerOK
<1>4. DOMAIN opportunities = 1..Len(opportunities)
  BY DEF IInv, LedgerOK
<1>5. \A o, p \in DOMAIN opportunities : opportunities[o].id = opportunities[p].id => o = p
  BY <1>4 DEF IInv, LedgerOK
<1> QED BY <1>1, <1>3, <1>5 DEF DuplicatesAreAnswered, IdKinds

(* For every number of requests, ids and customers: an id sent again, or    *)
(* twice at once, is answered with its one opportunity or with a conflict,  *)
(* and the unique constraint is never met.                                  *)
THEOREM DuplicatesAreAnsweredCorrect == Spec => []DuplicatesAreAnswered
BY Invariance, InvariantAnswers, PTL

-----------------------------------------------------------------------------
(* The order of the keys.  A request takes the keys of its id and of its   *)
(* identities with rising rank, and the key of an import before all of     *)
(* them; of the Legendary keys only the job waits for one while it holds   *)
(* another, and it takes them in the order of the customers.               *)

BatchKeys == {"batch"} \X Batches
LegendaryBelow(n) == {<<"legendary", d>> : d \in 0..(n - 1)}

Rising(q) ==
  \A k \in q.held \ BatchKeys, j \in q.wanted : Rank[k] < Rank[j]
WantedOK(q) ==
  /\ q.wanted # {} /\ q.wanted \subseteq AdvisoryKeys
  /\ \/ q.held = {} /\ \E b \in Batches : q.wanted = {<<"batch", b>>}
     \/ (q.kind = "import" => q.item # 0) /\ q.wanted \cap BatchKeys = {} /\ Rising(q)

JobOK(q) ==
  /\ q.step \in {"flag", "row", "done"} /\ q.target \in Nat
  /\ q.step = "flag" => q.held \subseteq LegendaryBelow(q.target)
  /\ q.step = "row" => q.held \subseteq LegendaryBelow(q.target + 1)

InOrder(q) ==
  /\ q.step = "locks" => WantedOK(q)
  /\ q.kind = "import" /\ q.step = "lookup" => q.held \subseteq BatchKeys
  /\ q.kind # "job" /\ q.step \notin {"commit", "done"} => q.held \subseteq AdvisoryKeys
  /\ q.kind = "job" => JobOK(q)
  /\ q.kind = "import" => q.batch \in Batches

BatchesOK ==
  \A b \in Batches : \A i \in DOMAIN batches[b].rows : batches[b].rows[i].profile \in Profiles

OInv ==
  /\ \A r \in Requests : InOrder(req[r])
  /\ DOMAIN batches = Batches /\ BatchesOK

LEMMA NextKeyIs ==
  ASSUME NEW keys, keys \subseteq AdvisoryKeys, keys # {}, NEW kind
  PROVE  /\ NextKey(kind, keys) \in keys
         /\ \A j \in keys \ {NextKey(kind, keys)} : Rank[NextKey(kind, keys)] < Rank[j]
<1> DEFINE T == {Rank[k] : k \in keys}
<1>1. T \in SUBSET Nat /\ T # {}
  BY RanksAreDistinct
<1>2. PICK x \in T : \A y \in T : x <= y
  BY <1>1, LeastExists
<1>3. \E k \in keys : \A j \in keys : Rank[k] <= Rank[j]
  BY <1>2
<1>4. /\ NextKey(kind, keys) \in keys
      /\ \A j \in keys : Rank[NextKey(kind, keys)] <= Rank[j]
  BY <1>3 DEF NextKey
<1>5. \A j \in keys : Rank[j] \in Nat
  BY RanksAreDistinct
<1>6. \A j \in keys \ {NextKey(kind, keys)} : Rank[j] # Rank[NextKey(kind, keys)]
  BY <1>4, RanksAreDistinct
<1> QED BY <1>4, <1>5, <1>6

LEMMA SignalsAreKeys ==
  ASSUME NEW p \in Profiles
  PROVE  Signals(p) \subseteq AdvisoryKeys /\ Signals(p) \cap BatchKeys = {}
<1>1. p.email \in Emails \cup {Nothing} /\ p.phone \in Phones \cup {Nothing}
  BY DEF Profiles
<1>2. \A s \in Signals(p) :
         \/ s[1] = "email" /\ s \in {"email"} \X Emails
         \/ s[1] = "phone" /\ s \in {"phone"} \X ({KeyOf[t] : t \in Phones} \ {Nothing})
  BY <1>1 DEF Signals
<1> QED BY <1>2 DEF AdvisoryKeys, BatchKeys

LEMMA OneMovesInOrder ==
  ASSUME IInv, OInv, NEW r \in Requests, NEW q, InOrder(q),
         req' = [req EXCEPT ![r] = q], UNCHANGED batches
  PROVE  OInv'
<1>1. \A s \in Requests : req'[s] = IF s = r THEN q ELSE req[s]
  BY DEF IInv
<1>2. \A s \in Requests : InOrder(req'[s])
  BY <1>1 DEF OInv
<1>3. \A s \in Requests : InOrder(req[s])'
  BY <1>2 DEF InOrder, WantedOK, Rising, JobOK
<1> QED BY <1>3 DEF OInv, BatchesOK

LEMMA EndsInOrder ==
  ASSUME IInv, OInv, NEW r \in Requests, NEW outcome, NEW answer,
         Finish(r, outcome, answer)
  PROVE  /\ InOrder(Ended(req[r], outcome, answer))
         /\ UNCHANGED batches => OInv'
<1> DEFINE q == Ended(req[r], outcome, answer)
<1>1. DOMAIN req[r] = Fields
  BY DEF IInv, RequestOK
<1>2. /\ q.step = "done" /\ q.held = {} /\ q.target = 0
      /\ q.kind = req[r].kind /\ q.batch = req[r].batch
  BY <1>1 DEF Ended, Fields
<1>3. req' = [req EXCEPT ![r] = q]
  BY DEF Finish
<1> HIDE DEF q
<1>4. InOrder(q)
  BY <1>2 DEF OInv, InOrder, JobOK
<1> QED BY <1>3, <1>4, OneMovesInOrder DEF q

\* A request that takes no key and asks for none.
LEMMA MovesInOrder ==
  ASSUME IInv, OInv, NEW r \in Requests, NEW q, Advance(r, q),
         q.kind = req[r].kind, q.held = req[r].held, q.batch = req[r].batch,
         req[r].kind # "job", req[r].step \notin {"commit", "done"}, q.step \notin {"locks", "lookup"}
  PROVE  OInv'
<1>1. InOrder(req[r])
  BY DEF OInv
<1>2. InOrder(q)
  BY <1>1 DEF InOrder
<1> QED BY <1>2, OneMovesInOrder DEF Advance

LEMMA BeginsInOrder ==
  ASSUME IInv, OInv, NEW r \in Requests, Requested(r)
  PROVE  OInv'
<1>1. /\ Idle.held = {} /\ Idle.item = 0 /\ DOMAIN Idle = Fields
  BY IdleIs
<1>2. ASSUME NEW i \in Submissions \cup Commands, NEW p \in Profiles, NEW x,
             BeginLead(r, i, p, x) \/ BeginManual(r, i, p, x)
      PROVE  OInv'
  <2>1. PICK kind \in {"lead", "manual"} :
          Begin(r, [Idle EXCEPT !.kind = kind, !.id = i, !.profile = p, !.rest = x,
                      !.wanted = LockKeys(i, p), !.step = "locks"])
    BY <1>2 DEF BeginLead, BeginManual
  <2> DEFINE q == [Idle EXCEPT !.kind = kind, !.id = i, !.profile = p, !.rest = x,
                     !.wanted = LockKeys(i, p), !.step = "locks"]
  <2>2. q.kind = kind /\ q.held = {} /\ q.step = "locks" /\ q.wanted = LockKeys(i, p)
    BY <1>1 DEF Fields
  <2>3. req' = [req EXCEPT ![r] = q] /\ UNCHANGED batches
    BY <2>1 DEF Begin, Advance
  <2> HIDE DEF q
  <2>4. <<"id", i>> \in AdvisoryKeys /\ <<"id", i>> \notin BatchKeys
    BY DEF AdvisoryKeys, BatchKeys
  <2>5. q.wanted # {} /\ q.wanted \subseteq AdvisoryKeys /\ q.wanted \cap BatchKeys = {}
    BY <2>2, <2>4, SignalsAreKeys DEF LockKeys
  <2>6. InOrder(q)
    BY <2>2, <2>5 DEF InOrder, WantedOK, Rising
  <2> QED BY <2>3, <2>6, OneMovesInOrder
<1>3. ASSUME NEW i \in Commands, NEW c, NEW x, BeginChosen(r, i, c, x)
      PROVE  OInv'
  <2> DEFINE q == [Idle EXCEPT !.kind = "chosen", !.id = i, !.rest = x, !.asked = c,
                     !.wanted = {<<"id", i>>}, !.step = "locks"]
  <2>1. q.kind = "chosen" /\ q.held = {} /\ q.step = "locks" /\ q.wanted = {<<"id", i>>}
    BY <1>1 DEF Fields
  <2>2. req' = [req EXCEPT ![r] = q] /\ UNCHANGED batches
    BY <1>3 DEF BeginChosen, Begin, Advance
  <2> HIDE DEF q
  <2>3. <<"id", i>> \in AdvisoryKeys /\ <<"id", i>> \notin BatchKeys
    BY DEF AdvisoryKeys, BatchKeys
  <2>4. InOrder(q)
    BY <2>1, <2>3 DEF InOrder, WantedOK, Rising
  <2> QED BY <2>2, <2>4, OneMovesInOrder
<1>4. ASSUME NEW b \in Batches, NEW i, BeginImport(r, b, i)
      PROVE  OInv'
  <2> DEFINE q == [Idle EXCEPT !.kind = "import", !.batch = b, !.id = i,
                     !.wanted = {<<"batch", b>>}, !.step = "locks"]
  <2>1. q.kind = "import" /\ q.held = {} /\ q.step = "locks" /\ q.wanted = {<<"batch", b>>}
        /\ q.batch = b
    BY <1>1 DEF Fields
  <2>2. req' = [req EXCEPT ![r] = q] /\ UNCHANGED batches
    BY <1>4 DEF BeginImport, Begin, Advance
  <2> HIDE DEF q
  <2>3. <<"batch", b>> \in AdvisoryKeys
    BY DEF AdvisoryKeys
  <2>4. InOrder(q)
    BY <2>1, <2>3 DEF InOrder, WantedOK
  <2> QED BY <2>2, <2>4, OneMovesInOrder
<1>5. ASSUME NEW c, NEW p, BeginEdit(r, c, p)
      PROVE  OInv'
  <2> DEFINE q == [Idle EXCEPT !.kind = "edit", !.asked = c, !.profile = p, !.step = "row"]
  <2>1. q.kind = "edit" /\ q.held = {} /\ q.step = "row"
    BY <1>1 DEF Fields
  <2>2. req' = [req EXCEPT ![r] = q] /\ UNCHANGED batches
    BY <1>5 DEF BeginEdit
  <2> HIDE DEF q
  <2>3. InOrder(q)
    BY <2>1 DEF InOrder
  <2> QED BY <2>2, <2>3, OneMovesInOrder
<1>6. ASSUME BeginRecompute(r)
      PROVE  OInv'
  <2> DEFINE q == [Idle EXCEPT !.kind = "job", !.target = 1, !.item = Len(customers),
                                !.step = "flag"]
  <2>1. q.kind = "job" /\ q.held = {} /\ q.step = "flag" /\ q.target = 1
    BY <1>1 DEF Fields
  <2>2. req' = [req EXCEPT ![r] = q] /\ UNCHANGED batches
    BY <1>6 DEF BeginRecompute, Begin, Advance
  <2> HIDE DEF q
  <2>3. InOrder(q)
    BY <2>1 DEF InOrder, JobOK
  <2> QED BY <2>2, <2>3, OneMovesInOrder
<1>7. Offered \subseteq Profiles
  BY OfferedAreProfiles DEF Profiles
<1> QED BY <1>2, <1>3, <1>4, <1>5, <1>6, <1>7 DEF Requested

LEMMA TakeKeyInOrder ==
  ASSUME IInv, OInv, NEW r \in Requests, TakeKey(r)
  PROVE  OInv'
<1> DEFINE k == NextKey(req[r].kind, req[r].wanted)
           rest == req[r].wanted \ {k}
           q == [req[r] EXCEPT !.held = @ \cup {k}, !.wanted = rest,
                   !.step = IF rest # {} THEN "locks"
                            ELSE IF req[r].item = 0 THEN "lookup" ELSE "email"]
<1>1. /\ req[r].step = "locks"
      /\ req' = [req EXCEPT ![r] = q] /\ UNCHANGED batches
  BY DEF TakeKey, Advance
<1>2. DOMAIN req[r] = Fields /\ InOrder(req[r])
  BY DEF IInv, RequestOK, OInv
<1>3. /\ q.kind = req[r].kind /\ q.item = req[r].item /\ q.batch = req[r].batch
      /\ q.held = req[r].held \cup {k} /\ q.wanted = rest
      /\ q.step = IF rest # {} THEN "locks"
                  ELSE IF req[r].item = 0 THEN "lookup" ELSE "email"
  BY <1>2 DEF Fields
<1>4. /\ WantedOK(req[r]) /\ req[r].kind # "job" /\ req[r].held \subseteq AdvisoryKeys
      /\ req[r].kind = "import" => req[r].batch \in Batches
  BY <1>1, <1>2 DEF InOrder, JobOK
<1>5. k \in req[r].wanted /\ \A j \in rest : Rank[k] < Rank[j]
  BY <1>4, NextKeyIs DEF WantedOK
<1> HIDE DEF q, k
<1>6. q.held \subseteq AdvisoryKeys
  BY <1>3, <1>4, <1>5 DEF WantedOK
<1>7. CASE req[r].held = {} /\ \E b \in Batches : req[r].wanted = {<<"batch", b>>}
  <2>1. rest = {} /\ q.held \subseteq BatchKeys
    BY <1>3, <1>5, <1>7 DEF BatchKeys
  <2>2. InOrder(q)
    BY <1>3, <1>4, <1>6, <2>1 DEF InOrder
  <2> QED BY <1>1, <2>2, OneMovesInOrder
<1>8. CASE /\ req[r].kind = "import" => req[r].item # 0
           /\ req[r].wanted \cap BatchKeys = {} /\ Rising(req[r])
  <2>1. \A j \in rest : \A h \in q.held \ BatchKeys : Rank[h] < Rank[j]
    BY <1>3, <1>5, <1>8 DEF Rising
  <2>2. q.step = "locks" => WantedOK(q)
    BY <1>3, <1>4, <1>8, <2>1 DEF WantedOK, Rising
  <2>3. InOrder(q)
    BY <1>3, <1>4, <1>6, <1>8, <2>2 DEF InOrder
  <2> QED BY <1>1, <2>3, OneMovesInOrder
<1> QED BY <1>4, <1>7, <1>8 DEF WantedOK

LEMMA TakeFlagKeyInOrder ==
  ASSUME IInv, OInv, NEW r \in Requests, TakeFlagKey(r)
  PROVE  OInv'
<1> DEFINE keys == FlagKeys(req[r].target)
           q == [req[r] EXCEPT !.held = @ \cup keys,
                               !.step = IF req[r].kind = "job" THEN "row" ELSE "commit"]
<1>1. req[r].step = "flag" /\ req' = [req EXCEPT ![r] = q] /\ UNCHANGED batches
  BY DEF TakeFlagKey, Advance
<1>2. DOMAIN req[r] = Fields /\ InOrder(req[r])
  BY DEF IInv, RequestOK, OInv
<1>3. /\ q.kind = req[r].kind /\ q.target = req[r].target /\ q.held = req[r].held \cup keys
      /\ q.batch = req[r].batch
      /\ q.step = IF req[r].kind = "job" THEN "row" ELSE "commit"
  BY <1>2 DEF Fields
<1> HIDE DEF q
<1>4. InOrder(q)
  <2>1. CASE req[r].kind # "job"
    BY <1>2, <1>3, <2>1 DEF InOrder
  <2>2. CASE req[r].kind = "job"
    <3>1. req[r].target \in Nat /\ req[r].held \subseteq LegendaryBelow(req[r].target)
      BY <1>1, <1>2, <2>2 DEF InOrder, JobOK
    <3>2. q.held \subseteq LegendaryBelow(q.target + 1)
      BY <1>3, <3>1 DEF LegendaryBelow, FlagKeys
    <3> QED BY <1>3, <2>2, <3>1, <3>2 DEF InOrder, JobOK
  <2> QED BY <2>1, <2>2
<1> QED BY <1>1, <1>4, OneMovesInOrder

LEMMA LooksUpInOrder ==
  ASSUME IInv, OInv, NEW r \in Requests, LookUp(r) \/ LookUpBatch(r)
  PROVE  OInv'
<1>1. DOMAIN req[r] = Fields /\ InOrder(req[r]) /\ req[r].step = "lookup"
  BY DEF IInv, RequestOK, OInv, LookUp, LookUpBatch
<1>2. CASE \E outcome, answer : Finish(r, outcome, answer) /\ UNCHANGED batches
  BY <1>2, EndsInOrder
<1>3. CASE /\ req[r].kind # "job"
           /\ \E step \in {"row", "email"} : Advance(r, [req[r] EXCEPT !.step = step])
  <2>1. PICK step \in {"row", "email"} : Advance(r, [req[r] EXCEPT !.step = step])
    BY <1>3
  <2> DEFINE q == [req[r] EXCEPT !.step = step]
  <2>2. q.kind = req[r].kind /\ q.held = req[r].held /\ q.batch = req[r].batch /\ q.step = step
    BY <1>1 DEF Fields
  <2>3. Advance(r, q)
    BY <2>1
  <2> HIDE DEF q
  <2> QED BY <1>1, <1>3, <2>2, <2>3, MovesInOrder
<1>4. CASE LookUp(r)
  <2>1. \/ \E outcome, answer : Finish(r, outcome, answer) /\ UNCHANGED batches
        \/ \E step \in {"row", "email"} : Advance(r, [req[r] EXCEPT !.step = step])
    BY <1>4 DEF LookUp, Fail
  <2>2. req[r].kind # "job"
    BY <1>4 DEF LookUp
  <2> QED BY <1>2, <1>3, <2>1, <2>2
<1>5. CASE LookUpBatch(r)
  <2> DEFINE b == batches[req[r].batch]
             signals == UNION {Signals(b.rows[i].profile) : i \in DOMAIN b.rows}
             step == IF signals = {} THEN "email" ELSE "locks"
             q == [AtRow(req[r], 1) EXCEPT !.wanted = signals, !.step = step]
  <2>1. \/ \E outcome, answer : Finish(r, outcome, answer) /\ UNCHANGED batches
        \/ Advance(r, q)
    BY <1>5 DEF LookUpBatch, Fail
  <2>2. req[r].kind = "import" /\ req[r].batch \in Batches
    BY <1>1, <1>5 DEF LookUpBatch, InOrder
  <2>3. ASSUME Advance(r, q)
        PROVE  OInv'
    <3>1. /\ q.kind = req[r].kind /\ q.held = req[r].held /\ q.step = step
          /\ q.batch = req[r].batch /\ q.wanted = signals /\ q.item = 1
      BY <1>1 DEF AtRow, Fields
    <3>2. \A i \in DOMAIN b.rows : b.rows[i].profile \in Profiles
      BY <2>2 DEF OInv, BatchesOK
    <3> HIDE DEF b
    <3>3. signals \subseteq AdvisoryKeys /\ signals \cap BatchKeys = {}
      BY <3>2, SignalsAreKeys
    <3> HIDE DEF signals, q
    <3>4. q.held \subseteq BatchKeys /\ q.held \subseteq AdvisoryKeys
      BY <1>1, <2>2, <3>1 DEF InOrder
    <3>5. InOrder(q)
      BY <2>2, <3>1, <3>3, <3>4 DEF InOrder, WantedOK, Rising
    <3> QED BY <2>3, <3>5, OneMovesInOrder DEF Advance
  <2> QED BY <1>2, <2>1, <2>3
<1> QED BY <1>4, <1>5

LEMMA MatchesInOrder ==
  ASSUME IInv, OInv, NEW r \in Requests, LockEmailMatches(r) \/ LockPhoneMatches(r)
  PROVE  OInv'
<1>1. DOMAIN req[r] = Fields /\ InOrder(req[r])
  BY DEF IInv, RequestOK, OInv
<1>2. req[r].step \in {"email", "phone"} /\ req[r].kind # "job"
  BY <1>1 DEF LockEmailMatches, LockPhoneMatches, InOrder, JobOK
<1>3. PICK step \in {"phone", "decide"} : \E rows, found :
        Advance(r, [req[r] EXCEPT !.rows = rows, !.found = found, !.step = step])
  BY DEF LockEmailMatches, LockPhoneMatches
<1>4. PICK rows, found :
        Advance(r, [req[r] EXCEPT !.rows = rows, !.found = found, !.step = step])
  BY <1>3
<1> DEFINE q == [req[r] EXCEPT !.rows = rows, !.found = found, !.step = step]
<1>5. q.kind = req[r].kind /\ q.held = req[r].held /\ q.batch = req[r].batch /\ q.step = step
  BY <1>1 DEF Fields
<1>6. Advance(r, q)
  BY <1>4
<1> HIDE DEF q
<1> QED BY <1>2, <1>5, <1>6, MovesInOrder

LEMMA DecidesInOrder ==
  ASSUME IInv, OInv, NEW r \in Requests,
         \/ DecideLead(r) \/ DecideManual(r) \/ LockChosen(r)
         \/ \E override \in BOOLEAN : LockEdited(r, override)
  PROVE  OInv'
<1>1. DOMAIN req[r] = Fields
  BY DEF IInv, RequestOK
<1>2. req[r].step \in {"decide", "row"} /\ req[r].kind # "job"
  BY DEF DecideLead, DecideManual, LockChosen, LockEdited
<1>3. ASSUME NEW q, Advance(r, q), q.step \in {"flag", "commit"},
             q.kind = req[r].kind, q.held = req[r].held, q.batch = req[r].batch
      PROVE  OInv'
  BY <1>2, <1>3, MovesInOrder
<1>4. CASE \E outcome : Fail(r, outcome)
  BY <1>4, EndsInOrder DEF Fail
<1>5. CASE ~\E outcome : Fail(r, outcome)
  <2>1. CASE DecideLead(r)
    <3>1. PICK target : Advance(r, [req[r] EXCEPT !.step = "flag", !.target = target])
      BY <1>5, <2>1 DEF DecideLead
    <3> DEFINE q == [req[r] EXCEPT !.step = "flag", !.target = target]
    <3>2. q.kind = req[r].kind /\ q.held = req[r].held /\ q.batch = req[r].batch /\ q.step = "flag"
      BY <1>1 DEF Fields
    <3>3. Advance(r, q)
      BY <3>1
    <3> HIDE DEF q
    <3> QED BY <1>3, <3>2, <3>3
  <2>2. CASE DecideManual(r)
    <3> DEFINE q == [req[r] EXCEPT !.step = "flag"]
    <3>1. Advance(r, q)
      BY <1>5, <2>2 DEF DecideManual
    <3>2. q.kind = req[r].kind /\ q.held = req[r].held /\ q.batch = req[r].batch /\ q.step = "flag"
      BY <1>1 DEF Fields
    <3> HIDE DEF q
    <3> QED BY <1>3, <3>1, <3>2
  <2>3. CASE LockChosen(r) \/ \E override \in BOOLEAN : LockEdited(r, override)
    <3>1. PICK step \in {"flag", "commit"} :
            Advance(r, [req[r] EXCEPT !.rows = {req[r].asked}, !.target = req[r].asked,
                                      !.step = step])
      BY <1>5, <2>3 DEF LockChosen, LockEdited
    <3> DEFINE q == [req[r] EXCEPT !.rows = {req[r].asked}, !.target = req[r].asked,
                                   !.step = step]
    <3>2. q.kind = req[r].kind /\ q.held = req[r].held /\ q.batch = req[r].batch /\ q.step = step
      BY <1>1 DEF Fields
    <3>3. Advance(r, q)
      BY <3>1
    <3> HIDE DEF q
    <3> QED BY <1>3, <3>2, <3>3
  <2> QED BY <2>1, <2>2, <2>3
<1> QED BY <1>4, <1>5

LEMMA DecidesRowInOrder ==
  ASSUME IInv, OInv, NEW r \in Requests, DecideRow(r)
  PROVE  OInv'
<1>1. DOMAIN req[r] = Fields
  BY DEF IInv, RequestOK
<1>2. req[r].step = "decide" /\ req[r].kind # "job"
  BY DEF DecideRow
<1>3. CASE Fail(r, "stale")
  BY <1>3, EndsInOrder DEF Fail
<1>4. CASE ~Fail(r, "stale")
  <2>1. PICK plan, i :
          LET planned == [req[r] EXCEPT !.plan = plan] IN
          \/ Advance(r, [AtRow(planned, i) EXCEPT !.step = "email"])
          \/ Advance(r, [planned EXCEPT !.step = "commit"])
    BY <1>4 DEF DecideRow
  <2> DEFINE planned == [req[r] EXCEPT !.plan = plan]
             q == [AtRow(planned, i) EXCEPT !.step = "email"]
             p == [planned EXCEPT !.step = "commit"]
  <2>2. /\ DOMAIN planned = Fields /\ planned.held = req[r].held
        /\ planned.kind = req[r].kind /\ planned.batch = req[r].batch
    BY <1>1 DEF Fields
  <2>3. Advance(r, q) \/ Advance(r, p)
    BY <2>1
  <2> HIDE DEF planned
  <2>4. q.held = req[r].held /\ q.kind = req[r].kind /\ q.batch = req[r].batch /\ q.step = "email"
    BY <2>2 DEF AtRow, Fields
  <2>5. p.held = req[r].held /\ p.kind = req[r].kind /\ p.batch = req[r].batch /\ p.step = "commit"
    BY <2>2 DEF Fields
  <2> HIDE DEF q, p
  <2>6. CASE Advance(r, q)
    BY <1>2, <2>4, <2>6, MovesInOrder
  <2>7. CASE Advance(r, p)
    BY <1>2, <2>5, <2>7, MovesInOrder
  <2> QED BY <2>3, <2>6, <2>7
<1> QED BY <1>3, <1>4

LEMMA RecomputesInOrder ==
  ASSUME IInv, OInv, NEW r \in Requests, LockRecomputed(r)
  PROVE  OInv'
<1>1. DOMAIN req[r] = Fields /\ InOrder(req[r]) /\ req[r].step = "row" /\ req[r].kind = "job"
  BY DEF IInv, RequestOK, OInv, LockRecomputed
<1>2. JobOK(req[r])
  BY <1>1 DEF InOrder
<1>3. CASE Fail(r, "created")
  BY <1>3, EndsInOrder DEF Fail
<1>4. CASE ~Fail(r, "created")
  <2> DEFINE q == [req[r] EXCEPT !.rows = @ \cup {req[r].target}, !.target = @ + 1,
                                 !.step = "flag"]
  <2>1. Advance(r, q)
    BY <1>4 DEF LockRecomputed
  <2>2. q.kind = "job" /\ q.held = req[r].held /\ q.target = req[r].target + 1 /\ q.step = "flag"
    BY <1>1 DEF Fields
  <2> HIDE DEF q
  <2>3. InOrder(q)
    BY <1>1, <1>2, <2>2 DEF InOrder, JobOK
  <2> QED BY <2>1, <2>3, OneMovesInOrder DEF Advance
<1> QED BY <1>3, <1>4

\* A commit ends its request; only an import changes a batch, not its rows.
LEMMA CommitsInOrder ==
  ASSUME IInv, OInv, NEW r \in Requests,
         CommitOpportunity(r) \/ CommitImport(r) \/ CommitEdit(r)
  PROVE  OInv'
<1>1. PICK outcome, answer : Finish(r, outcome, answer)
  BY DEF CommitOpportunity, CommitImport, CommitEdit, Fail
<1>2. CASE UNCHANGED batches
  BY <1>1, <1>2, EndsInOrder
<1>3. CASE CommitImport(r)
  <2> DEFINE q == Ended(req[r], outcome, answer)
  <2>1. InOrder(q)
    BY <1>1, EndsInOrder
  <2>2. \A s \in Requests : req'[s] = IF s = r THEN q ELSE req[s]
    BY <1>1 DEF Finish, IInv
  <2> HIDE DEF q
  <2>3. \A s \in Requests : InOrder(req'[s])
    BY <2>1, <2>2 DEF OInv
  <2>4. \A s \in Requests : InOrder(req[s])'
    BY <2>3 DEF InOrder, WantedOK, Rising, JobOK
  <2>5. batches' = [batches EXCEPT ![req[r].batch] =
                      [@ EXCEPT !.status = "COMMITTED", !.command = req[r].id]]
    BY <1>3 DEF CommitImport
  <2>6. \A b \in Batches : batches'[b].rows = batches[b].rows
    BY <2>5 DEF OInv
  <2>7. DOMAIN batches' = Batches
    BY <2>5 DEF OInv
  <2> QED BY <2>4, <2>6, <2>7 DEF OInv, BatchesOK
<1> QED BY <1>2, <1>3 DEF CommitOpportunity, CommitEdit, Fail

LEMMA PreviewInOrder ==
  ASSUME OInv, NEW b \in Batches, NEW f \in Files, Preview(b, f)
  PROVE  OInv'
<1>1. UNCHANGED req
  BY DEF Preview
<1>2. PICK n : batches' = [batches EXCEPT ![b] = n] /\
               \A i \in DOMAIN n.rows : n.rows[i].profile \in Profiles
  <2>1. CASE \E i \in DOMAIN f : RowError(f, i)
    <3> DEFINE n == [NoBatch EXCEPT !.status = "INVALID"]
    <3>1. batches' = [batches EXCEPT ![b] = n]
      BY <2>1, Zenon DEF Preview
    <3>2. n.rows = <<>>
      BY DEF NoBatch
    <3>3. \A i \in DOMAIN n.rows : n.rows[i].profile \in Profiles
      BY <3>2
    <3> QED BY <3>1, <3>3
  <2>2. CASE ~\E i \in DOMAIN f : RowError(f, i)
    <3> DEFINE n == [status |-> "VALID", rows |-> [i \in DOMAIN f |-> RowAction(f[i])],
                     command |-> Nothing, seen |-> customers]
    <3>1. batches' = [batches EXCEPT ![b] = n]
      BY <2>2, Zenon DEF Preview
    <3>2. f \in Seq(Profiles)
      BY FilesAreProfiles
    <3>3. \A p : RowAction(p).profile = p
      BY DEF RowAction
    <3>4. \A i \in DOMAIN f : f[i] \in Profiles
      BY <3>2
    <3>5. \A i \in DOMAIN n.rows : n.rows[i].profile \in Profiles
      BY <3>3, <3>4
    <3> QED BY <3>1, <3>5
  <2> QED BY <2>1, <2>2
<1>3. DOMAIN batches' = Batches /\ \A d \in Batches : batches'[d] = IF d = b THEN n ELSE batches[d]
  BY <1>2 DEF OInv
<1>4. BatchesOK'
  BY <1>2, <1>3 DEF OInv, BatchesOK
<1>5. \A r \in Requests : InOrder(req[r])'
  BY <1>1 DEF OInv, InOrder, WantedOK, Rising, JobOK
<1> QED BY <1>3, <1>4, <1>5 DEF OInv

LEMMA InitiallyInOrder == Init => OInv
<1> SUFFICES ASSUME Init PROVE OInv
  OBVIOUS
<1>1. \A r \in Requests : req[r] = Idle
  BY DEF Init
<1>2. InOrder(Idle)
  BY IdleIs DEF InOrder
<1>3. NoBatch.rows = <<>>
  BY DEF NoBatch
<1>4. \A b \in Batches : DOMAIN batches[b].rows = {}
  BY <1>3 DEF Init
<1> QED BY <1>1, <1>2, <1>4 DEF Init, OInv, BatchesOK

LEMMA StaysInOrder == IInv /\ OInv /\ [Next]_vars => OInv'
<1> SUFFICES ASSUME IInv, OInv, [Next]_vars PROVE OInv'
  OBVIOUS
<1>1. ASSUME NEW r \in Requests, Requested(r)
      PROVE  OInv'
  BY <1>1, BeginsInOrder
<1>2. ASSUME NEW r \in Requests, Progress(r)
      PROVE  OInv'
  <2>1. CASE AbortDeadlocked(r)
    BY <2>1, EndsInOrder DEF AbortDeadlocked, Fail
  <2> QED BY <1>2, <2>1, TakeKeyInOrder, TakeFlagKeyInOrder, LooksUpInOrder, MatchesInOrder,
             DecidesInOrder, DecidesRowInOrder, RecomputesInOrder, CommitsInOrder DEF Progress
<1>3. CASE UNCHANGED <<req, batches>>
  BY <1>3 DEF OInv, BatchesOK, InOrder, WantedOK, Rising, JobOK
<1>4. CASE \E b \in Batches, f \in Files : Preview(b, f)
  BY <1>4, PreviewInOrder
<1> QED BY <1>1, <1>2, <1>3, <1>4 DEF Next, CreateByHand, DeleteByHand, vars

\* Of requests that all wait for keys of one another, the one whose key has
\* the highest rank, or the job that has come furthest, waits for nobody.
LEMMA NoCycleOfKeys ==
  ASSUME OInv, NEW S \in WaitCycles,
         \A r \in S : Lockers(r, RowsNeeded(r)) = {}
  PROVE  FALSE
<1>0. S \in SUBSET Requests /\ S # {}
  BY DEF WaitCycles
<1>1. S \in SUBSET Requests /\ S # {} /\ IsFiniteSet(S)
  BY <1>0, RequestsAreFinite, FS_Subset
<1>2. ASSUME NEW r \in S
      PROVE  \E s \in S \ {r} : \E k \in KeyNeeded(r) : k \in req[s].held
  BY <1>1 DEF WaitCycles, WaitsFor, Holders, Others
<1>3. \A r \in S : InOrder(req[r])
  BY <1>1 DEF OInv
<1>4. \A r \in S : req[r].step \in {"locks", "flag"}
  BY <1>2 DEF KeyNeeded
<1> DEFINE Jobs == {r \in S : req[r].kind = "job"}
           Climbers == {r \in S : req[r].held # {}}
           Key(r) == NextKey(req[r].kind, req[r].wanted)
<1>5. ASSUME NEW r \in S, req[r].step = "flag"
      PROVE  \E s \in Jobs : <<"legendary", req[r].target>> \in req[s].held
  <2>1. PICK s \in S \ {r} : \E k \in KeyNeeded(r) : k \in req[s].held
    BY <1>2
  <2>2. <<"legendary", req[r].target>> \in req[s].held
    BY <1>5, <2>1 DEF KeyNeeded, FlagKeys
  <2>3. req[s].kind = "job"
    BY <1>3, <1>4, <2>2 DEF InOrder, AdvisoryKeys
  <2> QED BY <2>2, <2>3
<1>6. ASSUME NEW r \in S, req[r].step = "locks"
      PROVE  /\ Key(r) \in req[r].wanted /\ Key(r) \in AdvisoryKeys /\ req[r].kind # "job"
             /\ \E s \in S : Key(r) \in req[s].held
  <2>1. WantedOK(req[r]) /\ req[r].kind # "job"
    BY <1>3, <1>6 DEF InOrder, JobOK
  <2>2. Key(r) \in req[r].wanted /\ Key(r) \in AdvisoryKeys
    BY <2>1, NextKeyIs DEF WantedOK
  <2>3. PICK s \in S \ {r} : Key(r) \in req[s].held
    BY <1>2, <1>6 DEF KeyNeeded
  <2> QED BY <2>1, <2>2, <2>3
\* No job waits for a Legendary key: the one that has come furthest cannot.
<1>7. Jobs = {}
  <2> SUFFICES ASSUME Jobs # {} PROVE FALSE
    OBVIOUS
  <2> DEFINE T == {req[r].target : r \in Jobs}
  <2>1. \A r \in Jobs : JobOK(req[r]) /\ req[r].step = "flag"
    BY <1>3, <1>4 DEF InOrder, JobOK
  <2>2. T \in SUBSET Nat /\ T # {}
    BY <2>1 DEF JobOK
  <2>3. IsFiniteSet(Jobs)
    BY <1>1, FS_Subset
  <2>4. IsFiniteSet(T)
    <3> DEFINE f == [r \in Jobs |-> req[r].target]
    <3>1. DOMAIN f = Jobs /\ {f[r] : r \in Jobs} = T
      OBVIOUS
    <3> HIDE DEF f, Jobs
    <3>2. IsFiniteSet({f[r] : r \in Jobs})
      BY <2>3, <3>1, ImageIsFinite
    <3> QED BY <3>1, <3>2
  <2>5. PICK x \in T : \A y \in T : y <= x
    BY <2>2, <2>4, GreatestExists
  <2>6. PICK r \in Jobs : req[r].target = x
    BY <2>5
  <2>7. PICK s \in Jobs : <<"legendary", x>> \in req[s].held
    BY <1>5, <2>1, <2>6
  <2>8. req[s].target \in T /\ req[s].target \in Nat /\ x \in Nat
    BY <2>1, <2>2 DEF JobOK
  <2>9. <<"legendary", x>> \in LegendaryBelow(req[s].target)
    BY <2>1, <2>7 DEF JobOK
  <2>10. x \in 0..(req[s].target - 1)
    BY <2>9 DEF LegendaryBelow
  <2>11. req[s].target <= x
    BY <2>5, <2>8
  <2> HIDE DEF T, Jobs
  <2> QED BY <2>8, <2>10, <2>11
<1>8. \A r \in S : req[r].step = "locks"
  BY <1>4, <1>5, <1>7
\* Nor does the one whose key has the highest rank.
<1>9. ASSUME NEW r \in S
      PROVE  /\ Key(r) \in req[r].wanted /\ Key(r) \in AdvisoryKeys
             /\ \E s \in Climbers : Key(r) \in req[s].held
  <2>1. PICK s \in S : Key(r) \in req[s].held
    BY <1>6, <1>8
  <2>2. s \in Climbers
    BY <1>8, <2>1
  <2> QED BY <1>6, <1>8, <2>1, <2>2
<1>10. ASSUME NEW r \in Climbers
       PROVE  Rising(req[r]) /\ Key(r) \notin BatchKeys
  <2>1. WantedOK(req[r]) /\ req[r].held # {}
    BY <1>3, <1>8 DEF InOrder
  <2>2. Rising(req[r]) /\ req[r].wanted \cap BatchKeys = {}
    BY <2>1 DEF WantedOK
  <2>3. Key(r) \in req[r].wanted
    BY <1>9
  <2> QED BY <2>2, <2>3
<1> DEFINE T == {Rank[Key(r)] : r \in Climbers}
<1>11. T \in SUBSET Nat /\ T # {}
  <2>1. \A r \in Climbers : Rank[Key(r)] \in Nat
    BY <1>9, RanksAreDistinct
  <2>2. Climbers # {}
    BY <1>1, <1>9
  <2> HIDE DEF Climbers, Key
  <2> QED BY <2>1, <2>2
<1>12. IsFiniteSet(T)
  <2>1. IsFiniteSet(Climbers)
    BY <1>1, FS_Subset
  <2> HIDE DEF Climbers, Key
  <2> DEFINE f == [r \in Climbers |-> Rank[Key(r)]]
  <2>2. IsFiniteSet({f[r] : r \in Climbers})
    BY <2>1, ImageIsFinite
  <2>3. {f[r] : r \in Climbers} = T
    OBVIOUS
  <2> QED BY <2>2, <2>3
<1>13. PICK x \in T : \A y \in T : y <= x
  BY <1>11, <1>12, GreatestExists
<1>14. PICK r \in Climbers : Rank[Key(r)] = x
  BY <1>13
<1>15. PICK s \in Climbers : Key(r) \in req[s].held
  BY <1>9
<1>16. Key(s) \in req[s].wanted
  BY <1>9
<1>17. Rank[Key(r)] < Rank[Key(s)]
  BY <1>10, <1>15, <1>16 DEF Rising
<1>18. Rank[Key(s)] \in T
  OBVIOUS
<1>19. Rank[Key(s)] <= x /\ x \in Nat /\ Rank[Key(s)] \in Nat
  BY <1>11, <1>13, <1>18
<1> HIDE DEF Key, Climbers, T
<1> QED BY <1>14, <1>17, <1>19

LEMMA InvariantOrder == OInv => CyclesWaitForRows
BY NoCycleOfKeys DEF CyclesWaitForRows

(* For every number of requests: whatever leads, manual creations, imports, *)
(* edits and Legendary jobs run together, those that wait for one another   *)
(* do not all wait for keys, since ids and identities are locked in one     *)
(* order (acquire_advisory_locks) and only the job holds a Legendary key    *)
(* while it waits for the next.                                             *)
THEOREM CyclesWaitForRowsCorrect == Spec => []CyclesWaitForRows
<1>1. Init => IInv /\ OInv
  BY Initially, InitiallyInOrder
<1>2. IInv /\ OInv /\ [Next]_vars => (IInv /\ OInv)'
  BY Inductive, StaysInOrder
<1> QED BY <1>1, <1>2, InvariantOrder, PTL DEF Spec


-----------------------------------------------------------------------------
(* Identities.  A request that decides about a profile holds the keys of   *)
(* its signals, so that of the live customers that have one of them and    *)
(* were not given it by hand it has locked them all; and what it has       *)
(* locked nobody else changes.                                             *)

\* Of these customers, only the known ones have the signals but by hand.
Vouched(cs, signals, known) ==
  \A d \in DOMAIN cs \ known :
    cs[d].live => signals \cap Signals(cs[d]) \subseteq cs[d].given

HasKeys(q, signals) ==
  /\ q.step = "locks" => signals \subseteq q.held \cup q.wanted
  /\ q.step \in {"lookup"} \cup Deciding => signals \subseteq q.held

\* What the two statements that lock their matches have found so far.
Saw(q, cs) ==
  /\ q.step \in {"phone", "decide"} => q.found \subseteq q.rows \cap DOMAIN cs
  /\ q.step = "phone" => Vouched(cs, EmailSignals(q.profile), q.found)
  /\ q.step = "decide" => Vouched(cs, Signals(q.profile), q.found)

\* Leads and manual creations: a new customer, or the one that is known.
CreationOK(q, cs) ==
  /\ q.profile \in Profiles
  /\ q.kind = "chosen" => Signals(q.profile) = {}
  /\ HasKeys(q, Signals(q.profile)) /\ Saw(q, cs)
  /\ q.step \notin {"flag", "commit"} => q.target = 0
  /\ q.step \in {"flag", "commit"} =>
       /\ q.target # 0 => q.target \in q.rows
       /\ Vouched(cs, Signals(q.profile), {q.target})

ImportRows ==
  {row \in [profile : Profiles, action : {"CREATE", "ENRICH", "UNCHANGED"}, customer : Nat] :
     row.action = "CREATE" => row.customer = 0}
Named(row) == IF row.action = "CREATE" THEN {} ELSE {row.customer}
FileSignals(rows) == UNION {Signals(rows[i].profile) : i \in DOMAIN rows}
Valid(b) == b.status \in {"VALID", "COMMITTED"}
BatchOK(b) ==
  /\ b.rows \in Seq(ImportRows) /\ (Valid(b) => b.rows # <<>>)
  /\ \A i, j \in DOMAIN b.rows :
       i # j => Signals(b.rows[i].profile) \cap Signals(b.rows[j].profile) = {}

\* The customer of a row with what the first rows of a plan write to it.
Worked(row, plan, c) ==
  FoldLeft(LAMBDA x, p : IF p.customer = c THEN Enriched(x, p.profile) ELSE x, row, plan)

\* A row of the plan is still right, and its customer locked.
PlannedOK(locked, cs, rows, i) ==
  LET row == rows[i] IN
  /\ Vouched(cs, Signals(row.profile), Named(row))
  /\ \A c \in Named(row) :
       /\ c \in locked /\ c \in DOMAIN cs /\ cs[c].live
       /\ (row.action = "ENRICH")
            = WouldEnrich(Worked(cs[c], SubSeq(rows, 1, i - 1), c), row.profile)

\* An import: the rows before its item are planned, or all of them.
Planned(q, rows) == IF q.step = "commit" THEN Len(rows) ELSE q.item - 1
ImportOK(q, cs, b) ==
  IF q.item = 0 THEN q.step \in {"locks", "lookup", "done"} /\ q.plan = <<>>
  ELSE /\ Valid(b) /\ q.item \in 1..Len(b.rows)
       /\ q.step \in {"locks", "email", "phone", "decide", "commit"}
       /\ q.step = "locks" => q.item = 1
       /\ q.profile = b.rows[q.item].profile
       /\ HasKeys(q, FileSignals(b.rows)) /\ Saw(q, cs)
       /\ q.plan = SubSeq(b.rows, 1, Planned(q, b.rows))
       /\ \A i \in 1..Planned(q, b.rows) : PlannedOK(q.rows, cs, b.rows, i)

EditOK(q, cs) ==
  /\ q.profile \in Profiles
  /\ q.step \in {"row", "flag", "commit"} => q.asked \in DOMAIN cs
  /\ q.step \in {"flag", "commit"} =>
       q.target \in q.rows /\ q.target \in DOMAIN cs /\ cs[q.target].live

IdentityOK(q, cs, bs) ==
  /\ q.kind \in IdKinds => CreationOK(q, cs)
  /\ q.kind = "import" => q.batch \in Batches /\ ImportOK(q, cs, bs[q.batch])
  /\ q.kind = "edit" => EditOK(q, cs)

RowsAreExclusive == \A r, s \in Requests : r # s => req[r].rows \cap req[s].rows = {}

DInv ==
  /\ customers \in Seq(CustomerRows) /\ SharedByHand(customers)
  /\ DOMAIN batches = Batches /\ \A b \in Batches : BatchOK(batches[b])
  /\ RowsAreExclusive
  /\ \A r \in Requests : IdentityOK(req[r], customers, batches)

\* The set operators of a sequence's fold, over its positions.
LEMMA GreatestIs ==
  ASSUME NEW n \in Nat
  PROVE  /\ \A s \in SUBSET (1..n) : s # {} => Max(s) \in s
         /\ \A k \in 1..n : /\ Max(1..k) = k /\ (1..k) \ {k} = 1..(k - 1)
                          /\ 1..k # {} /\ 1..k \in SUBSET (1..n)
<1>1. ASSUME NEW s \in SUBSET (1..n), s # {}
      PROVE  Max(s) \in s
  <2>0. IsFiniteSet(1..n)
    BY FS_Interval
  <2>1. IsFiniteSet(s)
    <3> HIDE <1>1
    <3>1. s \subseteq 1..n
      OBVIOUS
    <3> QED BY <2>0, <3>1, FS_Subset
  <2>3. s \in SUBSET Nat
    OBVIOUS
  <2>2. PICK x \in s : \A y \in s : y <= x
    BY <1>1, <2>1, <2>3, GreatestExists
  <2>4. \A y \in s : x >= y
    BY <2>2, <2>3
  <2> QED BY <2>4 DEF Max
<1>2. ASSUME NEW k \in 1..n
      PROVE  Max(1..k) = k
  <2>1. \A x \in 1..k : (\A y \in 1..k : x >= y) <=> x = k
    OBVIOUS
  <2>2. k \in 1..k
    OBVIOUS
  <2> QED BY <2>1, <2>2 DEF Max
<1>3. ASSUME NEW k \in 1..n
      PROVE  (1..k) \ {k} = 1..(k - 1) /\ 1..k # {} /\ 1..k \in SUBSET (1..n)
  <2>1. k \in 1..k
    OBVIOUS
  <2> QED BY <2>1
<1> QED BY <1>1, <1>2, <1>3

LEMMA EnrichedIs ==
  ASSUME NEW row \in CustomerRows, NEW p \in Profiles
  PROVE  /\ Enriched(row, p) \in CustomerRows
         /\ Enriched(row, p).live = row.live /\ Enriched(row, p).given = row.given
         /\ Signals(Enriched(row, p)) \subseteq Signals(row) \cup Signals(p)
         /\ Knows(Enriched(row, p), row)
BY DEF Enriched, CustomerRows, Profiles, Filled, Signals, Knows

LEMMA CustomerIs ==
  ASSUME NEW p \in Profiles, NEW given \in SUBSET AdvisoryKeys
  PROVE  /\ Customer(p, given) \in CustomerRows
         /\ Customer(p, given).live /\ Customer(p, given).given = given
         /\ Signals(Customer(p, given)) = Signals(p)
BY DEF Customer, CustomerRows, Profiles, Signals

LEMMA AppliedIs ==
  ASSUME NEW cs \in Seq(CustomerRows), NEW row \in ImportRows
  PROVE  Applied(cs, row) \in Seq(CustomerRows)
<1>1. row.profile \in Profiles /\ row.customer \in Nat
  BY DEF ImportRows
<1>2. CASE row.action = "CREATE"
  <2>1. Customer(row.profile, {}) \in CustomerRows
    BY <1>1, CustomerIs
  <2> HIDE DEF CustomerRows
  <2> QED BY <1>2, <2>1 DEF Applied
<1>3. CASE row.action # "CREATE"
  <2>1. \A c \in DOMAIN cs : Enriched(cs[c], row.profile) \in CustomerRows
    BY <1>1, EnrichedIs
  <2> DEFINE ds == [cs EXCEPT ![row.customer] = Enriched(@, row.profile)]
  <2>0. DOMAIN cs = 1..Len(cs) /\ Len(cs) \in Nat /\ \A c \in DOMAIN cs : cs[c] \in CustomerRows
    OBVIOUS
  <2>4. DOMAIN ds = DOMAIN cs /\ ds = [c \in DOMAIN cs |-> ds[c]]
    OBVIOUS
  <2>5. \A c \in DOMAIN cs : ds[c] \in CustomerRows
    BY <2>0, <2>1
  <2>2. ds \in [1..Len(cs) -> CustomerRows] /\ Len(cs) \in Nat
    <3> HIDE DEF ds
    <3> QED BY <2>0, <2>4, <2>5
  <2> HIDE DEF ds
  <2>3. ds \in Seq(CustomerRows)
    BY <2>2
  <2> QED BY <1>3, <2>3 DEF Applied, ds
<1> QED BY <1>2, <1>3

\* What FoldLeft(Applied, cs, rows) is: row after row.
LEMMA AppliedInTurn ==
  ASSUME NEW cs \in Seq(CustomerRows), NEW rows \in Seq(ImportRows)
  PROVE  \E R \in [0..Len(rows) -> Seq(CustomerRows)] :
           /\ R[0] = cs
           /\ \A k \in 1..Len(rows) : R[k] = Applied(R[k - 1], rows[k])
           /\ FoldLeft(Applied, cs, rows) = R[Len(rows)]
<1> DEFINE V == Seq(CustomerRows)
           n == Len(rows)
           S == 1..n
           pick == [s \in SUBSET S |-> Max(s)]
           op == [xv \in S \X V |-> Applied(xv[2], rows[xv[1]])]
           F(g) == [s \in SUBSET S |-> IF s = {} THEN cs
                                       ELSE Applied(g[s \ {Max(s)}], rows[Max(s)])]
<1>1. FoldLeft(Applied, cs, rows) = (CHOOSE g : g = F(g))[S]
  <2>1. FoldLeft(Applied, cs, rows) =
          LET g == CHOOSE g : g = [s \in SUBSET (DOMAIN rows) |->
                                     IF s = {} THEN cs
                                     ELSE Applied(g[s \ {Max(s)}], rows[Max(s)])]
          IN g[DOMAIN rows]
    BY DEF FoldLeft, MapThenFoldSet
  <2>2. DOMAIN rows = S
    OBVIOUS
  <2> QED BY <2>1, <2>2, Zenon
<1>2. n \in Nat /\ IsFiniteSet(S)
  BY FS_Interval
<1>3. /\ \A s \in SUBSET S : s # {} => Max(s) \in s
      /\ \A k \in S : Max(1..k) = k /\ (1..k) \ {k} = 1..(k - 1)
                    /\ 1..k # {} /\ 1..k \in SUBSET S
  BY <1>2, GreatestIs
<1>4. ASSUME NEW x \in S, NEW v \in V
      PROVE  op[<<x, v>>] = Applied(v, rows[x]) /\ op[<<x, v>>] \in V
  <2>1. op[<<x, v>>] = Applied(v, rows[x])
    OBVIOUS
  <2>2. rows[x] \in ImportRows
    OBVIOUS
  <2> HIDE DEF op
  <2> QED BY <2>1, <2>2, AppliedIs
<1>5. \A s \in SUBSET S : s # {} => pick[s] = Max(s) /\ pick[s] \in s
  BY <1>3
<1> HIDE DEF V, op, pick
<1>6. cs \in V
  BY DEF V
<1>7. PICK g \in [SUBSET S -> V] : \A s \in SUBSET S :
        g[s] = IF s = {} THEN cs ELSE op[<<pick[s], g[s \ {pick[s]}]>>]
  <2> HIDE DEF S
  <2>1. Foldable(S, V, cs, pick, op)
    BY <1>2, <1>4, <1>5, <1>6 DEF Foldable
  <2>2. \E g \in [SUBSET S -> V] : Folds(g, S, cs, pick, op)
    BY <2>1, FoldExists
  <2> QED BY <2>2 DEF Folds
<1>8. ASSUME NEW s \in SUBSET S
      PROVE  g[s] = IF s = {} THEN cs ELSE Applied(g[s \ {Max(s)}], rows[Max(s)])
  <2>1. CASE s # {}
    <3>1. Max(s) \in S /\ g[s \ {Max(s)}] \in V
      BY <1>3, <1>7, <2>1
    <3> QED BY <1>4, <1>5, <1>7, <2>1, <3>1
  <2> QED BY <1>7, <2>1
<1>9. g = F(g)
  BY <1>7, <1>8
<1>10. PICK h : h = F(h) /\ FoldLeft(Applied, cs, rows) = h[S]
  BY <1>1, <1>9
<1>11. \A s \in SUBSET S : h[s] = IF s = {} THEN cs ELSE Applied(h[s \ {Max(s)}], rows[Max(s)])
  BY <1>10
<1> DEFINE R == [k \in 0..n |-> h[1..k]]
<1>12. R[0] = cs
  <2>1. 1..0 = {} /\ {} \in SUBSET S
    OBVIOUS
  <2>2. h[1..0] = cs
    BY <1>11, <2>1
  <2> QED BY <1>2, <2>2
<1>13. ASSUME NEW k \in 1..n
       PROVE  R[k] = Applied(R[k - 1], rows[k])
  <2>0. 1..k \in SUBSET S /\ 1..k # {} /\ Max(1..k) = k /\ (1..k) \ {k} = 1..(k - 1)
    BY <1>3, Zenon
  <2>1. h[1..k] = Applied(h[1..(k - 1)], rows[k])
    BY <1>11, <2>0
  <2> QED BY <2>1
<1>14. R \in [0..n -> V]
  <2> DEFINE T == {k \in Nat : k <= n => R[k] \in V}
  <2>1. 0 \in T
    BY <1>6, <1>12
  <2>2. ASSUME NEW k \in Nat, k \in T
        PROVE  k + 1 \in T
    <3>1. CASE k + 1 <= n
      <4>1. k + 1 \in 1..n /\ k <= n
        BY <1>2, <2>2, <3>1
      <4>4. R[k] \in V
        BY <2>2, <4>1
      <4>2. R[k + 1] = Applied(R[k], rows[k + 1])
        <5>1. (k + 1) - 1 = k
          BY <2>2
        <5> HIDE DEF R
        <5> QED BY <1>13, <4>1, <5>1
      <4>3. rows[k + 1] \in ImportRows
        BY <4>1
      <4> HIDE DEF R
      <4>5. Applied(R[k], rows[k + 1]) \in V
        BY <4>3, <4>4, AppliedIs DEF V
      <4> QED BY <4>2, <4>5
    <3> QED BY <3>1
  <2> HIDE DEF T
  <2>3. Nat \subseteq T
    BY <2>1, <2>2, AllNaturals
  <2>4. ASSUME NEW k \in 0..n
        PROVE  R[k] \in V
    <3>1. k \in Nat /\ k <= n /\ k \in T
      BY <1>2, <2>3
    <3> HIDE DEF R
    <3> QED BY <3>1 DEF T
  <2> QED BY <2>4
<1>15. FoldLeft(Applied, cs, rows) = R[n]
  BY <1>2, <1>10
<1> HIDE DEF R
<1> QED BY <1>12, <1>13, <1>14, <1>15 DEF V

\* Customers after a write under these keys: what a live one has got, it got
\* under the keys or by hand, and nobody comes to life.
Grew(cs, ds, keys) ==
  /\ DOMAIN cs \subseteq DOMAIN ds
  /\ \A d \in DOMAIN ds : ds[d].live =>
       Signals(ds[d]) \subseteq
         (IF d \in DOMAIN cs THEN Signals(cs[d]) ELSE {}) \cup keys \cup ds[d].given
  /\ \A d \in DOMAIN cs : /\ cs[d].given \subseteq ds[d].given
                          /\ ds[d].live => cs[d].live

LEMMA StaysVouched ==
  ASSUME NEW cs, NEW ds, NEW keys, Grew(cs, ds, keys),
         NEW signals, signals \cap keys = {}, NEW known, Vouched(cs, signals, known)
  PROVE  Vouched(ds, signals, known)
<1> SUFFICES ASSUME NEW d \in DOMAIN ds \ known, ds[d].live,
                    NEW s \in signals \cap Signals(ds[d])
             PROVE  s \in ds[d].given
  BY DEF Vouched
<1>1. \/ s \in ds[d].given
      \/ d \in DOMAIN cs /\ s \in Signals(cs[d])
  BY DEF Grew
<1>2. ASSUME d \in DOMAIN cs, s \in Signals(cs[d])
      PROVE  s \in ds[d].given
  BY <1>2 DEF Vouched, Grew
<1> QED BY <1>1, <1>2

LEMMA VouchedPart ==
  ASSUME NEW cs, NEW signals, NEW part \in SUBSET signals, NEW known, NEW more,
         known \subseteq more, Vouched(cs, signals, known)
  PROVE  Vouched(cs, part, more)
BY DEF Vouched

\* A customer that nobody has yet joins the others.
LEMMA NewCustomer ==
  ASSUME NEW cs \in Seq(CustomerRows), SharedByHand(cs),
         NEW p \in Profiles, NEW given \in SUBSET AdvisoryKeys,
         Vouched(cs, Signals(p) \ given, {})
  PROVE  LET ds == Append(cs, Customer(p, given)) IN
         /\ ds \in Seq(CustomerRows) /\ SharedByHand(ds)
         /\ Grew(cs, ds, Signals(p) \ given)
         /\ \A d \in DOMAIN cs : ds[d] = cs[d]
<1> DEFINE row == Customer(p, given)
           ds == Append(cs, row)
           n == Len(cs) + 1
<1>1. row \in CustomerRows /\ row.live /\ row.given = given /\ Signals(row) = Signals(p)
  BY CustomerIs
<1> HIDE DEF row
<1>2. /\ ds \in Seq(CustomerRows) /\ DOMAIN ds = DOMAIN cs \cup {n} /\ ds[n] = row
      /\ n \notin DOMAIN cs /\ \A d \in DOMAIN cs : ds[d] = cs[d]
  BY <1>1
<1> HIDE DEF ds
<1>3. ASSUME NEW d \in DOMAIN cs, cs[d].live
      PROVE  Signals(row) \cap Signals(cs[d]) \subseteq given \cup cs[d].given
  BY <1>1, <1>3 DEF Vouched
<1>4. SharedByHand(ds)
  <2> SUFFICES ASSUME NEW c \in DOMAIN ds, NEW d \in DOMAIN ds,
                      c # d, ds[c].live, ds[d].live
               PROVE  Signals(ds[c]) \cap Signals(ds[d]) \subseteq ds[c].given \cup ds[d].given
    BY DEF SharedByHand
  <2>1. CASE c \in DOMAIN cs /\ d \in DOMAIN cs
    BY <1>2, <2>1 DEF SharedByHand
  <2>2. CASE c = n
    BY <1>1, <1>2, <1>3, <2>2
  <2>3. CASE d = n
    BY <1>1, <1>2, <1>3, <2>3
  <2> QED BY <1>2, <2>1, <2>2, <2>3
<1>5. Grew(cs, ds, Signals(p) \ given)
  BY <1>1, <1>2 DEF Grew
<1> QED BY <1>2, <1>4, <1>5 DEF ds, row

\* A customer gets signals that of all others nobody has.
LEMMA ChangedCustomer ==
  ASSUME NEW cs \in Seq(CustomerRows), SharedByHand(cs),
         NEW c \in DOMAIN cs, NEW row \in CustomerRows, NEW keys,
         row.live => cs[c].live, cs[c].given \subseteq row.given,
         Signals(row) \subseteq Signals(cs[c]) \cup keys \cup row.given,
         Vouched(cs, keys, {c})
  PROVE  LET ds == [cs EXCEPT ![c] = row] IN
         /\ ds \in Seq(CustomerRows) /\ SharedByHand(ds) /\ Grew(cs, ds, keys)
         /\ DOMAIN ds = DOMAIN cs
         /\ ds[c] = row /\ \A d \in DOMAIN cs \ {c} : ds[d] = cs[d]
<1> DEFINE ds == [cs EXCEPT ![c] = row]
<1>1. /\ DOMAIN ds = DOMAIN cs /\ ds[c] = row
      /\ \A d \in DOMAIN cs \ {c} : ds[d] = cs[d]
  OBVIOUS
<1>2. ds \in Seq(CustomerRows)
  OBVIOUS
<1> HIDE DEF ds
<1>3. ASSUME NEW d \in DOMAIN cs \ {c}, cs[d].live, row.live
      PROVE  Signals(row) \cap Signals(cs[d]) \subseteq row.given \cup cs[d].given
  <2>1. Signals(cs[c]) \cap Signals(cs[d]) \subseteq cs[c].given \cup cs[d].given
    BY <1>3 DEF SharedByHand
  <2>2. keys \cap Signals(cs[d]) \subseteq cs[d].given
    BY <1>3 DEF Vouched
  <2> QED BY <2>1, <2>2
<1>4. SharedByHand(ds)
  <2> SUFFICES ASSUME NEW a \in DOMAIN cs, NEW b \in DOMAIN cs,
                      a # b, ds[a].live, ds[b].live
               PROVE  Signals(ds[a]) \cap Signals(ds[b]) \subseteq ds[a].given \cup ds[b].given
    BY <1>1 DEF SharedByHand
  <2>1. CASE a # c /\ b # c
    BY <1>1, <2>1 DEF SharedByHand
  <2>2. CASE a = c
    BY <1>1, <1>3, <2>2
  <2>3. CASE b = c
    BY <1>1, <1>3, <2>3
  <2> QED BY <2>1, <2>2, <2>3
<1>5. Grew(cs, ds, keys)
  BY <1>1 DEF Grew
<1> QED BY <1>1, <1>2, <1>4, <1>5 DEF ds

LEMMA EnrichedCustomer ==
  ASSUME NEW cs \in Seq(CustomerRows), SharedByHand(cs), NEW c, NEW p \in Profiles,
         Vouched(cs, Signals(p), {c})
  PROVE  LET ds == [cs EXCEPT ![c] = Enriched(@, p)] IN
         /\ ds \in Seq(CustomerRows) /\ SharedByHand(ds) /\ Grew(cs, ds, Signals(p))
         /\ DOMAIN ds = DOMAIN cs /\ \A d \in DOMAIN cs \ {c} : ds[d] = cs[d]
<1>1. CASE c \notin DOMAIN cs
  <2>1. [cs EXCEPT ![c] = Enriched(@, p)] = cs
    BY <1>1
  <2>2. Grew(cs, cs, Signals(p))
    BY DEF Grew
  <2> QED BY <2>1, <2>2
<1>2. CASE c \in DOMAIN cs
  <2> DEFINE row == Enriched(cs[c], p)
  <2>1. cs[c] \in CustomerRows
    BY <1>2
  <2>2. /\ row \in CustomerRows /\ row.live = cs[c].live /\ row.given = cs[c].given
        /\ Signals(row) \subseteq Signals(cs[c]) \cup Signals(p)
    BY <2>1, EnrichedIs
  <2>3. [cs EXCEPT ![c] = Enriched(@, p)] = [cs EXCEPT ![c] = row]
    OBVIOUS
  <2> HIDE DEF row
  <2> QED BY <1>2, <2>2, <2>3, ChangedCustomer
<1> QED BY <1>1, <1>2

LEMMA GrewOn ==
  ASSUME NEW cs, NEW ds, NEW es, NEW keys, NEW more, Grew(cs, ds, keys),
         Grew(ds, es, more), more \subseteq keys
  PROVE  Grew(cs, es, keys)
<1>1. DOMAIN cs \subseteq DOMAIN ds /\ DOMAIN ds \subseteq DOMAIN es
  BY DEF Grew
<1>2. ASSUME NEW d \in DOMAIN es, es[d].live,
             NEW s \in Signals(es[d]), s \notin keys, s \notin es[d].given
      PROVE  d \in DOMAIN cs /\ s \in Signals(cs[d])
  <2>1. d \in DOMAIN ds /\ s \in Signals(ds[d])
    BY <1>2 DEF Grew
  <2>2. ds[d].live /\ ds[d].given \subseteq es[d].given
    BY <1>2, <2>1 DEF Grew
  <2> QED BY <1>2, <2>1, <2>2 DEF Grew
<1>3. \A d \in DOMAIN cs : cs[d].given \subseteq es[d].given /\ (es[d].live => cs[d].live)
  <2>1. \A d \in DOMAIN cs : cs[d].given \subseteq ds[d].given /\ (ds[d].live => cs[d].live)
    BY DEF Grew
  <2>2. \A d \in DOMAIN ds : ds[d].given \subseteq es[d].given /\ (es[d].live => ds[d].live)
    BY DEF Grew
  <2> QED BY <1>1, <2>1, <2>2
<1> QED BY <1>1, <1>2, <1>3 DEF Grew

\* One row of a plan, and the rows after it.
LEMMA OneRow ==
  ASSUME NEW cs \in Seq(CustomerRows), SharedByHand(cs), NEW row \in ImportRows,
         Vouched(cs, Signals(row.profile), Named(row))
  PROVE  LET ds == Applied(cs, row) IN
         /\ ds \in Seq(CustomerRows) /\ SharedByHand(ds)
         /\ Grew(cs, ds, Signals(row.profile))
         /\ \A d \in DOMAIN cs \ Named(row) : ds[d] = cs[d]
<1> DEFINE p == row.profile
<1>1. p \in Profiles
  BY DEF ImportRows
<1>2. CASE row.action = "CREATE"
  <2>1. Signals(p) \ {} = Signals(p) /\ {} \in SUBSET AdvisoryKeys
    OBVIOUS
  <2>2. Vouched(cs, Signals(p) \ {}, {})
    BY <1>2, <2>1 DEF Named
  <2> HIDE DEF p
  <2>3. LET ds == Append(cs, Customer(p, {})) IN
        /\ ds \in Seq(CustomerRows) /\ SharedByHand(ds) /\ Grew(cs, ds, Signals(p) \ {})
        /\ \A d \in DOMAIN cs : ds[d] = cs[d]
    BY <1>1, <2>1, <2>2, NewCustomer
  <2>4. Applied(cs, row) = Append(cs, Customer(p, {}))
    BY <1>2 DEF Applied, p
  <2> QED BY <2>1, <2>3, <2>4 DEF p
<1>3. CASE row.action # "CREATE"
  <2> DEFINE c == row.customer
  <2>1. Applied(cs, row) = [cs EXCEPT ![c] = Enriched(@, p)] /\ Named(row) = {c}
    BY <1>3 DEF Applied, Named
  <2>2. Vouched(cs, Signals(p), {c})
    BY <2>1
  <2> HIDE DEF p, c
  <2>3. LET ds == [cs EXCEPT ![c] = Enriched(@, p)] IN
        /\ ds \in Seq(CustomerRows) /\ SharedByHand(ds) /\ Grew(cs, ds, Signals(p))
        /\ DOMAIN ds = DOMAIN cs /\ \A d \in DOMAIN cs \ {c} : ds[d] = cs[d]
    BY <1>1, <2>2, EnrichedCustomer
  <2> QED BY <2>1, <2>3 DEF p
<1> QED BY <1>2, <1>3

\* The rows of a file share no signal, so none is in the way of another.
LEMMA AllRows ==
  ASSUME NEW cs \in Seq(CustomerRows), SharedByHand(cs), NEW rows \in Seq(ImportRows),
         \A i, j \in DOMAIN rows :
           i # j => Signals(rows[i].profile) \cap Signals(rows[j].profile) = {},
         \A i \in DOMAIN rows : Vouched(cs, Signals(rows[i].profile), Named(rows[i]))
  PROVE  LET ds == FoldLeft(Applied, cs, rows) IN
         /\ ds \in Seq(CustomerRows) /\ SharedByHand(ds) /\ Grew(cs, ds, FileSignals(rows))
         /\ \A d \in DOMAIN cs : (\A i \in DOMAIN rows : d \notin Named(rows[i])) => ds[d] = cs[d]
<1> DEFINE n == Len(rows)
           p(i) == rows[i].profile
<1>1. PICK R \in [0..n -> Seq(CustomerRows)] :
        /\ R[0] = cs
        /\ \A k \in 1..n : R[k] = Applied(R[k - 1], rows[k])
        /\ FoldLeft(Applied, cs, rows) = R[n]
  BY AppliedInTurn
<1>2. n \in Nat /\ DOMAIN rows = 1..n /\ \A i \in 1..n : rows[i] \in ImportRows
  OBVIOUS
<1> DEFINE J(k) ==
      /\ SharedByHand(R[k]) /\ Grew(cs, R[k], FileSignals(rows))
      /\ \A i \in (k + 1)..n : Vouched(R[k], Signals(p(i)), Named(rows[i]))
      /\ \A d \in DOMAIN cs : (\A i \in 1..n : d \notin Named(rows[i])) => R[k][d] = cs[d]
      T == {k \in Nat : k <= n => J(k)}
<1>3. 0 \in T
  <2>1. Grew(cs, cs, FileSignals(rows))
    BY DEF Grew
  <2>2. J(0)
    BY <1>1, <1>2, <2>1
  <2> QED BY <2>2
<1>4. ASSUME NEW k \in Nat, k \in T
      PROVE  k + 1 \in T
  <2> SUFFICES ASSUME k + 1 <= n PROVE J(k + 1)
    OBVIOUS
  <2>1. k \in 0..n /\ k + 1 \in 1..n /\ (k + 1) - 1 = k /\ J(k)
    BY <1>2, <1>4
  <2> DEFINE row == rows[k + 1]
             ds == R[k + 1]
  <2>2. R[k] \in Seq(CustomerRows) /\ row \in ImportRows /\ ds = Applied(R[k], row)
    BY <1>1, <1>2, <2>1
  <2>3. Vouched(R[k], Signals(row.profile), Named(row))
    BY <1>2, <2>1
  <2>4. /\ SharedByHand(ds) /\ Grew(R[k], ds, Signals(row.profile))
        /\ \A d \in DOMAIN R[k] \ Named(row) : ds[d] = R[k][d]
    <3> HIDE DEF row, ds, J
    <3> QED BY <2>1, <2>2, <2>3, OneRow DEF J
  <2>5. Grew(cs, ds, FileSignals(rows))
    <3>1. Signals(row.profile) \subseteq FileSignals(rows)
      BY <1>2, <2>1 DEF FileSignals
    <3>2. Grew(cs, R[k], FileSignals(rows))
      BY <2>1
    <3> HIDE DEF row, ds, J
    <3> QED BY <2>4, <3>1, <3>2, GrewOn
  <2>6. ASSUME NEW i \in ((k + 1) + 1)..n
        PROVE  Vouched(ds, Signals(p(i)), Named(rows[i]))
    <3>1. i \in (k + 1)..n /\ i \in 1..n /\ i # k + 1
      BY <1>2
    <3>2. Vouched(R[k], Signals(p(i)), Named(rows[i]))
      BY <2>1, <3>1
    <3>3. Signals(p(i)) \cap Signals(row.profile) = {}
      BY <1>2, <2>1, <3>1
    <3> HIDE DEF row, ds, J, p
    <3> QED BY <2>4, <3>2, <3>3, StaysVouched
  <2>7. ASSUME NEW d \in DOMAIN cs, \A i \in 1..n : d \notin Named(rows[i])
        PROVE  ds[d] = cs[d]
    <3>1. d \in DOMAIN R[k] /\ R[k][d] = cs[d] /\ d \notin Named(row)
      BY <2>1, <2>7 DEF Grew
    <3> QED BY <2>4, <3>1
  <2> QED BY <2>4, <2>5, <2>6, <2>7
<1> HIDE DEF T, J
<1>5. n \in T
  BY <1>2, <1>3, <1>4, AllNaturals
<1>6. J(n) /\ R[n] \in Seq(CustomerRows)
  BY <1>1, <1>2, <1>5 DEF T
<1> QED BY <1>1, <1>2, <1>6 DEF J

-----------------------------------------------------------------------------
(* Requests and what they rely on.                                         *)

\* What others write leaves alone what a request relies on.
LEMMA ReliesOnOthers ==
  ASSUME NEW q, NEW cs, NEW bs, IdentityOK(q, cs, bs), \A b \in Batches : BatchOK(bs[b]),
         NEW ds, NEW keys, Grew(cs, ds, keys), keys \cap q.held = {},
         \A d \in DOMAIN cs \cap q.rows : ds[d] = cs[d]
  PROVE  IdentityOK(q, ds, bs)
<1>1. DOMAIN cs \subseteq DOMAIN ds
  BY DEF Grew
<1>2. ASSUME NEW signals, NEW known, signals \subseteq q.held, Vouched(cs, signals, known)
      PROVE  Vouched(ds, signals, known)
  <2>1. signals \cap keys = {}
    BY <1>2
  <2> QED BY <1>2, <2>1, StaysVouched
<1>3. ASSUME NEW signals, HasKeys(q, signals), Signals(q.profile) \subseteq signals, Saw(q, cs)
      PROVE  Saw(q, ds)
  <2>1. EmailSignals(q.profile) \subseteq Signals(q.profile)
    BY DEF EmailSignals
  <2>2. q.step \in {"phone", "decide"} => signals \subseteq q.held
    BY <1>3 DEF HasKeys, Deciding
  <2> QED BY <1>1, <1>2, <1>3, <2>1, <2>2 DEF Saw
<1>4. ASSUME CreationOK(q, cs)
      PROVE  CreationOK(q, ds)
  <2>1. HasKeys(q, Signals(q.profile)) /\ Saw(q, cs)
    BY <1>4 DEF CreationOK
  <2>2. Saw(q, ds)
    BY <1>3, <2>1
  <2>3. q.step \in {"flag", "commit"} => Vouched(ds, Signals(q.profile), {q.target})
    BY <1>2, <1>4, <2>1 DEF CreationOK, HasKeys, Deciding
  <2> QED BY <1>4, <2>2, <2>3 DEF CreationOK
<1>5. ASSUME NEW b, BatchOK(b), ImportOK(q, cs, b)
      PROVE  ImportOK(q, ds, b)
  <2>1. CASE q.item = 0
    BY <1>5, <2>1 DEF ImportOK
  <2>2. CASE q.item # 0
    <3> DEFINE n == Planned(q, b.rows)
    <3>1. /\ HasKeys(q, FileSignals(b.rows)) /\ Saw(q, cs)
          /\ q.item \in 1..Len(b.rows) /\ q.profile = b.rows[q.item].profile
          /\ q.step \in {"locks", "email", "phone", "decide", "commit"}
          /\ q.step = "locks" => q.item = 1
          /\ \A i \in 1..n : PlannedOK(q.rows, cs, b.rows, i)
      BY <1>5, <2>2 DEF ImportOK
    <3>2. DOMAIN b.rows = 1..Len(b.rows) /\ Len(b.rows) \in Nat
      BY <1>5 DEF BatchOK
    <3>3. \A i \in 1..Len(b.rows) : Signals(b.rows[i].profile) \subseteq FileSignals(b.rows)
      BY <3>2 DEF FileSignals
    <3>4. Saw(q, ds)
      BY <1>3, <3>1, <3>3
    <3>5. ASSUME NEW i \in 1..n
          PROVE  PlannedOK(q.rows, ds, b.rows, i)
      <4>1. q.step # "locks" /\ i \in 1..Len(b.rows)
        BY <3>1, <3>2 DEF Planned
      <4>2. FileSignals(b.rows) \subseteq q.held
        BY <3>1, <4>1 DEF HasKeys, Deciding
      <4>3. PlannedOK(q.rows, cs, b.rows, i)
        BY <3>1
      <4>4. Vouched(ds, Signals(b.rows[i].profile), Named(b.rows[i]))
        BY <1>2, <3>3, <4>1, <4>2, <4>3 DEF PlannedOK
      <4>5. \A c \in Named(b.rows[i]) : c \in DOMAIN cs \cap q.rows /\ ds[c] = cs[c]
        BY <4>3 DEF PlannedOK
      <4> QED BY <1>1, <4>3, <4>4, <4>5 DEF PlannedOK
    <3> HIDE DEF n
    <3>6. \A i \in 1..n : PlannedOK(q.rows, ds, b.rows, i)
      BY <3>5
    <3> QED BY <1>5, <2>2, <3>4, <3>6 DEF ImportOK, n
  <2> QED BY <2>1, <2>2
<1>6. ASSUME EditOK(q, cs)
      PROVE  EditOK(q, ds)
  BY <1>1, <1>6 DEF EditOK
<1> QED BY <1>4, <1>5, <1>6 DEF IdentityOK

\* So do previews of other files, and what a commit notes of a batch.
LEMMA ReliesOnRows ==
  ASSUME NEW q, NEW cs, NEW bs, IdentityOK(q, cs, bs), NEW ct,
         \A b \in Batches : Valid(bs[b]) => Valid(ct[b]) /\ ct[b].rows = bs[b].rows
  PROVE  IdentityOK(q, cs, ct)
BY DEF IdentityOK, ImportOK

\* One request goes on, or ends.
LEMMA OneGoesOn ==
  ASSUME IInv, DInv, NEW r \in Requests, NEW q, req' = [req EXCEPT ![r] = q],
         UNCHANGED <<customers, batches>>, IdentityOK(q, customers, batches),
         \A s \in Requests \ {r} : q.rows \cap req[s].rows = {}
  PROVE  DInv'
<1>1. \A s \in Requests : req'[s] = IF s = r THEN q ELSE req[s]
  BY DEF IInv
<1>2. \A s \in Requests : IdentityOK(req'[s], customers, batches)
  BY <1>1 DEF DInv
<1>3. RowsAreExclusive'
  BY <1>1 DEF DInv, RowsAreExclusive
<1> QED BY <1>2, <1>3 DEF DInv

\* It locks no row that is not its own already.
LEMMA OneStays ==
  ASSUME IInv, DInv, NEW r \in Requests, NEW q, req' = [req EXCEPT ![r] = q],
         UNCHANGED <<customers, batches>>, IdentityOK(q, customers, batches),
         q.rows \subseteq req[r].rows
  PROVE  DInv'
<1>1. \A s \in Requests \ {r} : q.rows \cap req[s].rows = {}
  BY DEF DInv, RowsAreExclusive
<1> QED BY <1>1, OneGoesOn

LEMMA EndedHas ==
  ASSUME NEW q, DOMAIN q = Fields, NEW outcome, NEW answer
  PROVE  LET e == Ended(q, outcome, answer) IN
         /\ e.step = "done" /\ e.held = {} /\ e.rows = {} /\ e.item = 0 /\ e.plan = <<>>
         /\ e.target = 0 /\ e.kind = q.kind /\ e.profile = q.profile /\ e.batch = q.batch
BY DEF Ended, Fields

LEMMA EndedReliesOnNothing ==
  ASSUME IInv, DInv, NEW r \in Requests, NEW outcome, NEW answer
  PROVE  LET e == Ended(req[r], outcome, answer) IN
         e.rows = {} /\ e.held = {} /\ IdentityOK(e, customers, batches)
<1> DEFINE e == Ended(req[r], outcome, answer)
<1>1. DOMAIN req[r] = Fields
  BY DEF IInv, RequestOK
<1>2. /\ e.step = "done" /\ e.held = {} /\ e.rows = {} /\ e.item = 0 /\ e.plan = <<>>
      /\ e.target = 0 /\ e.kind = req[r].kind /\ e.profile = req[r].profile
      /\ e.batch = req[r].batch
  BY <1>1, EndedHas
<1> HIDE DEF e
<1>3. IdentityOK(req[r], customers, batches)
  BY DEF DInv
<1>4. IdentityOK(e, customers, batches)
  BY <1>2, <1>3 DEF IdentityOK, CreationOK, HasKeys, Deciding, Saw, ImportOK, EditOK
<1> QED BY <1>2, <1>4 DEF e

LEMMA OneEnds ==
  ASSUME IInv, DInv, NEW r \in Requests, NEW outcome, NEW answer,
         Finish(r, outcome, answer), UNCHANGED <<customers, batches>>
  PROVE  DInv'
<1> DEFINE e == Ended(req[r], outcome, answer)
<1>1. e.rows = {} /\ IdentityOK(e, customers, batches)
  BY EndedReliesOnNothing
<1>2. req' = [req EXCEPT ![r] = e]
  BY DEF Finish
<1> HIDE DEF e
<1> QED BY <1>1, <1>2, OneStays

\* It ends with a write to the customers it has locked, under its keys.
LEMMA OneWrites ==
  ASSUME IInv, DInv, NEW r \in Requests, NEW outcome, NEW answer, Finish(r, outcome, answer),
         customers' \in Seq(CustomerRows), SharedByHand(customers'),
         Grew(customers, customers', req[r].held),
         \A d \in DOMAIN customers \ req[r].rows : customers'[d] = customers[d],
         DOMAIN batches' = Batches,
         \A b \in Batches : /\ batches'[b].rows = batches[b].rows
                            /\ Valid(batches[b]) <=> Valid(batches'[b])
  PROVE  DInv'
<1> DEFINE e == Ended(req[r], outcome, answer)
<1>1. e.rows = {} /\ e.held = {} /\ IdentityOK(e, customers, batches)
  BY EndedReliesOnNothing
<1>2. req' = [req EXCEPT ![r] = e]
  BY DEF Finish
<1> HIDE DEF e
<1>3. \A s \in Requests : req'[s] = IF s = r THEN e ELSE req[s]
  BY <1>2 DEF IInv
<1>4. ASSUME NEW s \in Requests
      PROVE  IdentityOK(req'[s], customers', batches)
  <2> DEFINE q == req'[s]
  <2>1. IdentityOK(q, customers, batches) /\ \A b \in Batches : BatchOK(batches[b])
    BY <1>1, <1>3 DEF DInv
  <2>2. req[r].held \cap q.held = {}
    BY <1>1, <1>3 DEF IInv, KeysAreExclusive
  <2>3. \A d \in DOMAIN customers \cap q.rows : customers'[d] = customers[d]
    BY <1>1, <1>3 DEF DInv, RowsAreExclusive
  <2> HIDE DEF q
  <2>4. IdentityOK(q, customers', batches)
    BY <2>1, <2>2, <2>3, ReliesOnOthers
  <2> QED BY <2>4 DEF q
<1>5. \A s \in Requests : IdentityOK(req'[s], customers', batches')
  BY <1>4, ReliesOnRows
<1>6. RowsAreExclusive'
  BY <1>1, <1>3 DEF DInv, RowsAreExclusive
<1>7. \A b \in Batches : BatchOK(batches'[b])
  BY DEF DInv, BatchOK
<1> QED BY <1>5, <1>6, <1>7 DEF DInv

\* A hand writes, with no key, to customers that nobody has locked.
LEMMA AHandWrites ==
  ASSUME IInv, DInv, UNCHANGED <<req, batches>>,
         customers' \in Seq(CustomerRows), SharedByHand(customers'),
         Grew(customers, customers', {}),
         \A d \in DOMAIN customers : ~RowFree(d) => customers'[d] = customers[d]
  PROVE  DInv'
<1>1. ASSUME NEW s \in Requests
      PROVE  IdentityOK(req[s], customers', batches)
  <2>1. IdentityOK(req[s], customers, batches) /\ \A b \in Batches : BatchOK(batches[b])
    BY DEF DInv
  <2>2. \A d \in DOMAIN customers \cap req[s].rows : customers'[d] = customers[d]
    BY DEF RowFree
  <2>3. {} \cap req[s].held = {}
    OBVIOUS
  <2> QED BY <2>1, <2>2, <2>3, ReliesOnOthers
<1> QED BY <1>1 DEF DInv, RowsAreExclusive

LEMMA IdleHas ==
  /\ DOMAIN Idle = Fields /\ Idle.rows = {} /\ Idle.plan = <<>> /\ Idle.target = 0
  /\ Idle.item = 0 /\ Idle.profile = Blank /\ Idle.held = {} /\ Idle.step = "ready"
BY DEF Idle, Fields

LEMMA BlankIs == Blank \in Profiles /\ Signals(Blank) = {}
BY DEF Blank, Profiles, Signals

LEMMA BeginsKnowing ==
  ASSUME IInv, DInv, NEW r \in Requests, Requested(r)
  PROVE  DInv'
<1>1. ASSUME NEW q, req' = [req EXCEPT ![r] = q], UNCHANGED <<customers, batches>>,
             q.rows = {}, IdentityOK(q, customers, batches)
      PROVE  DInv'
  BY <1>1, OneStays
<1>2. ASSUME NEW i, NEW p \in Offered, NEW x, BeginLead(r, i, p, x) \/ BeginManual(r, i, p, x)
      PROVE  DInv'
  <2>1. PICK kind \in {"lead", "manual"} :
          Begin(r, [Idle EXCEPT !.kind = kind, !.id = i, !.profile = p, !.rest = x,
                      !.wanted = LockKeys(i, p), !.step = "locks"])
    BY <1>2 DEF BeginLead, BeginManual
  <2> DEFINE q == [Idle EXCEPT !.kind = kind, !.id = i, !.profile = p, !.rest = x,
                     !.wanted = LockKeys(i, p), !.step = "locks"]
  <2>2. /\ q.rows = {} /\ q.kind = kind /\ q.target = 0 /\ q.profile = p
        /\ q.step = "locks" /\ q.wanted = LockKeys(i, p)
    BY IdleHas DEF Fields
  <2>3. req' = [req EXCEPT ![r] = q] /\ UNCHANGED <<customers, batches>>
    BY <2>1 DEF Begin, Advance
  <2> HIDE DEF q
  <2>4. p \in Profiles
    BY OfferedAreProfiles DEF Profiles
  <2>5. CreationOK(q, customers)
    BY <2>2, <2>4 DEF CreationOK, HasKeys, Deciding, Saw, LockKeys
  <2>6. IdentityOK(q, customers, batches)
    BY <2>2, <2>5 DEF IdentityOK
  <2> QED BY <1>1, <2>2, <2>3, <2>6
<1>3. ASSUME NEW i, NEW c, NEW x, BeginChosen(r, i, c, x)
      PROVE  DInv'
  <2> DEFINE q == [Idle EXCEPT !.kind = "chosen", !.id = i, !.rest = x, !.asked = c,
                     !.wanted = {<<"id", i>>}, !.step = "locks"]
  <2>1. /\ q.rows = {} /\ q.kind = "chosen" /\ q.target = 0 /\ q.profile = Blank
        /\ q.step = "locks"
    BY IdleHas DEF Fields
  <2>2. req' = [req EXCEPT ![r] = q] /\ UNCHANGED <<customers, batches>>
    BY <1>3 DEF BeginChosen, Begin, Advance
  <2> HIDE DEF q
  <2>3. CreationOK(q, customers)
    BY <2>1, BlankIs DEF CreationOK, HasKeys, Deciding, Saw
  <2>4. IdentityOK(q, customers, batches)
    BY <2>1, <2>3 DEF IdentityOK
  <2> QED BY <1>1, <2>1, <2>2, <2>4
<1>4. ASSUME NEW b \in Batches, NEW i, BeginImport(r, b, i)
      PROVE  DInv'
  <2> DEFINE q == [Idle EXCEPT !.kind = "import", !.batch = b, !.id = i,
                     !.wanted = {<<"batch", b>>}, !.step = "locks"]
  <2>1. /\ q.rows = {} /\ q.kind = "import" /\ q.item = 0 /\ q.plan = <<>>
        /\ q.batch = b /\ q.step = "locks"
    BY IdleHas DEF Fields
  <2>2. req' = [req EXCEPT ![r] = q] /\ UNCHANGED <<customers, batches>>
    BY <1>4 DEF BeginImport, Begin, Advance
  <2> HIDE DEF q
  <2>3. IdentityOK(q, customers, batches)
    BY <2>1 DEF IdentityOK, ImportOK, IdKinds
  <2> QED BY <1>1, <2>1, <2>2, <2>3
<1>5. ASSUME NEW c \in DOMAIN customers, NEW p \in Offered, BeginEdit(r, c, p)
      PROVE  DInv'
  <2> DEFINE q == [Idle EXCEPT !.kind = "edit", !.asked = c, !.profile = p, !.step = "row"]
  <2>1. /\ q.rows = {} /\ q.kind = "edit" /\ q.asked = c /\ q.profile = p /\ q.step = "row"
    BY IdleHas DEF Fields
  <2>2. req' = [req EXCEPT ![r] = q] /\ UNCHANGED <<customers, batches>>
    BY <1>5 DEF BeginEdit
  <2> HIDE DEF q
  <2>3. p \in Profiles
    BY OfferedAreProfiles DEF Profiles
  <2>4. IdentityOK(q, customers, batches)
    BY <2>1, <2>3 DEF IdentityOK, EditOK, IdKinds
  <2> QED BY <1>1, <2>1, <2>2, <2>4
<1>6. ASSUME BeginRecompute(r)
      PROVE  DInv'
  <2> DEFINE q == [Idle EXCEPT !.kind = "job", !.target = 1, !.item = Len(customers),
                                !.step = "flag"]
  <2>1. q.rows = {} /\ q.kind = "job"
    BY IdleHas DEF Fields
  <2>2. req' = [req EXCEPT ![r] = q] /\ UNCHANGED <<customers, batches>>
    BY <1>6 DEF BeginRecompute, Begin, Advance
  <2> HIDE DEF q
  <2>3. IdentityOK(q, customers, batches)
    BY <2>1 DEF IdentityOK, IdKinds
  <2> QED BY <1>1, <2>1, <2>2, <2>3
<1> QED BY <1>2, <1>3, <1>4, <1>5, <1>6 DEF Requested

\* A key more.
LEMMA KeysKnowing ==
  ASSUME IInv, DInv, NEW r \in Requests, TakeKey(r) \/ TakeFlagKey(r)
  PROVE  DInv'
<1>1. DOMAIN req[r] = Fields /\ IdentityOK(req[r], customers, batches)
  BY DEF IInv, RequestOK, DInv
<1>2. CASE TakeKey(r)
  <2> DEFINE k == NextKey(req[r].kind, req[r].wanted)
             rest == req[r].wanted \ {k}
             q == [req[r] EXCEPT !.held = @ \cup {k}, !.wanted = rest,
                     !.step = IF rest # {} THEN "locks"
                              ELSE IF req[r].item = 0 THEN "lookup" ELSE "email"]
  <2>1. req[r].step = "locks" /\ req' = [req EXCEPT ![r] = q] /\ UNCHANGED <<customers, batches>>
    BY <1>2 DEF TakeKey, Advance
  <2>2. /\ q.kind = req[r].kind /\ q.profile = req[r].profile /\ q.target = req[r].target
        /\ q.batch = req[r].batch /\ q.item = req[r].item /\ q.plan = req[r].plan
        /\ q.asked = req[r].asked /\ q.rows = req[r].rows
        /\ q.held = req[r].held \cup {k} /\ q.wanted = rest
        /\ q.step = IF rest # {} THEN "locks"
                    ELSE IF req[r].item = 0 THEN "lookup" ELSE "email"
    BY <1>1 DEF Fields
  <2> HIDE DEF q, k
  <2>3. \A signals : HasKeys(req[r], signals) => HasKeys(q, signals)
    BY <2>1, <2>2 DEF HasKeys, Deciding
  <2>4. q.kind \in IdKinds => CreationOK(q, customers)
    <3>1. q.kind \in IdKinds => req[r].item = 0
      BY <2>2 DEF IInv, RequestOK, IdOK
    <3> QED BY <1>1, <2>1, <2>2, <2>3, <3>1 DEF IdentityOK, CreationOK, Saw
  <2>5. q.kind = "import" => q.batch \in Batches /\ ImportOK(q, customers, batches[q.batch])
    BY <1>1, <2>1, <2>2, <2>3 DEF IdentityOK, ImportOK, Saw, Planned
  <2>6. q.kind = "edit" => EditOK(q, customers)
    BY <1>1, <2>1, <2>2 DEF IdentityOK, EditOK
  <2>7. IdentityOK(q, customers, batches)
    BY <2>4, <2>5, <2>6 DEF IdentityOK
  <2> QED BY <2>1, <2>2, <2>7, OneStays
<1>3. CASE TakeFlagKey(r)
  <2> DEFINE keys == FlagKeys(req[r].target)
             q == [req[r] EXCEPT !.held = @ \cup keys,
                                 !.step = IF req[r].kind = "job" THEN "row" ELSE "commit"]
  <2>1. req[r].step = "flag" /\ req' = [req EXCEPT ![r] = q] /\ UNCHANGED <<customers, batches>>
    BY <1>3 DEF TakeFlagKey, Advance
  <2>2. /\ q.kind = req[r].kind /\ q.profile = req[r].profile /\ q.target = req[r].target
        /\ q.asked = req[r].asked /\ q.rows = req[r].rows
        /\ q.held = req[r].held \cup keys
        /\ q.step = IF req[r].kind = "job" THEN "row" ELSE "commit"
    BY <1>1 DEF Fields
  <2> HIDE DEF q, keys
  <2>3. q.kind \in IdKinds => CreationOK(q, customers)
    BY <1>1, <2>1, <2>2 DEF IdentityOK, CreationOK, HasKeys, Deciding, Saw, IdKinds
  <2>4. q.kind # "import"
    BY <1>1, <2>1, <2>2 DEF IdentityOK, ImportOK
  <2>5. q.kind = "edit" => EditOK(q, customers)
    BY <1>1, <2>1, <2>2 DEF IdentityOK, EditOK
  <2>6. IdentityOK(q, customers, batches)
    BY <2>3, <2>4, <2>5 DEF IdentityOK
  <2> QED BY <2>1, <2>2, <2>6, OneStays
<1> QED BY <1>2, <1>3

LEMMA LooksUpKnowing ==
  ASSUME IInv, DInv, NEW r \in Requests, LookUp(r) \/ LookUpBatch(r)
  PROVE  DInv'
<1>1. DOMAIN req[r] = Fields /\ IdentityOK(req[r], customers, batches) /\ req[r].step = "lookup"
  BY DEF IInv, RequestOK, DInv, LookUp, LookUpBatch
<1>2. CASE \E outcome, answer : Finish(r, outcome, answer) /\ UNCHANGED <<customers, batches>>
  BY <1>2, OneEnds
<1>3. CASE LookUp(r)
  <2>1. req[r].kind \in IdKinds
    BY <1>3 DEF LookUp, IdKinds
  <2>2. CASE \E step \in {"row", "email"} : Advance(r, [req[r] EXCEPT !.step = step])
    <3>1. PICK step \in {"row", "email"} : Advance(r, [req[r] EXCEPT !.step = step])
      BY <2>2
    <3> DEFINE q == [req[r] EXCEPT !.step = step]
    <3>2. /\ q.kind = req[r].kind /\ q.profile = req[r].profile /\ q.target = req[r].target
          /\ q.rows = req[r].rows /\ q.held = req[r].held /\ q.step = step
      BY <1>1 DEF Fields
    <3>3. req' = [req EXCEPT ![r] = q] /\ UNCHANGED <<customers, batches>>
      BY <3>1 DEF Advance
    <3> HIDE DEF q
    <3>4. CreationOK(q, customers)
      BY <1>1, <2>1, <3>2 DEF IdentityOK, CreationOK, HasKeys, Deciding, Saw
    <3>5. IdentityOK(q, customers, batches)
      BY <2>1, <3>2, <3>4 DEF IdentityOK, IdKinds
    <3> QED BY <3>2, <3>3, <3>5, OneStays
  <2>3. \/ \E outcome, answer : Finish(r, outcome, answer) /\ UNCHANGED <<customers, batches>>
        \/ \E step \in {"row", "email"} : Advance(r, [req[r] EXCEPT !.step = step])
    BY <1>3 DEF LookUp, Fail
  <2> QED BY <1>2, <2>2, <2>3
<1>4. CASE LookUpBatch(r)
  <2> DEFINE b == batches[req[r].batch]
             signals == FileSignals(b.rows)
             q == [AtRow(req[r], 1) EXCEPT !.wanted = signals,
                     !.step = IF signals = {} THEN "email" ELSE "locks"]
  <2>1. /\ req[r].kind = "import"
        /\ \/ \E outcome, answer : Finish(r, outcome, answer) /\ UNCHANGED <<customers, batches>>
           \/ b.status = "VALID" /\ Advance(r, q)
    BY <1>4 DEF LookUpBatch, Fail, FileSignals
  <2>2. CASE b.status = "VALID" /\ Advance(r, q)
    <3>1. /\ q.kind = "import" /\ q.batch = req[r].batch /\ q.item = 1 /\ q.plan = req[r].plan
          /\ q.profile = b.rows[1].profile /\ q.rows = req[r].rows /\ q.held = req[r].held
          /\ q.wanted = signals /\ q.step = IF signals = {} THEN "email" ELSE "locks"
      BY <1>1, <2>1 DEF AtRow, Fields
    <3>2. req' = [req EXCEPT ![r] = q] /\ UNCHANGED <<customers, batches>>
      BY <2>2 DEF Advance
    <3>3. /\ req[r].batch \in Batches /\ req[r].plan = <<>>
      BY <1>1, <2>1 DEF IdentityOK, ImportOK
    <3>4. b.rows \in Seq(ImportRows) /\ b.rows # <<>>
      BY <2>2, <3>3 DEF DInv, BatchOK, Valid
    <3> HIDE DEF q, b
    <3>5. 1 \in 1..Len(b.rows) /\ SubSeq(b.rows, 1, 0) = <<>>
      BY <3>4
    <3>6. Valid(b) /\ Planned(q, b.rows) = 0
      BY <2>2, <3>1 DEF Valid, Planned
    <3>7. ImportOK(q, customers, b)
      BY <3>1, <3>3, <3>5, <3>6 DEF ImportOK, HasKeys, Deciding, Saw
    <3>8. IdentityOK(q, customers, batches)
      BY <3>1, <3>3, <3>7 DEF IdentityOK, IdKinds, b
    <3> QED BY <3>1, <3>2, <3>8, OneStays
  <2> QED BY <1>2, <2>1, <2>2
<1> QED BY <1>3, <1>4

LEMMA MatchesVouch ==
  ASSUME NEW signals
  PROVE  /\ Vouched(customers, signals, Matching(signals))
         /\ Matching(signals) \subseteq DOMAIN customers
BY DEF Vouched, Matching

LEMMA SignalsAreTwo ==
  ASSUME NEW p
  PROVE  Signals(p) = EmailSignals(p) \cup PhoneSignals(p)
<1>1. \A s \in Signals(p) : s[1] = "email" \/ s[1] = "phone"
  BY DEF Signals
<1> QED BY <1>1 DEF EmailSignals, PhoneSignals

\* Rows are locked that nobody else has.
LEMMA MatchesKnowing ==
  ASSUME IInv, DInv, NEW r \in Requests, LockEmailMatches(r) \/ LockPhoneMatches(r)
  PROVE  DInv'
<1>1. DOMAIN req[r] = Fields /\ IdentityOK(req[r], customers, batches)
  BY DEF IInv, RequestOK, DInv
<1>2. PICK matches, found, step :
        /\ Lockers(r, matches) = {}
        /\ Advance(r, [req[r] EXCEPT !.rows = @ \cup matches, !.found = found, !.step = step])
        /\ \/ /\ req[r].step = "email" /\ step = "phone" /\ found = matches
              /\ matches = Matching(EmailSignals(req[r].profile))
           \/ /\ req[r].step = "phone" /\ step = "decide" /\ found = req[r].found \cup matches
              /\ matches = Matching(PhoneSignals(req[r].profile))
  <2>1. CASE LockEmailMatches(r)
    BY <2>1, Zenon DEF LockEmailMatches
  <2>2. CASE LockPhoneMatches(r)
    BY <2>2, Zenon DEF LockPhoneMatches
  <2> QED BY <2>1, <2>2
<1> DEFINE q == [req[r] EXCEPT !.rows = @ \cup matches, !.found = found, !.step = step]
<1>3. /\ q.kind = req[r].kind /\ q.profile = req[r].profile /\ q.target = req[r].target
      /\ q.batch = req[r].batch /\ q.item = req[r].item /\ q.plan = req[r].plan
      /\ q.held = req[r].held /\ q.rows = req[r].rows \cup matches
      /\ q.found = found /\ q.step = step
  BY <1>1 DEF Fields
<1>4. req' = [req EXCEPT ![r] = q] /\ UNCHANGED <<customers, batches>>
  BY <1>2 DEF Advance
<1> HIDE DEF q
<1>5. ASSUME NEW signals, HasKeys(req[r], signals)
      PROVE  HasKeys(q, signals)
  BY <1>2, <1>3, <1>5 DEF HasKeys, Deciding
<1>6. matches \subseteq DOMAIN customers
  BY <1>2, MatchesVouch
<1>7. ASSUME Saw(req[r], customers)
      PROVE  Saw(q, customers)
  <2>1. CASE req[r].step = "email"
    BY <1>2, <1>3, <1>6, <2>1, MatchesVouch DEF Saw
  <2>2. CASE req[r].step = "phone"
    <3> DEFINE p == req[r].profile
    <3>1. /\ req[r].found \subseteq req[r].rows \cap DOMAIN customers
          /\ Vouched(customers, EmailSignals(p), req[r].found)
          /\ step = "decide" /\ found = req[r].found \cup matches
          /\ matches = Matching(PhoneSignals(p))
      BY <1>2, <1>7, <2>2 DEF Saw
    <3>2. Vouched(customers, PhoneSignals(p), matches)
      BY <3>1, MatchesVouch
    <3>3. Vouched(customers, Signals(p), found)
      <4> HIDE DEF p
      <4> QED BY <3>1, <3>2, SignalsAreTwo DEF Vouched
    <3> QED BY <1>3, <1>6, <3>1, <3>3 DEF Saw
  <2> QED BY <1>2, <2>1, <2>2
<1>8. q.kind \in IdKinds => CreationOK(q, customers)
  <2> SUFFICES ASSUME q.kind \in IdKinds PROVE CreationOK(q, customers)
    OBVIOUS
  <2>1. CreationOK(req[r], customers)
    BY <1>1, <1>3 DEF IdentityOK
  <2>2. HasKeys(q, Signals(q.profile)) /\ Saw(q, customers)
    BY <1>3, <1>5, <1>7, <2>1 DEF CreationOK
  <2> QED BY <1>2, <1>3, <2>1, <2>2 DEF CreationOK
<1>9. q.kind = "import" => q.batch \in Batches /\ ImportOK(q, customers, batches[q.batch])
  <2> SUFFICES ASSUME q.kind = "import"
               PROVE  q.batch \in Batches /\ ImportOK(q, customers, batches[q.batch])
    OBVIOUS
  <2> DEFINE b == batches[q.batch]
  <2>1. q.batch \in Batches /\ ImportOK(req[r], customers, b)
    BY <1>1, <1>3 DEF IdentityOK
  <2> HIDE DEF b
  <2>2. q.item # 0
    BY <1>2, <1>3, <2>1 DEF ImportOK
  <2>3. HasKeys(q, FileSignals(b.rows)) /\ Saw(q, customers)
    BY <1>3, <1>5, <1>7, <2>1, <2>2 DEF ImportOK
  <2>4. Planned(q, b.rows) = Planned(req[r], b.rows)
    BY <1>2, <1>3 DEF Planned
  <2>5. \A i \in 1..Planned(q, b.rows) : PlannedOK(q.rows, customers, b.rows, i)
    <3>1. \A i \in 1..Planned(q, b.rows) : PlannedOK(req[r].rows, customers, b.rows, i)
      BY <1>3, <2>1, <2>2, <2>4 DEF ImportOK
    <3> QED BY <1>3, <3>1 DEF PlannedOK
  <2>6. ImportOK(q, customers, b)
    BY <1>2, <1>3, <2>1, <2>2, <2>3, <2>4, <2>5 DEF ImportOK
  <2> QED BY <2>1, <2>6 DEF b
<1>10. q.kind = "edit" => EditOK(q, customers)
  BY <1>1, <1>2, <1>3 DEF IdentityOK, EditOK
<1>11. IdentityOK(q, customers, batches)
  BY <1>8, <1>9, <1>10 DEF IdentityOK
<1>12. \A s \in Requests \ {r} : q.rows \cap req[s].rows = {}
  BY <1>2, <1>3 DEF Lockers, Others, DInv, RowsAreExclusive
<1> QED BY <1>4, <1>11, <1>12, OneGoesOn

\* Two live customers among what was found are ambiguous.
LEMMA OneIsLive ==
  ASSUME DInv, NEW found, found \subseteq DOMAIN customers, ~Ambiguous(found),
         NEW c \in Live(found), NEW d \in Live(found)
  PROVE  c = d
<1> SUFFICES ASSUME c # d PROVE FALSE
  OBVIOUS
<1>1. customers \in Seq(CustomerRows)
  BY DEF DInv
<1>2. Len(customers) \in Nat /\ DOMAIN customers = 1..Len(customers)
  BY <1>1
<1>3. IsFiniteSet(1..Len(customers))
  BY <1>2, FS_Interval
<1>4. Live(found) \subseteq 1..Len(customers) /\ {c, d} \subseteq Live(found)
  BY <1>2 DEF Live
<1>5. IsFiniteSet(Live(found)) /\ Cardinality(Live(found)) \in Nat
  BY <1>3, <1>4, FS_Subset, FS_CardinalityType
<1>6. Cardinality({c, d}) = 2
  <2>1. IsFiniteSet({c}) /\ Cardinality({c}) = 1
    BY FS_Singleton
  <2>2. Cardinality({c} \cup {d}) = Cardinality({c}) + 1
    BY <2>1, FS_AddElement
  <2>3. {c} \cup {d} = {c, d}
    OBVIOUS
  <2> QED BY <2>1, <2>2, <2>3
<1>7. Cardinality({c, d}) <= Cardinality(Live(found))
  BY <1>4, <1>5, FS_Subset
<1> QED BY <1>5, <1>6, <1>7 DEF Ambiguous

LEMMA DecidesKnowing ==
  ASSUME IInv, DInv, NEW r \in Requests, DecideLead(r) \/ DecideManual(r)
  PROVE  DInv'
<1>1. /\ DOMAIN req[r] = Fields /\ req[r].step = "decide" /\ req[r].kind \in IdKinds
      /\ CreationOK(req[r], customers)
  BY DEF IInv, RequestOK, DInv, DecideLead, DecideManual, IdKinds, IdentityOK
<1>2. CASE \E outcome : Fail(r, outcome)
  BY <1>2, OneEnds DEF Fail
<1> DEFINE found == req[r].found
           p == req[r].profile
<1>3. /\ found \subseteq req[r].rows /\ found \subseteq DOMAIN customers
      /\ Vouched(customers, Signals(p), found)
  BY <1>1 DEF CreationOK, Saw
\* A customer is created, or the one that was found is taken.
<1>4. ASSUME NEW target, Advance(r, [req[r] EXCEPT !.step = "flag", !.target = target]),
             target # 0 => target \in req[r].rows,
             Vouched(customers, Signals(p), {target})
      PROVE  DInv'
  <2> DEFINE q == [req[r] EXCEPT !.step = "flag", !.target = target]
  <2>1. /\ q.kind = req[r].kind /\ q.profile = p /\ q.target = target
        /\ q.held = req[r].held /\ q.rows = req[r].rows /\ q.step = "flag"
    BY <1>1 DEF Fields
  <2>2. req' = [req EXCEPT ![r] = q] /\ UNCHANGED <<customers, batches>>
    BY <1>4 DEF Advance
  <2> HIDE DEF q
  <2>3. CreationOK(q, customers)
    BY <1>1, <1>4, <2>1 DEF CreationOK, HasKeys, Deciding, Saw
  <2>4. IdentityOK(q, customers, batches)
    BY <1>1, <2>1, <2>3 DEF IdentityOK, IdKinds
  <2> QED BY <2>1, <2>2, <2>4, OneStays
<1>5. CASE DecideLead(r)
  <2> DEFINE target == IF Live(found) = {} THEN 0 ELSE TheCustomer(found)
  <2>1. \/ Fail(r, "ambiguous")
        \/ /\ ~Ambiguous(found)
           /\ Advance(r, [req[r] EXCEPT !.step = "flag", !.target = target])
    BY <1>5 DEF DecideLead
  <2>2. CASE ~Ambiguous(found) /\ Advance(r, [req[r] EXCEPT !.step = "flag", !.target = target])
    <3>1. Live(found) # {} => target \in Live(found)
      BY DEF TheCustomer
    <3>2. target # 0 => target \in req[r].rows
      BY <1>3, <3>1 DEF Live
    <3>3. \A d \in Live(found) : d = target
      BY <1>3, <2>2, <3>1, OneIsLive
    <3> HIDE DEF found, p, target
    <3>4. Vouched(customers, Signals(p), {target})
      BY <1>3, <3>3 DEF Vouched, Live
    <3> QED BY <1>4, <2>2, <3>2, <3>4
  <2> QED BY <1>2, <2>1, <2>2
<1>6. CASE DecideManual(r)
  <2>1. \/ \E outcome : Fail(r, outcome)
        \/ found = {} /\ Advance(r, [req[r] EXCEPT !.step = "flag"])
    BY <1>6 DEF DecideManual
  <2>2. CASE found = {} /\ Advance(r, [req[r] EXCEPT !.step = "flag"])
    <3>1. req[r].target = 0
      BY <1>1 DEF CreationOK
    <3>2. [req[r] EXCEPT !.step = "flag", !.target = 0] = [req[r] EXCEPT !.step = "flag"]
      BY <3>1
    <3>3. Vouched(customers, Signals(p), {0})
      BY <1>3, <2>2 DEF Vouched
    <3> QED BY <1>4, <2>2, <3>2, <3>3
  <2> QED BY <1>2, <2>1, <2>2
<1> QED BY <1>5, <1>6

\* The customer that was chosen, edited or recomputed is locked alive.
LEMMA RowsKnowing ==
  ASSUME IInv, DInv, NEW r \in Requests,
         \/ LockChosen(r) \/ LockRecomputed(r)
         \/ \E override \in BOOLEAN : LockEdited(r, override)
  PROVE  DInv'
<1>1. DOMAIN req[r] = Fields /\ IdentityOK(req[r], customers, batches) /\ req[r].step = "row"
  BY DEF IInv, RequestOK, DInv, LockChosen, LockRecomputed, LockEdited
<1>2. CASE \E outcome : Fail(r, outcome)
  BY <1>2, OneEnds DEF Fail
<1>3. CASE LockChosen(r) /\ ~\E outcome : Fail(r, outcome)
  <2> DEFINE c == req[r].asked
             q == [req[r] EXCEPT !.rows = {c}, !.target = c, !.step = "flag"]
  <2>1. Lockers(r, {c}) = {} /\ Advance(r, q) /\ req[r].kind = "chosen"
    BY <1>3 DEF LockChosen
  <2>2. /\ q.kind = "chosen" /\ q.profile = req[r].profile /\ q.target = c
        /\ q.held = req[r].held /\ q.rows = {c} /\ q.step = "flag"
    BY <1>1, <2>1 DEF Fields
  <2>3. req' = [req EXCEPT ![r] = q] /\ UNCHANGED <<customers, batches>>
    BY <2>1 DEF Advance
  <2> HIDE DEF q, c
  <2>4. CreationOK(req[r], customers) /\ Signals(req[r].profile) = {}
    BY <1>1, <2>1 DEF IdentityOK, CreationOK, IdKinds
  <2>5. CreationOK(q, customers)
    BY <2>2, <2>4 DEF CreationOK, HasKeys, Saw, Vouched
  <2>6. IdentityOK(q, customers, batches)
    BY <2>2, <2>5 DEF IdentityOK
  <2>7. \A s \in Requests \ {r} : q.rows \cap req[s].rows = {}
    BY <2>1, <2>2 DEF Lockers, Others
  <2> QED BY <2>3, <2>6, <2>7, OneGoesOn
<1>4. CASE LockRecomputed(r) /\ ~\E outcome : Fail(r, outcome)
  <2> DEFINE c == req[r].target
             q == [req[r] EXCEPT !.rows = @ \cup {c}, !.target = @ + 1, !.step = "flag"]
  <2>1. Lockers(r, {c}) = {} /\ Advance(r, q) /\ req[r].kind = "job"
    BY <1>4 DEF LockRecomputed
  <2>2. q.kind = "job" /\ q.rows = req[r].rows \cup {c}
    BY <1>1, <2>1 DEF Fields
  <2>3. req' = [req EXCEPT ![r] = q] /\ UNCHANGED <<customers, batches>>
    BY <2>1 DEF Advance
  <2> HIDE DEF q, c
  <2>4. IdentityOK(q, customers, batches)
    BY <2>2 DEF IdentityOK, IdKinds
  <2>5. \A s \in Requests \ {r} : q.rows \cap req[s].rows = {}
    BY <2>1, <2>2 DEF Lockers, Others, DInv, RowsAreExclusive
  <2> QED BY <2>3, <2>4, <2>5, OneGoesOn
<1>5. ASSUME NEW override \in BOOLEAN, LockEdited(r, override), ~\E outcome : Fail(r, outcome)
      PROVE  DInv'
  <2> DEFINE c == req[r].asked
             q == [req[r] EXCEPT !.rows = {c}, !.target = c,
                                 !.step = IF override THEN "flag" ELSE "commit"]
  <2>1. Lockers(r, {c}) = {} /\ Advance(r, q) /\ req[r].kind = "edit" /\ customers[c].live
    BY <1>5 DEF LockEdited
  <2>2. /\ q.kind = "edit" /\ q.profile = req[r].profile /\ q.target = c /\ q.asked = c
        /\ q.rows = {c} /\ q.step = IF override THEN "flag" ELSE "commit"
    BY <1>1, <2>1 DEF Fields
  <2>3. req' = [req EXCEPT ![r] = q] /\ UNCHANGED <<customers, batches>>
    BY <2>1 DEF Advance
  <2>4. EditOK(req[r], customers) /\ c \in DOMAIN customers
    BY <1>1, <2>1 DEF IdentityOK, EditOK
  <2> HIDE DEF q, c
  <2>5. EditOK(q, customers)
    BY <2>1, <2>2, <2>4 DEF EditOK
  <2>6. IdentityOK(q, customers, batches)
    BY <2>2, <2>5 DEF IdentityOK, IdKinds
  <2>7. \A s \in Requests \ {r} : q.rows \cap req[s].rows = {}
    BY <2>1, <2>2 DEF Lockers, Others
  <2> QED BY <2>3, <2>6, <2>7, OneGoesOn
<1> QED BY <1>2, <1>3, <1>4, <1>5

LEMMA SubSeqGrows ==
  ASSUME NEW S, NEW s \in Seq(S), NEW k \in 1..Len(s)
  PROVE  /\ Append(SubSeq(s, 1, k - 1), s[k]) = SubSeq(s, 1, k)
         /\ SubSeq(s, 1, Len(s)) = s
<1>1. Len(s) \in Nat /\ DOMAIN s = 1..Len(s)
  OBVIOUS
<1>2. SubSeq(s, 1, k - 1) \in Seq(S) /\ Len(SubSeq(s, 1, k - 1)) = k - 1
  BY <1>1
<1>3. SubSeq(s, 1, k) \in Seq(S) /\ Len(SubSeq(s, 1, k)) = k
  BY <1>1
<1>4. \A i \in 1..k : Append(SubSeq(s, 1, k - 1), s[k])[i] = SubSeq(s, 1, k)[i]
  BY <1>1, <1>2, <1>3
<1> QED BY <1>1, <1>2, <1>3, <1>4

\* A row of an import is planned: it creates, nobody else having its signals,
\* or concerns the one customer that was found.
LEMMA DecidesRowKnowing ==
  ASSUME IInv, DInv, NEW r \in Requests, DecideRow(r)
  PROVE  DInv'
<1> DEFINE b == batches[req[r].batch]
           i == req[r].item
           row == b.rows[i]
           found == req[r].found
           planned == [req[r] EXCEPT !.plan = Append(@, row)]
           q == IF i < Len(b.rows) THEN [AtRow(planned, i + 1) EXCEPT !.step = "email"]
                                   ELSE [planned EXCEPT !.step = "commit"]
<1>1. /\ DOMAIN req[r] = Fields /\ req[r].step = "decide" /\ req[r].kind = "import"
      /\ req[r].batch \in Batches /\ ImportOK(req[r], customers, b)
  BY DEF IInv, RequestOK, DInv, DecideRow, IdentityOK
<1>2. CASE Fail(r, "stale")
  BY <1>2, OneEnds DEF Fail
<1>3. CASE ~Stale(req[r], row) /\ Advance(r, q)
  <2>1. /\ Valid(b) /\ i \in 1..Len(b.rows) /\ i # 0 /\ req[r].profile = row.profile
        /\ FileSignals(b.rows) \subseteq req[r].held /\ Saw(req[r], customers)
        /\ req[r].plan = SubSeq(b.rows, 1, i - 1)
        /\ \A j \in 1..(i - 1) : PlannedOK(req[r].rows, customers, b.rows, j)
    BY <1>1 DEF ImportOK, HasKeys, Deciding, Planned
  <2>2. b.rows \in Seq(ImportRows) /\ Len(b.rows) \in Nat
    BY <1>1 DEF DInv, BatchOK
  <2>3. /\ found \subseteq req[r].rows /\ found \subseteq DOMAIN customers
        /\ Vouched(customers, Signals(row.profile), found)
    BY <1>1, <2>1 DEF Saw
  <2>4. /\ found = Live(found)
        /\ row.action = "CREATE" => found = {}
        /\ row.action # "CREATE" =>
             /\ found = {row.customer}
             /\ (row.action = "ENRICH")
                  = WouldEnrich(Working(req[r].plan, row.customer), row.profile)
    BY <1>3, <2>1 DEF Stale, HasDeleted
  <2>5. PlannedOK(req[r].rows, customers, b.rows, i)
    <3>1. Named(row) = found
      BY <2>4 DEF Named
    <3>2. Vouched(customers, Signals(row.profile), Named(row))
      BY <2>3, <3>1
    <3>3. ASSUME NEW c \in Named(row)
          PROVE  /\ c \in req[r].rows /\ c \in DOMAIN customers /\ customers[c].live
                 /\ (row.action = "ENRICH")
                      = WouldEnrich(Worked(customers[c], SubSeq(b.rows, 1, i - 1), c), row.profile)
      <4>1. c = row.customer /\ row.action # "CREATE"
        BY <3>3 DEF Named
      <4>2. Working(req[r].plan, c) = Worked(customers[c], SubSeq(b.rows, 1, i - 1), c)
        BY <2>1 DEF Working, Worked
      <4>3. c \in Live(found)
        BY <2>4, <3>1, <3>3
      <4> QED BY <2>3, <2>4, <4>1, <4>2, <4>3 DEF Live
    <3> HIDE DEF row
    <3> QED BY <3>2, <3>3 DEF PlannedOK, row
  <2>6. /\ planned.kind = "import" /\ planned.batch = req[r].batch /\ planned.item = i
        /\ planned.profile = req[r].profile /\ planned.held = req[r].held
        /\ planned.rows = req[r].rows /\ planned.plan = Append(req[r].plan, row)
        /\ DOMAIN planned = Fields
    BY <1>1 DEF Fields
  <2>7. planned.plan = SubSeq(b.rows, 1, i) /\ SubSeq(b.rows, 1, Len(b.rows)) = b.rows
    <3> HIDE DEF planned, b, i
    <3> QED BY <2>1, <2>2, <2>6, SubSeqGrows
  <2>8. \A j \in 1..i : PlannedOK(req[r].rows, customers, b.rows, j)
    <3>1. \A j \in 1..i : j = i \/ j \in 1..(i - 1)
      BY <2>1
    <3> QED BY <2>1, <2>5, <3>1
  <2>9. /\ q.kind = "import" /\ q.batch = req[r].batch /\ q.rows = req[r].rows
        /\ q.held = req[r].held /\ q.plan = planned.plan
        /\ IF i < Len(b.rows)
           THEN q.item = i + 1 /\ q.step = "email" /\ q.profile = b.rows[i + 1].profile
           ELSE q.item = i /\ q.step = "commit" /\ q.profile = req[r].profile
    <3> HIDE DEF planned
    <3> QED BY <2>6 DEF AtRow, Fields
  <2>10. req' = [req EXCEPT ![r] = q] /\ UNCHANGED <<customers, batches>>
    BY <1>3 DEF Advance
  <2> HIDE DEF q, planned, b, row, i
  <2>11. Planned(q, b.rows) = i
    <3>1. CASE i < Len(b.rows)
      <4>1. q.item = i + 1 /\ q.step = "email" /\ (i + 1) - 1 = i
        BY <2>1, <2>2, <2>9, <3>1
      <4> QED BY <4>1 DEF Planned
    <3>2. CASE ~(i < Len(b.rows))
      <4>1. q.step = "commit" /\ i = Len(b.rows)
        BY <2>1, <2>2, <2>9, <3>2
      <4> QED BY <4>1 DEF Planned
    <3> QED BY <3>1, <3>2
  <2>12. ImportOK(q, customers, b)
    <3>1. q.item \in 1..Len(b.rows) /\ q.item # 0
      BY <2>1, <2>2, <2>9
    <3>2. HasKeys(q, FileSignals(b.rows)) /\ Saw(q, customers)
      BY <2>1, <2>9 DEF HasKeys, Saw
    <3>3. q.profile = b.rows[q.item].profile
      BY <2>1, <2>9 DEF row
    <3> QED BY <2>1, <2>7, <2>8, <2>9, <2>11, <3>1, <3>2, <3>3 DEF ImportOK
  <2>13. IdentityOK(q, customers, batches)
    BY <1>1, <2>9, <2>12 DEF IdentityOK, IdKinds, b
  <2> QED BY <2>9, <2>10, <2>13, OneStays
<1> QED BY <1>2, <1>3 DEF DecideRow

-----------------------------------------------------------------------------
(* Commits, previews and hands.                                            *)

LEMMA CreatesKnowing ==
  ASSUME IInv, DInv, NEW r \in Requests, CommitOpportunity(r)
  PROVE  DInv'
<1> DEFINE p == req[r].profile
           c == req[r].target
<1>1. /\ DOMAIN req[r] = Fields /\ req[r].step = "commit" /\ req[r].kind \in IdKinds
      /\ CreationOK(req[r], customers) /\ req[r].id \notin DOMAIN ledger
  BY DEF IInv, RequestOK, IdOK, Deciding, DInv, CommitOpportunity, IdKinds, IdentityOK
<1>2. /\ p \in Profiles /\ Signals(p) \subseteq req[r].held
      /\ Vouched(customers, Signals(p), {c}) /\ (c # 0 => c \in req[r].rows)
  BY <1>1 DEF CreationOK, HasKeys, Deciding
<1>3. customers \in Seq(CustomerRows) /\ SharedByHand(customers)
  BY DEF DInv
<1>4. /\ customers' = IF c = 0 THEN Append(customers, Customer(p, {}))
                      ELSE [customers EXCEPT ![c] = Enriched(@, p)]
      /\ UNCHANGED batches
  BY <1>1 DEF CommitOpportunity
<1>5. PICK outcome, answer : Finish(r, outcome, answer)
  BY <1>1 DEF CommitOpportunity
<1>6. /\ customers' \in Seq(CustomerRows) /\ SharedByHand(customers')
      /\ Grew(customers, customers', Signals(p))
      /\ \A d \in DOMAIN customers \ req[r].rows : customers'[d] = customers[d]
  <2> HIDE DEF p
  <2>1. CASE c = 0
    <3>1. 0 \notin DOMAIN customers
      BY <1>3
    <3>2. Vouched(customers, Signals(p) \ {}, {}) /\ {} \in SUBSET AdvisoryKeys
      BY <1>2, <2>1, <3>1 DEF Vouched
    <3>3. LET ds == Append(customers, Customer(p, {})) IN
          /\ ds \in Seq(CustomerRows) /\ SharedByHand(ds)
          /\ Grew(customers, ds, Signals(p) \ {})
          /\ \A d \in DOMAIN customers : ds[d] = customers[d]
      BY <1>2, <1>3, <3>2, NewCustomer
    <3>4. Signals(p) \ {} = Signals(p)
      OBVIOUS
    <3> QED BY <1>4, <2>1, <3>3, <3>4
  <2>2. CASE c # 0
    <3> HIDE DEF c
    <3>1. LET ds == [customers EXCEPT ![c] = Enriched(@, p)] IN
          /\ ds \in Seq(CustomerRows) /\ SharedByHand(ds) /\ Grew(customers, ds, Signals(p))
          /\ DOMAIN ds = DOMAIN customers /\ \A d \in DOMAIN customers \ {c} : ds[d] = customers[d]
      BY <1>2, <1>3, EnrichedCustomer
    <3> QED BY <1>2, <1>4, <2>2, <3>1
  <2> QED BY <2>1, <2>2
<1>7. Grew(customers, customers', req[r].held)
  BY <1>2, <1>6 DEF Grew
<1>8. /\ DOMAIN batches' = Batches
      /\ \A b \in Batches : /\ batches'[b].rows = batches[b].rows
                            /\ Valid(batches[b]) <=> Valid(batches'[b])
  BY <1>4 DEF DInv
<1> QED BY <1>5, <1>6, <1>7, <1>8, OneWrites

LEMMA ImportsKnowing ==
  ASSUME IInv, DInv, NEW r \in Requests, CommitImport(r)
  PROVE  DInv'
<1> DEFINE b == batches[req[r].batch]
<1>1. /\ DOMAIN req[r] = Fields /\ req[r].step = "commit" /\ req[r].kind = "import"
      /\ req[r].batch \in Batches /\ ImportOK(req[r], customers, b) /\ BatchOK(b)
  BY DEF IInv, RequestOK, DInv, CommitImport, IdentityOK
<1>2. /\ Valid(b) /\ FileSignals(b.rows) \subseteq req[r].held
      /\ req[r].plan = SubSeq(b.rows, 1, Len(b.rows))
      /\ \A i \in 1..Len(b.rows) : PlannedOK(req[r].rows, customers, b.rows, i)
      /\ req[r].item \in 1..Len(b.rows)
  BY <1>1 DEF ImportOK, HasKeys, Deciding, Planned
<1>3. customers \in Seq(CustomerRows) /\ SharedByHand(customers)
  BY DEF DInv
<1>4. /\ b.rows \in Seq(ImportRows) /\ DOMAIN b.rows = 1..Len(b.rows)
      /\ \A i, j \in DOMAIN b.rows :
           i # j => Signals(b.rows[i].profile) \cap Signals(b.rows[j].profile) = {}
  <2> HIDE DEF b
  <2>1. b.rows \in Seq(ImportRows)
    BY <1>1 DEF BatchOK
  <2>2. DOMAIN b.rows = 1..Len(b.rows)
    BY <2>1
  <2>3. \A i, j \in DOMAIN b.rows :
          i # j => Signals(b.rows[i].profile) \cap Signals(b.rows[j].profile) = {}
    BY <1>1 DEF BatchOK
  <2> QED BY <2>1, <2>2, <2>3
<1>5. req[r].plan = b.rows
  <2> HIDE DEF b
  <2> QED BY <1>2, <1>4, SubSeqGrows
<1>6. /\ customers' = FoldLeft(Applied, customers, b.rows)
      /\ Finish(r, "created", 0)
      /\ batches' = [batches EXCEPT ![req[r].batch] =
                       [@ EXCEPT !.status = "COMMITTED", !.command = req[r].id]]
  BY <1>5 DEF CommitImport
<1>7. \A i \in DOMAIN b.rows :
        /\ Vouched(customers, Signals(b.rows[i].profile), Named(b.rows[i]))
        /\ Named(b.rows[i]) \subseteq req[r].rows
  BY <1>2, <1>4 DEF PlannedOK
<1>8. /\ customers' \in Seq(CustomerRows) /\ SharedByHand(customers')
      /\ Grew(customers, customers', FileSignals(b.rows))
      /\ \A d \in DOMAIN customers :
           (\A i \in DOMAIN b.rows : d \notin Named(b.rows[i])) => customers'[d] = customers[d]
  <2> HIDE DEF b
  <2>1. LET ds == FoldLeft(Applied, customers, b.rows) IN
        /\ ds \in Seq(CustomerRows) /\ SharedByHand(ds)
        /\ Grew(customers, ds, FileSignals(b.rows))
        /\ \A d \in DOMAIN customers :
             (\A i \in DOMAIN b.rows : d \notin Named(b.rows[i])) => ds[d] = customers[d]
    BY <1>3, <1>4, <1>7, AllRows
  <2> QED BY <1>6, <2>1, Zenon
<1>9. Grew(customers, customers', req[r].held)
  BY <1>2, <1>8 DEF Grew
<1>10. \A d \in DOMAIN customers \ req[r].rows : customers'[d] = customers[d]
  BY <1>7, <1>8
<1>11. /\ DOMAIN batches' = Batches
       /\ \A d \in Batches : /\ batches'[d].rows = batches[d].rows
                             /\ Valid(batches[d]) <=> Valid(batches'[d])
  BY <1>2, <1>6 DEF DInv, Valid
<1> QED BY <1>6, <1>8, <1>9, <1>10, <1>11, OneWrites

\* What an edit types in is given by hand.
LEMMA EditsKnowing ==
  ASSUME IInv, DInv, NEW r \in Requests, CommitEdit(r)
  PROVE  DInv'
<1> DEFINE p == req[r].profile
           c == req[r].target
           old == customers[c]
           new == Customer(p, old.given \cup (Signals(p) \ Signals(old)))
<1>1. EditOK(req[r], customers) /\ req[r].step = "commit"
  BY DEF DInv, CommitEdit, IdentityOK
<1>2. p \in Profiles /\ c \in req[r].rows /\ c \in DOMAIN customers /\ old.live
  BY <1>1 DEF EditOK
<1>3. customers \in Seq(CustomerRows) /\ SharedByHand(customers) /\ old \in CustomerRows
  BY <1>2 DEF DInv
<1>4. customers' = [customers EXCEPT ![c] = new] /\ Finish(r, "created", 0) /\ UNCHANGED batches
  BY DEF CommitEdit
<1>5. old.given \subseteq AdvisoryKeys /\ Signals(p) \subseteq AdvisoryKeys
  BY <1>2, <1>3, SignalsAreKeys DEF CustomerRows
<1>6. /\ new \in CustomerRows /\ new.given = old.given \cup (Signals(p) \ Signals(old))
      /\ Signals(new) = Signals(p)
  <2> HIDE DEF p, old
  <2> QED BY <1>2, <1>5, CustomerIs
<1> HIDE DEF new, old, p
<1>7. Signals(new) \subseteq Signals(old) \cup {} \cup new.given /\ Vouched(customers, {}, {c})
  BY <1>6 DEF Vouched
<1>8. LET ds == [customers EXCEPT ![c] = new] IN
      /\ ds \in Seq(CustomerRows) /\ SharedByHand(ds) /\ Grew(customers, ds, {})
      /\ DOMAIN ds = DOMAIN customers
      /\ ds[c] = new /\ \A d \in DOMAIN customers \ {c} : ds[d] = customers[d]
  BY <1>2, <1>3, <1>6, <1>7, ChangedCustomer DEF old
<1>9. Grew(customers, customers', req[r].held)
  BY <1>4, <1>8 DEF Grew
<1>10. /\ DOMAIN batches' = Batches
       /\ \A b \in Batches : /\ batches'[b].rows = batches[b].rows
                             /\ Valid(batches[b]) <=> Valid(batches'[b])
  BY <1>4 DEF DInv
<1> QED BY <1>2, <1>4, <1>8, <1>9, <1>10, OneWrites

LEMMA HandsKnowing ==
  ASSUME IInv, DInv,
         \/ \E p \in Offered : CreateByHand(p)
         \/ \E c \in DOMAIN customers : DeleteByHand(c)
  PROVE  DInv'
<1>1. customers \in Seq(CustomerRows) /\ SharedByHand(customers)
  BY DEF DInv
<1>2. ASSUME NEW p \in Offered, CreateByHand(p)
      PROVE  DInv'
  <2>1. p \in Profiles
    BY OfferedAreProfiles DEF Profiles
  <2>2. Signals(p) \in SUBSET AdvisoryKeys
    BY <2>1, SignalsAreKeys
  <2>3. Signals(p) \ Signals(p) = {} /\ Vouched(customers, Signals(p) \ Signals(p), {})
    BY DEF Vouched
  <2>4. LET ds == Append(customers, Customer(p, Signals(p))) IN
        /\ ds \in Seq(CustomerRows) /\ SharedByHand(ds)
        /\ Grew(customers, ds, Signals(p) \ Signals(p))
        /\ \A d \in DOMAIN customers : ds[d] = customers[d]
    BY <1>1, <2>1, <2>2, <2>3, NewCustomer
  <2>5. customers' = Append(customers, Customer(p, Signals(p))) /\ UNCHANGED <<req, batches>>
    BY <1>2 DEF CreateByHand
  <2> QED BY <2>3, <2>4, <2>5, AHandWrites
<1>3. ASSUME NEW c \in DOMAIN customers, DeleteByHand(c)
      PROVE  DInv'
  <2> DEFINE old == customers[c]
             new == [old EXCEPT !.live = FALSE]
  <2>1. /\ RowFree(c) /\ UNCHANGED <<req, batches>>
        /\ customers' = [customers EXCEPT ![c].live = FALSE]
    BY <1>3 DEF DeleteByHand
  <2>2. old \in CustomerRows
    BY <1>1
  <2>3. /\ new \in CustomerRows /\ ~new.live /\ new.given = old.given
        /\ Signals(new) = Signals(old)
    BY <2>2 DEF CustomerRows, Signals
  <2>4. customers' = [customers EXCEPT ![c] = new]
    BY <2>1
  <2> HIDE DEF new
  <2>5. Signals(new) \subseteq Signals(old) \cup {} \cup new.given /\ Vouched(customers, {}, {c})
    BY <2>3 DEF Vouched
  <2>6. LET ds == [customers EXCEPT ![c] = new] IN
        /\ ds \in Seq(CustomerRows) /\ SharedByHand(ds) /\ Grew(customers, ds, {})
        /\ DOMAIN ds = DOMAIN customers
        /\ ds[c] = new /\ \A d \in DOMAIN customers \ {c} : ds[d] = customers[d]
    BY <1>1, <2>3, <2>5, ChangedCustomer
  <2> QED BY <2>1, <2>4, <2>6, AHandWrites
<1> QED BY <1>2, <1>3

LEMMA RowActionIs ==
  ASSUME DInv, NEW p \in Profiles
  PROVE  RowAction(p) \in ImportRows /\ RowAction(p).profile = p
<1> DEFINE found == Live(Matching(Signals(p)))
<1>1. DOMAIN customers \subseteq Nat
  BY DEF DInv
<1>2. found \subseteq Nat
  BY <1>1 DEF Live, Matching
<1>3. found # {} => TheCustomer(found) \in Nat
  <2>1. found # {} => TheCustomer(found) \in Live(found)
    BY DEF TheCustomer, Live
  <2> QED BY <1>2, <2>1 DEF Live
<1> QED BY <1>3 DEF RowAction, ImportRows

LEMMA PreviewsKnowing ==
  ASSUME IInv, DInv, NEW b \in Batches, NEW f \in Files, Preview(b, f)
  PROVE  DInv'
<1>1. UNCHANGED <<req, customers>> /\ batches[b].status = "NONE"
  BY DEF Preview
<1>2. f \in Seq(Profiles) /\ f # <<>>
  BY FilesAreProfiles
<1>3. PICK n : batches' = [batches EXCEPT ![b] = n] /\ BatchOK(n)
  <2>1. CASE \E i \in DOMAIN f : RowError(f, i)
    <3> DEFINE n == [NoBatch EXCEPT !.status = "INVALID"]
    <3>1. batches' = [batches EXCEPT ![b] = n]
      BY <2>1, Zenon DEF Preview
    <3>2. n.rows = <<>> /\ n.status = "INVALID"
      BY DEF NoBatch
    <3> HIDE DEF n
    <3>3. BatchOK(n)
      BY <3>2 DEF BatchOK, Valid
    <3> QED BY <3>1, <3>3
  <2>2. CASE ~\E i \in DOMAIN f : RowError(f, i)
    <3> DEFINE rows == [i \in DOMAIN f |-> RowAction(f[i])]
               n == [status |-> "VALID", rows |-> rows, command |-> Nothing, seen |-> customers]
    <3>1. batches' = [batches EXCEPT ![b] = n]
      BY <2>2, Zenon DEF Preview
    <3>2. /\ DOMAIN f = 1..Len(f) /\ Len(f) \in Nat /\ Len(f) # 0
          /\ \A i \in DOMAIN f : f[i] \in Profiles
      BY <1>2
    <3>3. \A i \in DOMAIN f : rows[i] \in ImportRows /\ rows[i].profile = f[i]
      BY <3>2, RowActionIs
    <3>4. rows \in [1..Len(f) -> ImportRows]
      BY <3>2, <3>3
    <3>5. DOMAIN rows = DOMAIN f
      OBVIOUS
    <3> HIDE DEF rows
    <3>6. rows \in Seq(ImportRows) /\ rows # <<>>
      BY <3>2, <3>4
    <3>7. \A i, j \in DOMAIN f : i # j => Signals(f[i]) \cap Signals(f[j]) = {}
      BY <2>2 DEF RowError
    <3>8. BatchOK(n)
      BY <3>3, <3>5, <3>6, <3>7 DEF BatchOK
    <3> QED BY <3>1, <3>8
  <2> QED BY <2>1, <2>2
<1>4. DOMAIN batches' = Batches /\ \A d \in Batches : batches'[d] = IF d = b THEN n ELSE batches[d]
  BY <1>3 DEF DInv
<1>5. \A d \in Batches : BatchOK(batches'[d])
  BY <1>3, <1>4 DEF DInv
<1>6. \A d \in Batches : Valid(batches[d]) => Valid(batches'[d]) /\ batches'[d].rows = batches[d].rows
  BY <1>1, <1>4 DEF Valid
<1>7. \A r \in Requests : IdentityOK(req[r], customers, batches')
  BY <1>6, ReliesOnRows DEF DInv
<1> QED BY <1>1, <1>4, <1>5, <1>7 DEF DInv, RowsAreExclusive

LEMMA InitiallyKnowing == Init => DInv
<1> SUFFICES ASSUME Init PROVE DInv
  OBVIOUS
<1>1. customers \in Seq(CustomerRows) /\ SharedByHand(customers)
  BY BeginningsAreSound DEF Init
<1>2. \A r \in Requests : req[r] = Idle
  BY DEF Init
<1>3. Idle.kind = "idle" /\ Idle.rows = {}
  BY DEF Idle
<1>4. IdentityOK(Idle, customers, batches)
  BY <1>3 DEF IdentityOK, IdKinds
<1>5. NoBatch.rows = <<>> /\ NoBatch.status = "NONE"
  BY DEF NoBatch
<1>6. BatchOK(NoBatch)
  BY <1>5 DEF BatchOK, Valid
<1>7. DOMAIN batches = Batches /\ \A b \in Batches : batches[b] = NoBatch
  BY DEF Init
<1> QED BY <1>1, <1>2, <1>3, <1>4, <1>6, <1>7 DEF DInv, RowsAreExclusive

LEMMA StaysKnowing == IInv /\ DInv /\ [Next]_vars => DInv'
<1> SUFFICES ASSUME IInv, DInv, [Next]_vars PROVE DInv'
  OBVIOUS
<1>1. ASSUME NEW r \in Requests, Requested(r)
      PROVE  DInv'
  BY <1>1, BeginsKnowing
<1>2. ASSUME NEW r \in Requests, Progress(r)
      PROVE  DInv'
  <2>1. CASE AbortDeadlocked(r)
    BY <2>1, OneEnds DEF AbortDeadlocked, Fail
  <2> QED BY <1>2, <2>1, KeysKnowing, LooksUpKnowing, MatchesKnowing, DecidesKnowing,
             RowsKnowing, DecidesRowKnowing, CreatesKnowing, ImportsKnowing, EditsKnowing
          DEF Progress
<1>3. CASE \E b \in Batches, f \in Files : Preview(b, f)
  BY <1>3, PreviewsKnowing
<1>4. CASE UNCHANGED vars
  BY <1>4 DEF DInv, RowsAreExclusive, vars
<1> QED BY <1>1, <1>2, <1>3, <1>4, HandsKnowing DEF Next

LEMMA Knowing == Spec => [](IInv /\ DInv)
<1>1. Init => IInv /\ DInv
  BY Initially, InitiallyKnowing
<1>2. IInv /\ DInv /\ [Next]_vars => (IInv /\ DInv)'
  BY Inductive, StaysKnowing
<1> QED BY <1>1, <1>2, PTL DEF Spec

(* For every number of requests, files and customers: of two live customers *)
(* that share an e-mail address or a telephone, somebody typed it into one  *)
(* by hand; leads, manual creations, imports and edits that overlap never   *)
(* bring it about, since acquire_advisory_locks comes before the match and  *)
(* the rows it returns stay locked.                                         *)
THEOREM DuplicatesOnlyByHandCorrect == Spec => []DuplicatesOnlyByHand
<1>1. IInv /\ DInv => DuplicatesOnlyByHand
  BY DEF DInv, DuplicatesOnlyByHand
<1> QED BY <1>1, Knowing, PTL

-----------------------------------------------------------------------------
(* What an import does to one customer and to their number, row by row.    *)

Wrote(x, row, c) == IF row.customer = c THEN Enriched(x, row.profile) ELSE x

WorksInTurn(W, x, plan, c) ==
  /\ W \in [0..Len(plan) -> CustomerRows] /\ W[0] = x
  /\ \A k \in 1..Len(plan) : W[k] = Wrote(W[k - 1], plan[k], c)
  /\ Worked(x, plan, c) = W[Len(plan)]

LEMMA WorkedInTurn ==
  ASSUME NEW x \in CustomerRows, NEW plan \in Seq(ImportRows), NEW c
  PROVE  \E W : WorksInTurn(W, x, plan, c)
<1> DEFINE V == CustomerRows
           n == Len(plan)
           S == 1..n
           pick == [s \in SUBSET S |-> Max(s)]
           op == [xv \in S \X V |-> Wrote(xv[2], plan[xv[1]], c)]
           F(g) == [s \in SUBSET S |-> IF s = {} THEN x
                                       ELSE Wrote(g[s \ {Max(s)}], plan[Max(s)], c)]
<1>1. Worked(x, plan, c) = (CHOOSE g : g = F(g))[S]
  <2>1. Worked(x, plan, c) =
          LET g == CHOOSE g : g = [s \in SUBSET (DOMAIN plan) |->
                                     IF s = {} THEN x
                                     ELSE Wrote(g[s \ {Max(s)}], plan[Max(s)], c)]
          IN g[DOMAIN plan]
    BY DEF Worked, Wrote, FoldLeft, MapThenFoldSet
  <2>2. DOMAIN plan = S
    OBVIOUS
  <2> QED BY <2>1, <2>2, Zenon
<1>2. n \in Nat /\ IsFiniteSet(S)
  BY FS_Interval
<1>3. /\ \A s \in SUBSET S : s # {} => Max(s) \in s
      /\ \A k \in S : Max(1..k) = k /\ (1..k) \ {k} = 1..(k - 1)
                    /\ 1..k # {} /\ 1..k \in SUBSET S
  BY <1>2, GreatestIs
<1>4. ASSUME NEW i \in S, NEW v \in V
      PROVE  op[<<i, v>>] = Wrote(v, plan[i], c) /\ Wrote(v, plan[i], c) \in V
  <2>1. op[<<i, v>>] = Wrote(v, plan[i], c)
    OBVIOUS
  <2>2. plan[i].profile \in Profiles
    BY DEF ImportRows
  <2> HIDE DEF op
  <2> QED BY <2>1, <2>2, EnrichedIs DEF Wrote
<1>5. \A s \in SUBSET S : s # {} => pick[s] = Max(s) /\ pick[s] \in s
  BY <1>3
<1> HIDE DEF V, op, pick
<1>6. x \in V
  BY DEF V
<1>7. PICK g \in [SUBSET S -> V] : \A s \in SUBSET S :
        g[s] = IF s = {} THEN x ELSE op[<<pick[s], g[s \ {pick[s]}]>>]
  <2> HIDE DEF S
  <2>1. Foldable(S, V, x, pick, op)
    BY <1>2, <1>4, <1>5, <1>6 DEF Foldable
  <2>2. \E g \in [SUBSET S -> V] : Folds(g, S, x, pick, op)
    BY <2>1, FoldExists
  <2> QED BY <2>2 DEF Folds
<1>8. ASSUME NEW s \in SUBSET S
      PROVE  g[s] = IF s = {} THEN x ELSE Wrote(g[s \ {Max(s)}], plan[Max(s)], c)
  <2>1. CASE s # {}
    <3>1. Max(s) \in S /\ g[s \ {Max(s)}] \in V
      BY <1>3, <1>7, <2>1
    <3> QED BY <1>4, <1>5, <1>7, <2>1, <3>1
  <2> QED BY <1>7, <2>1
<1>9. g = F(g)
  BY <1>7, <1>8
<1>10. PICK h : h = F(h) /\ Worked(x, plan, c) = h[S]
  BY <1>1, <1>9
<1>11. \A s \in SUBSET S : h[s] = IF s = {} THEN x ELSE Wrote(h[s \ {Max(s)}], plan[Max(s)], c)
  BY <1>10
<1> DEFINE W == [k \in 0..n |-> h[1..k]]
<1>12. W[0] = x
  <2>1. 1..0 = {} /\ {} \in SUBSET S
    OBVIOUS
  <2>2. h[1..0] = x
    BY <1>11, <2>1
  <2> QED BY <1>2, <2>2
<1>13. ASSUME NEW k \in 1..n
       PROVE  W[k] = Wrote(W[k - 1], plan[k], c)
  <2>0. 1..k \in SUBSET S /\ 1..k # {} /\ Max(1..k) = k /\ (1..k) \ {k} = 1..(k - 1)
    BY <1>3, Zenon
  <2>1. h[1..k] = Wrote(h[1..(k - 1)], plan[k], c)
    BY <1>11, <2>0
  <2> QED BY <2>1
<1>14. W \in [0..n -> V]
  <2> DEFINE T == {k \in Nat : k <= n => W[k] \in V}
  <2>1. 0 \in T
    BY <1>6, <1>12
  <2>2. ASSUME NEW k \in Nat, k \in T, k + 1 <= n
        PROVE  W[k + 1] \in V
    <3>1. k + 1 \in 1..n /\ (k + 1) - 1 = k /\ W[k] \in V
      BY <1>2, <2>2
    <3> HIDE DEF W, V
    <3>2. W[k + 1] = Wrote(W[k], plan[k + 1], c)
      BY <1>13, <3>1
    <3> QED BY <1>4, <3>1, <3>2
  <2> HIDE DEF W
  <2>3. Nat \subseteq T
    <3>1. \A k \in Nat : k \in T => k + 1 \in T
      BY <2>2
    <3> HIDE DEF T
    <3> QED BY <2>1, <3>1, AllNaturals
  <2>4. ASSUME NEW k \in 0..n
        PROVE  W[k] \in V
    <3>1. k \in Nat /\ k <= n /\ k \in T
      BY <1>2, <2>3
    <3> QED BY <3>1 DEF T
  <2> QED BY <2>4 DEF W
<1>15. Worked(x, plan, c) = W[n]
  BY <1>2, <1>10
<1> HIDE DEF W
<1> QED BY <1>12, <1>13, <1>14, <1>15 DEF V, WorksInTurn

LEMMA AppliedOnce ==
  ASSUME NEW cs \in Seq(CustomerRows), NEW row \in ImportRows
  PROVE  /\ Len(Applied(cs, row)) = Len(cs) + (IF row.action = "CREATE" THEN 1 ELSE 0)
         /\ \A c \in DOMAIN cs : Applied(cs, row)[c] = Wrote(cs[c], row, c)
<1>1. row.action = "CREATE" => row.customer = 0
  BY DEF ImportRows
<1>2. DOMAIN cs = 1..Len(cs) /\ Len(cs) \in Nat
  OBVIOUS
<1>3. CASE row.action = "CREATE"
  <2> DEFINE new == Customer(row.profile, {})
  <2>1. Applied(cs, row) = Append(cs, new)
    BY <1>3 DEF Applied
  <2> HIDE DEF new, CustomerRows
  <2>2. Len(Append(cs, new)) = Len(cs) + 1 /\ \A c \in DOMAIN cs : Append(cs, new)[c] = cs[c]
    OBVIOUS
  <2>3. \A c \in DOMAIN cs : Wrote(cs[c], row, c) = cs[c]
    BY <1>1, <1>2, <1>3 DEF Wrote
  <2> QED BY <1>3, <2>1, <2>2, <2>3
<1>4. CASE row.action # "CREATE"
  <2> DEFINE ds == [cs EXCEPT ![row.customer] = Enriched(@, row.profile)]
  <2>1. Applied(cs, row) = ds
    BY <1>4 DEF Applied
  <2>2. DOMAIN ds = DOMAIN cs
    OBVIOUS
  <2>3. \A c \in DOMAIN cs : ds[c] = Wrote(cs[c], row, c)
    BY DEF Wrote
  <2>4. ds \in Seq(CustomerRows)
    BY <2>1, AppliedIs
  <2>5. Len(ds) = Len(cs)
    <3> HIDE DEF ds
    <3> QED BY <1>2, <2>2, <2>4
  <2> QED BY <1>4, <2>1, <2>3, <2>5
<1> QED BY <1>3, <1>4

\* A customer who was completed once is never again what it was.
LEMMA KnowsMore ==
  ASSUME NEW x \in CustomerRows, NEW y \in CustomerRows, NEW p \in Profiles, Knows(y, x)
  PROVE  /\ Knows(Enriched(y, p), x)
         /\ WouldEnrich(y, p) => Enriched(y, p) # x
BY DEF Knows, WouldEnrich, Enriched, Filled, CustomerRows, Profiles

\* The plan's effect on its customers: the fold over all of them is, at each
\* of those that were there, the fold over the rows that name it.
LEMMA AppliedIsWorked ==
  ASSUME NEW cs \in Seq(CustomerRows), NEW rows \in Seq(ImportRows), NEW c \in DOMAIN cs,
         NEW R \in [0..Len(rows) -> Seq(CustomerRows)], R[0] = cs,
         \A k \in 1..Len(rows) : R[k] = Applied(R[k - 1], rows[k]),
         NEW n \in 0..Len(rows)
  PROVE  /\ c \in DOMAIN R[n]
         /\ R[n][c] = Worked(cs[c], SubSeq(rows, 1, n), c)
<1> DEFINE plan == SubSeq(rows, 1, n)
<1>1. /\ plan \in Seq(ImportRows) /\ Len(plan) = n /\ n \in Nat /\ n <= Len(rows)
      /\ \A k \in 1..n : plan[k] = rows[k] /\ rows[k] \in ImportRows
  OBVIOUS
<1>2. cs[c] \in CustomerRows
  OBVIOUS
<1> HIDE DEF plan
<1>3. PICK W \in [0..n -> CustomerRows] :
        /\ W[0] = cs[c]
        /\ \A k \in 1..n : W[k] = Wrote(W[k - 1], plan[k], c)
        /\ Worked(cs[c], plan, c) = W[n]
  <2> DEFINE x == cs[c]
  <2> HIDE DEF x
  <2>1. x \in CustomerRows /\ plan \in Seq(ImportRows)
    BY <1>1, <1>2 DEF x
  <2>2. \E W : WorksInTurn(W, x, plan, c)
    BY <2>1, WorkedInTurn
  <2> QED BY <1>1, <2>2 DEF x, WorksInTurn
<1> DEFINE T == {k \in Nat : k <= n => c \in DOMAIN R[k] /\ R[k][c] = W[k]}
<1>4. 0 \in T
  BY <1>3
<1>5. ASSUME NEW k \in Nat, k \in T, k + 1 <= n
      PROVE  c \in DOMAIN R[k + 1] /\ R[k + 1][c] = W[k + 1]
  <2>1. /\ k \in 0..Len(rows) /\ k + 1 \in 1..n /\ k + 1 \in 1..Len(rows) /\ (k + 1) - 1 = k
        /\ c \in DOMAIN R[k] /\ R[k][c] = W[k]
    BY <1>1, <1>5
  <2>2. /\ R[k] \in Seq(CustomerRows) /\ rows[k + 1] \in ImportRows
        /\ R[k + 1] = Applied(R[k], rows[k + 1]) /\ R[k + 1] \in Seq(CustomerRows)
        /\ W[k + 1] = Wrote(W[k], rows[k + 1], c)
    <3>0. k \in 0..Len(rows) /\ k + 1 \in 0..Len(rows)
      BY <1>1, <2>1
    <3>1. R[k] \in Seq(CustomerRows) /\ R[k + 1] \in Seq(CustomerRows)
      BY <3>0
    <3>2. rows[k + 1] \in ImportRows /\ plan[k + 1] = rows[k + 1]
      BY <1>1, <2>1
    <3>3. R[k + 1] = Applied(R[k], rows[k + 1])
      BY <2>1
    <3>4. W[k + 1] = Wrote(W[k], plan[k + 1], c)
      BY <1>3, <2>1
    <3> QED BY <3>1, <3>2, <3>3, <3>4
  <2> DEFINE cs1 == R[k]
             row == rows[k + 1]
             cs2 == R[k + 1]
  <2> HIDE DEF T, cs1, row, cs2, CustomerRows, ImportRows
  <2>3. cs1 \in Seq(CustomerRows) /\ row \in ImportRows /\ cs2 = Applied(cs1, row)
        /\ cs2 \in Seq(CustomerRows)
    BY <2>2 DEF cs1, row, cs2
  <2>4. /\ Len(cs2) = Len(cs1) + (IF row.action = "CREATE" THEN 1 ELSE 0)
        /\ \A d \in DOMAIN cs1 : cs2[d] = Wrote(cs1[d], row, d)
    BY <2>3, AppliedOnce
  <2>5. DOMAIN cs1 \subseteq DOMAIN cs2
    <3>1. Len(cs1) <= Len(cs2)
      BY <2>3, <2>4
    <3> QED BY <2>3, <3>1
  <2> QED BY <2>1, <2>2, <2>4, <2>5 DEF cs1, row, cs2
<1>6. Nat \subseteq T
  <2>1. \A k \in Nat : k \in T => k + 1 \in T
    BY <1>5
  <2> HIDE DEF T
  <2> QED BY <1>4, <2>1, AllNaturals
<1>7. n \in T
  BY <1>1, <1>6
<1> QED BY <1>1, <1>3, <1>7 DEF plan

Creates(rows, k) == {i \in 1..k : rows[i].action = "CREATE"}
EnrichedBy(rows, k) == {rows[i].customer : i \in {j \in 1..k : rows[j].action = "ENRICH"}}
LEMMA CountsOne ==
  ASSUME NEW rows, NEW k \in Nat
  PROVE  /\ IsFiniteSet(Creates(rows, k)) /\ Cardinality(Creates(rows, k)) \in Nat
         /\ Cardinality(Creates(rows, k + 1)) =
              Cardinality(Creates(rows, k)) + (IF rows[k + 1].action = "CREATE" THEN 1 ELSE 0)
<1>1. IsFiniteSet(1..k)
  BY FS_Interval
<1>2. Creates(rows, k) \subseteq 1..k
  BY DEF Creates
<1>3. IsFiniteSet(Creates(rows, k)) /\ Cardinality(Creates(rows, k)) \in Nat
  BY <1>1, <1>2, FS_Subset, FS_CardinalityType
<1>4. k + 1 \notin Creates(rows, k)
  BY DEF Creates
<1>5. CASE rows[k + 1].action = "CREATE"
  <2>1. Creates(rows, k + 1) = Creates(rows, k) \cup {k + 1}
    BY <1>5 DEF Creates
  <2> QED BY <1>3, <1>4, <1>5, <2>1, FS_AddElement
<1>6. CASE rows[k + 1].action # "CREATE"
  <2>1. Creates(rows, k + 1) = Creates(rows, k)
    BY <1>6 DEF Creates
  <2> QED BY <1>3, <1>6, <2>1
<1> QED BY <1>3, <1>5, <1>6

\* An import that does what was shown, row by row.
LEMMA ImportsExactly ==
  ASSUME NEW cs \in Seq(CustomerRows), NEW rows \in Seq(ImportRows), NEW locked,
         \A i \in DOMAIN rows : PlannedOK(locked, cs, rows, i)
  PROVE  /\ Len(FoldLeft(Applied, cs, rows)) = Len(cs) + Cardinality(Creates(rows, Len(rows)))
         /\ \A c \in DOMAIN cs :
              /\ FoldLeft(Applied, cs, rows)[c] # cs[c] <=> c \in EnrichedBy(rows, Len(rows))
              /\ Knows(FoldLeft(Applied, cs, rows)[c], cs[c])
<1> DEFINE n == Len(rows)
<1>1. PICK R \in [0..n -> Seq(CustomerRows)] :
        /\ R[0] = cs
        /\ \A k \in 1..n : R[k] = Applied(R[k - 1], rows[k])
        /\ FoldLeft(Applied, cs, rows) = R[n]
  BY AppliedInTurn
<1>2. n \in Nat /\ DOMAIN rows = 1..n /\ \A i \in 1..n : rows[i] \in ImportRows
  OBVIOUS
<1> HIDE DEF n
<1> DEFINE Right(k, c) == /\ c \in DOMAIN R[k]
                          /\ R[k][c] # cs[c] <=> c \in EnrichedBy(rows, k)
                          /\ Knows(R[k][c], cs[c])
           J(k) == /\ Len(R[k]) = Len(cs) + Cardinality(Creates(rows, k))
                   /\ \A c \in DOMAIN cs : Right(k, c)
           T == {k \in Nat : k <= n => J(k)}
<1>3. 0 \in T
  <2>1. Creates(rows, 0) = {} /\ EnrichedBy(rows, 0) = {}
    BY DEF Creates, EnrichedBy
  <2>2. Cardinality({}) = 0 /\ Len(cs) \in Nat
    BY FS_EmptySet
  <2>3. \A c \in DOMAIN cs : Knows(cs[c], cs[c])
    BY DEF Knows
  <2>4. Len(R[0]) = Len(cs) + Cardinality(Creates(rows, 0))
    <3>1. R[0] = cs
      BY <1>1
    <3>2. Cardinality(Creates(rows, 0)) = 0
      BY <2>1, <2>2, Zenon
    <3>3. Len(R[0]) = Len(cs) /\ Len(cs) = Len(cs) + 0
      BY <2>2, <3>1
    <3> QED BY <3>2, <3>3, Zenon
  <2>5. \A c \in DOMAIN cs : Right(0, c)
    BY <1>1, <2>1, <2>3
  <2>6. J(0)
    BY <2>4, <2>5
  <2> QED BY <2>6
<1>4. ASSUME NEW k \in Nat, k \in T, k + 1 <= n
      PROVE  J(k + 1)
  <2> DEFINE row == rows[k + 1]
             cs1 == R[k]
             cs2 == R[k + 1]
  <2>1. J(k)
    BY <1>2, <1>4
  <2>2. k \in 0..n /\ k + 1 \in 0..n /\ k + 1 \in 1..n /\ (k + 1) - 1 = k
    BY <1>2, <1>4
  <2>3. /\ cs1 \in Seq(CustomerRows) /\ cs2 \in Seq(CustomerRows)
        /\ row \in ImportRows /\ cs2 = Applied(cs1, row)
    BY <1>1, <1>2, <2>2
  <2>4. row.profile \in Profiles /\ (row.action = "CREATE" => row.customer = 0)
    BY <2>3 DEF ImportRows
  <2>5. /\ Len(cs2) = Len(cs1) + (IF row.action = "CREATE" THEN 1 ELSE 0)
        /\ \A c \in DOMAIN cs1 : cs2[c] = Wrote(cs1[c], row, c)
    <3> HIDE DEF cs1, cs2, row
    <3> QED BY <2>3, AppliedOnce
  <2>6. Len(cs2) = Len(cs) + Cardinality(Creates(rows, k + 1))
    <3>1. Len(cs1) = Len(cs) + Cardinality(Creates(rows, k)) /\ Len(cs) \in Nat
      BY <2>1
    <3>2. /\ Cardinality(Creates(rows, k)) \in Nat
          /\ Cardinality(Creates(rows, k + 1)) =
               Cardinality(Creates(rows, k)) + (IF row.action = "CREATE" THEN 1 ELSE 0)
      BY <1>4, CountsOne
    <3> HIDE DEF cs1, cs2, row
    <3> QED BY <2>5, <3>1, <3>2
  <2>7. DOMAIN cs1 \subseteq DOMAIN cs2
    <3> HIDE DEF cs1, cs2, row
    <3>1. Len(cs1) <= Len(cs2)
      BY <2>3, <2>5
    <3> QED BY <2>3, <3>1
  <2>8. EnrichedBy(rows, k + 1) =
          EnrichedBy(rows, k) \cup (IF row.action = "ENRICH" THEN {row.customer} ELSE {})
    BY <1>4 DEF EnrichedBy
  <2>9. ASSUME NEW c \in DOMAIN cs
        PROVE  Right(k + 1, c)
    <3>1. /\ c \in DOMAIN cs1 /\ c \in DOMAIN cs2
          /\ cs1[c] # cs[c] <=> c \in EnrichedBy(rows, k)
          /\ Knows(cs1[c], cs[c])
      BY <2>1, <2>7
    <3>2. cs2[c] = Wrote(cs1[c], row, c) /\ c # 0
      BY <2>5, <3>1
    <3>3. CASE row.customer # c
      BY <2>8, <3>1, <3>2, <3>3 DEF Wrote
    <3>4. CASE row.customer = c
      <4>1. cs2[c] = Enriched(cs1[c], row.profile) /\ Named(row) = {c}
        BY <2>4, <3>2, <3>4 DEF Wrote, Named
      <4>2. (row.action = "ENRICH") = WouldEnrich(Worked(cs[c], SubSeq(rows, 1, k), c), row.profile)
        <5>1. PlannedOK(locked, cs, rows, k + 1)
          BY <1>2, <2>2
        <5> QED BY <2>2, <4>1, <5>1 DEF PlannedOK
      <4>3. cs1[c] = Worked(cs[c], SubSeq(rows, 1, k), c)
        <5>1. /\ \A j \in 1..Len(rows) : R[j] = Applied(R[j - 1], rows[j])
              /\ R \in [0..Len(rows) -> Seq(CustomerRows)] /\ R[0] = cs
              /\ k \in 0..Len(rows)
          BY <1>1, <2>2 DEF n
        <5> QED BY <5>1, AppliedIsWorked
      <4>4. cs[c] \in CustomerRows /\ cs1[c] \in CustomerRows
        <5> HIDE DEF cs1
        <5> QED BY <2>3, <3>1
      <4>5. /\ Knows(cs2[c], cs[c])
            /\ WouldEnrich(cs1[c], row.profile) => cs2[c] # cs[c]
        BY <2>4, <3>1, <4>1, <4>4, KnowsMore
      <4>6. ~WouldEnrich(cs1[c], row.profile) => cs2[c] = cs1[c]
        BY <4>1 DEF WouldEnrich
      <4>7. row.action = "ENRICH" <=> WouldEnrich(cs1[c], row.profile)
        <5>1. WouldEnrich(cs1[c], row.profile) \in BOOLEAN
          BY DEF WouldEnrich
        <5> HIDE DEF cs1, row
        <5> QED BY <4>2, <4>3, <5>1
      <4> HIDE DEF cs1, cs2, row
      <4>8. cs2[c] # cs[c] <=> c \in EnrichedBy(rows, k + 1)
        BY <2>8, <3>1, <3>4, <4>5, <4>6, <4>7
      <4> QED BY <3>1, <4>5, <4>8 DEF cs2
    <3> QED BY <3>3, <3>4
  <2> QED BY <2>6, <2>9
<1>5. Nat \subseteq T
  <2>1. \A k \in Nat : k \in T => k + 1 \in T
    BY <1>4
  <2> HIDE DEF T
  <2> QED BY <1>3, <2>1, AllNaturals
<1>6. J(n)
  BY <1>2, <1>5
<1> QED BY <1>1, <1>6 DEF n

\* Only the commit of an import commits it.
LEMMA CommitsMakeIt ==
  ASSUME DInv, [Next]_vars, NEW b \in Batches,
         batches[b].status # "COMMITTED", batches'[b].status = "COMMITTED"
  PROVE  \E r \in Requests : CommitImport(r) /\ req[r].batch = b
<1>1. ~UNCHANGED batches
  OBVIOUS
<1>2. ASSUME NEW r \in Requests, Requested(r)
      PROVE  UNCHANGED batches
  BY <1>2 DEF Requested, Begin, BeginLead, BeginManual, BeginChosen, BeginImport, BeginEdit,
              BeginRecompute, Advance
<1>3. ASSUME NEW r \in Requests, Progress(r), ~CommitImport(r)
      PROVE  UNCHANGED batches
  BY <1>3 DEF Progress, TakeKey, TakeFlagKey, LookUp, LookUpBatch, LockEmailMatches,
              LockPhoneMatches, LockChosen, DecideLead, DecideManual, DecideRow,
              CommitOpportunity, LockEdited, CommitEdit, LockRecomputed, AbortDeadlocked,
              Advance, Fail
<1>4. ASSUME NEW d \in Batches, NEW f \in Files, Preview(d, f)
      PROVE  batches'[b].status # "COMMITTED"
  <2>1. \A n : n.status # "COMMITTED" /\ batches' = [batches EXCEPT ![d] = n]
          => batches'[b].status # "COMMITTED"
    BY DEF DInv
  <2>2. CASE \E i \in DOMAIN f : RowError(f, i)
    <3> DEFINE n == [NoBatch EXCEPT !.status = "INVALID"]
    <3>1. batches' = [batches EXCEPT ![d] = n]
      BY <1>4, <2>2, Zenon DEF Preview
    <3>2. n.status = "INVALID"
      BY DEF NoBatch
    <3> HIDE DEF n
    <3> QED BY <2>1, <3>1, <3>2
  <2>3. CASE ~\E i \in DOMAIN f : RowError(f, i)
    <3> DEFINE n == [status |-> "VALID", rows |-> [i \in DOMAIN f |-> RowAction(f[i])],
                     command |-> Nothing, seen |-> customers]
    <3>1. batches' = [batches EXCEPT ![d] = n]
      BY <1>4, <2>3, Zenon DEF Preview
    <3>2. n.status = "VALID"
      OBVIOUS
    <3> HIDE DEF n
    <3> QED BY <2>1, <3>1, <3>2
  <2> QED BY <2>2, <2>3
<1>5. ASSUME NEW r \in Requests, CommitImport(r)
      PROVE  req[r].batch = b
  <2>1. batches' = [batches EXCEPT ![req[r].batch] =
                      [@ EXCEPT !.status = "COMMITTED", !.command = req[r].id]]
    BY <1>5 DEF CommitImport
  <2> QED BY <2>1 DEF DInv
<1>6. PICK r \in Requests : CommitImport(r)
  BY <1>1, <1>2, <1>3, <1>4 DEF Next, vars, CreateByHand, DeleteByHand
<1> QED BY <1>5, <1>6

(* For every file and every number of requests: a commit of an import makes *)
(* as many customers as the preview showed, completes those it showed and   *)
(* no others, and overwrites nothing, whoever else wrote between the two:   *)
(* the last look at each row (_commit_row) is under the locks of all rows.  *)
THEOREM ImportDoesAsShownCorrect == Spec => ImportDoesAsShown
<1> DEFINE A == \A b \in Batches :
       batches[b].status # "COMMITTED" /\ batches'[b].status = "COMMITTED"
         => /\ Len(customers') = Len(customers) + Cardinality(Shown(b, "CREATE"))
            /\ \A c \in DOMAIN customers :
                 /\ customers'[c] # customers[c] <=> c \in NamedBy(b, "ENRICH")
                 /\ Knows(customers'[c], customers[c])
            /\ \A c \in NamedBy(b, "ENRICH") \cup NamedBy(b, "UNCHANGED") : customers[c].live
<1>1. IInv /\ DInv /\ [Next]_vars => A
  <2> SUFFICES ASSUME IInv, DInv, [Next]_vars, NEW b \in Batches,
                      batches[b].status # "COMMITTED", batches'[b].status = "COMMITTED"
               PROVE  /\ Len(customers') = Len(customers) + Cardinality(Shown(b, "CREATE"))
                      /\ \A c \in DOMAIN customers :
                           /\ customers'[c] # customers[c] <=> c \in NamedBy(b, "ENRICH")
                           /\ Knows(customers'[c], customers[c])
                      /\ \A c \in NamedBy(b, "ENRICH") \cup NamedBy(b, "UNCHANGED") : customers[c].live
    OBVIOUS
  <2>1. PICK r \in Requests : CommitImport(r) /\ req[r].batch = b
    BY CommitsMakeIt
  <2> DEFINE rows == batches[b].rows
  <2>2. /\ req[r].step = "commit" /\ req[r].kind = "import"
        /\ ImportOK(req[r], customers, batches[b]) /\ BatchOK(batches[b])
    BY <2>1 DEF DInv, CommitImport, IdentityOK
  <2>3. rows \in Seq(ImportRows) /\ customers \in Seq(CustomerRows)
    BY <2>2 DEF DInv, BatchOK
  <2>4. DOMAIN rows = 1..Len(rows) /\ Len(rows) \in Nat
    BY <2>3
  <2>5. /\ req[r].plan = SubSeq(rows, 1, Len(rows))
        /\ \A i \in DOMAIN rows : PlannedOK(req[r].rows, customers, rows, i)
    BY <2>2, <2>4 DEF ImportOK, Planned
  <2>6. customers' = FoldLeft(Applied, customers, rows)
    <3>1. req[r].plan = rows
      <4> HIDE DEF rows
      <4> QED BY <2>3, <2>5, SubSeqGrows
    <3> QED BY <2>1, <3>1 DEF CommitImport
  <2>7. Shown(b, "CREATE") = Creates(rows, Len(rows)) /\ NamedBy(b, "ENRICH") = EnrichedBy(rows, Len(rows))
    BY <2>4 DEF Shown, NamedBy, Creates, EnrichedBy
  <2>8. /\ Len(customers') = Len(customers) + Cardinality(Shown(b, "CREATE"))
        /\ \A c \in DOMAIN customers :
             /\ customers'[c] # customers[c] <=> c \in NamedBy(b, "ENRICH")
             /\ Knows(customers'[c], customers[c])
    <3> HIDE DEF rows
    <3> QED BY <2>3, <2>5, <2>6, <2>7, ImportsExactly
  <2>9. \A c \in NamedBy(b, "ENRICH") \cup NamedBy(b, "UNCHANGED") : customers[c].live
    <3> HIDE DEF rows
    <3>1. ASSUME NEW i \in DOMAIN rows, rows[i].action # "CREATE"
          PROVE  customers[rows[i].customer].live
      BY <2>5, <3>1 DEF PlannedOK, Named
    <3>2. \A c \in NamedBy(b, "ENRICH") \cup NamedBy(b, "UNCHANGED") :
            \E i \in DOMAIN rows : rows[i].action # "CREATE" /\ rows[i].customer = c
      BY DEF NamedBy, Shown, rows
    <3> QED BY <3>1, <3>2, Zenon
  <2> QED BY <2>8, <2>9
<1> QED BY <1>1, Knowing, PTL DEF Spec, ImportDoesAsShown

=============================================================================
