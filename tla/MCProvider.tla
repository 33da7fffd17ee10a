------------------------------ MODULE MCProvider ------------------------------
(* TLC instances of MetaProvider and Media. *)
EXTENDS Media, TLC

CONSTANTS p1, p2, t1, t2, t3, r1, r2, a1, b1, x

TwoThreads == {p1, p2}
ThreeTemplates == {t1, t2, t3}
SampleTemplate == {t2}
TwoReaders == {r1, r2}
None == {}
OneInbound == {a1}
OneOutbound == {b1}
ThreeObjects == 1..3

\* No parameters, or one.
SomeParameters == {{}, {x}}
Plain == [approved |-> TRUE, marketing |-> FALSE, named |-> TRUE, header |-> "NONE",
          buttons |-> FALSE, parameters |-> {x}]
SomeShapes ==
  {Plain, [Plain EXCEPT !.approved = FALSE], [Plain EXCEPT !.marketing = TRUE],
   [Plain EXCEPT !.header = "IMAGE"], [Plain EXCEPT !.header = "DOCUMENT"],
   [Plain EXCEPT !.header = "VIDEO"],
   [Plain EXCEPT !.buttons = TRUE, !.parameters = {}], [Plain EXCEPT !.named = FALSE]}

\* An answer to a send that is too large is left out: the client takes it for a
\* failure, which MCProviderOversized.cfg shows to break the contract.
UsualAnswers == AllAnswers \ {"oversized"}

Budget(c, ch, rd) == [calls |-> c, changes |-> ch, reads |-> rd]
SendsOrReads == {Budget(2, 1, 0), Budget(0, 0, 3)}
ReadsOnly == {Budget(0, 0, 2)}
SendsOnly == {Budget(1, 0, 0)}

\* What is not read or called is at rest.
MCInit ==
  /\ Init
  /\ catalog[t1] \in {Plain, [Plain EXCEPT !.header = "IMAGE"]}
  /\ catalog[t2] = Plain /\ \A t \in Templates \ {t1, t2} : catalog[t] = Absent
  /\ budget.calls = 0 => catalog[t1] = Plain
MCSpec == MCInit /\ [][Next]_vars

\* What is asked for: of the template that may be sent, one parameter with any
\* media or no parameter without; the sample template; never the one that is only
\* there to be one too many.
Asked(c) ==
  \/ c.kind # "template"
  \/ c.template = t1 /\ (c.parameters = {x} \/ c.media = "NONE")
  \/ c.template = t2 /\ c.parameters = {x} /\ c.media = "NONE"
\* Meta lists its templates in one order.
InOrder(reading) == DOMAIN reading \in {{}, {t1}, {t1, t2}, Templates}
\* Only what is asked for takes every form.
Simple(t) == t = t1 \/ catalog[t] \in {Plain, [Plain EXCEPT !.header = "VIDEO"], Absent}
UsualRequests ==
  /\ \A p \in Threads : Asked(call[p]) /\ InOrder(call[p].reading)
  /\ \A t \in Templates : Simple(t)
ThreadSymmetry == Permutations(TwoThreads) \cup Permutations(TwoReaders)
=============================================================================
