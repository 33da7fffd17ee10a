------------------------------ MODULE MCIntake ------------------------------
(* Small instances of Intake for TLC. *)
EXTENDS Intake, TLC

CONSTANTS r1, r2, r3, s1, k1, k2, b1, e1, e2, p1, p1b, p2, short, key1, key2, co, ca, x1, x2

TwoRequests == {r1, r2}
ThreeRequests == {r1, r2, r3}
RequestSymmetry == Permutations(ThreeRequests)
None == {}
OneSubmission == {s1}
OneCommand == {k1}
TwoCommands == {k1, k2}
OneBatch == {b1}
OneEmail == {e1}
PhoneForms == {p1, p1b, short}
OneCompany == {co}
TwoCompanies == {co, ca}
OneRest == {x1}
RestsOfALead == {x1, "forbidden"}
Keys == (p1 :> key1) @@ (p1b :> key1) @@ (p2 :> key2) @@ (short :> Nothing)

Order == <<<<"id", k1>>, <<"email", e1>>, <<"id", s1>>, <<"phone", key1>>, <<"id", k2>>,
           <<"batch", b1>>, <<"email", e2>>, <<"phone", key2>>>>
RankInOrder == [k \in ToSet(Order) |-> CHOOSE i \in DOMAIN Order : Order[i] = k]

P(email, phone, company) == [email |-> email, phone |-> phone, company |-> company]
Known(email, phone, company) == Customer(P(email, phone, company), {})
Leads == {P(e1, p1, Nothing), P(Nothing, p1b, co), P(e1, short, Nothing)}
Nobody == {P(Nothing, Nothing, Nothing)}
Empty == {<<>>}
OneKnown == {<<Known(e1, Nothing, co)>>}
SomeKnown == {<<>>, <<Known(e1, Nothing, co)>>, <<Known(e1, Nothing, co), Known(Nothing, p1, Nothing)>>}
Complete == {<<Known(e1, p1, Nothing)>>}
NoFiles == {}
TwoRowFiles == {<<P(Nothing, p1, Nothing), P(e1, Nothing, co)>>, <<P(e1, p1, co)>>}
SameCustomerFile == {<<P(e1, Nothing, co), P(Nothing, p1, ca)>>}

AllKinds == {"lead", "manual", "chosen", "import", "edit", "job"}
ChosenAndJob == {"chosen", "job"}
Imports == {"import"}
=============================================================================
