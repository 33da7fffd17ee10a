------------------------------- MODULE MCReports -------------------------------
(* TLC instances of Reports. *)
EXTENDS Reports, TLC

CONSTANTS c1, p1, p2, q1, command1, north, south, asphalt, emulsion, sealant, w1

None == {}
TwoOpportunities == {1, 2}
OneCustomer == {c1}
TwoProducts == {p1, p2}
OneRequest == {q1}
OneCommand == {command1}
WebToo == {"WHATSAPP", "WEB"}
TwoProvinces == {north, south}
ThreeNames == {asphalt, emulsion, sealant}
FirstNames == [p \in Products |-> IF p = p1 THEN asphalt ELSE emulsion]
OneWalk == {w1}

SomeDimensions ==
  {[source |-> Nobody, product |-> Nobody, province |-> Nobody],
   [source |-> Nobody, product |-> p1, province |-> north]}
SomePeriods == {<<0, 1>>, <<0, 3>>}

\* The start: a lost and a won opportunity of one customer.  The commands that
\* lead there are the subject of the runs of MCOpportunity.
Entry(f, t, k) == [from |-> f, to |-> t, kind |-> k]
Negotiated == <<Entry("none", "NUEVA", "CREATED"), Entry("NUEVA", "COTIZADA", "STATUS_CHANGED"),
                Entry("COTIZADA", "NEGOCIACION", "STATUS_CHANGED")>>

LostAndWon ==
  /\ status = <<"PERDIDA", "GANADA">>
  /\ customer = <<c1, c1>> /\ source = <<"WHATSAPP", "WEB">>
  /\ products = <<{p1, p2}, {p1}>>
  /\ deleted = {} /\ assignee = <<Nobody, Nobody>> /\ version = <<4, 4>>
  /\ history = <<Append(Negotiated, Entry("NEGOCIACION", "PERDIDA", "LOST")),
                 Append(Negotiated, Entry("NEGOCIACION", "GANADA", "STATUS_CHANGED"))>>
  /\ losses = <<<<[entry |-> 4, products |-> {p1, p2}]>>, <<>>>>
  /\ reopens = <<<<>>, <<>>>>
  /\ offered = Products /\ archived = {}
  /\ pending = [c \in Customers |-> Nobody]
  /\ request = [q \in Requests |-> Nobody]
  /\ seen = [k \in Clients |-> Nobody]
  /\ overdue = {} /\ notices = {} /\ scan = Nobody /\ overlaps = 0
  /\ mature = {} /\ legendary = {}
  /\ createdAt = <<0, 1>> /\ enteredAt = <<0, 1>>
  /\ province = [c \in Customers |-> north] /\ name = FirstNames
  /\ lossRow = <<[opportunity |-> 1, at |-> 0, entry |-> 4, source |-> "WHATSAPP",
                  province |-> north, products |-> {p1, p2}, names |-> FirstNames]>>

\* A behaviour moves the customer or renames a product while days pass, or a list is read on the
\* last day.
MCInit ==
  /\ LostAndWon
  /\ walk = [w \in Walks |-> NoWalk]
  /\ \/ now = 1 /\ moves = 0 /\ begun = MaxWalks
     \/ now = MaxTime /\ moves = MaxMoves /\ begun = 0
MCSpec == MCInit /\ [][ReportsNext]_<<vars, reportVars>>
=============================================================================
