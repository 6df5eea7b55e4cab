-------------------------- MODULE MapDirectionsProofs --------------------------
(***************************************************************************)
(* Proofs about MapDirections for any number of requests.  LatestRouteFits *)
(* needs that a request of the last number is of the transport in force    *)
(* and that no number is greater than asked, so that a new request makes   *)
(* every earlier route one that is not the latest.                         *)
(***************************************************************************)
EXTENDS MapDirections, TLAPS

LatestRequestFits == \A r \in requests : r.number = asked => r.by = transport

Numbered ==
  /\ \A r \in requests : r.number <= asked
  /\ \A o \in overlays : o.number <= asked

\* The control is shown by a request, so the guard on the place cannot stop it.
VisibleIsKnown == ~hidden => place = "known"

IInv ==
  /\ TypeOK /\ OneRoute /\ ControlShowsTransport
  /\ VisibleIsKnown /\ Numbered /\ LatestRequestFits /\ LatestRouteFits

LEMMA InitIInv == Init => IInv
BY MaxAskedAssumption
DEF Init, IInv, TypeOK, Transport, OneRoute, ControlShowsTransport, Numbered,
    VisibleIsKnown,     LatestRequestFits, LatestRouteFits

\* A new request leaves every earlier route behind and is itself of the transport
\* in force.
LEMMA ShowDirectionIInv ==
  ASSUME IInv, NEW s \in Transport, ShowDirection(s)
  PROVE  IInv'
<1>1. CASE place = "known"
  <2> DEFINE new == [by |-> s, number |-> asked + 1]
  <2>1. /\ asked' = asked + 1 /\ transport' = s /\ segment' = s
        /\ requests' = requests \cup {new} /\ overlays' = overlays
        /\ hidden' = FALSE /\ place' = place
    BY <1>1 DEF ShowDirection
  <2>2. asked \in Nat /\ asked + 1 \in 1 .. MaxAsked
    BY MaxAskedAssumption DEF IInv, TypeOK, ShowDirection
  <2>3. new \in Request /\ new.by = s /\ new.number = asked + 1
    BY <2>2 DEF Request
  <2> HIDE DEF new
  <2>4. TypeOK'
    <3>1. requests' \in SUBSET Request /\ overlays' \in SUBSET Overlay
      BY <2>1, <2>3 DEF IInv, TypeOK
    <3>2. asked' \in 0 .. MaxAsked
      BY <2>1, <2>2, MaxAskedAssumption
    <3> QED  BY <2>1, <3>1, <3>2 DEF IInv, TypeOK
  <2>5. (\A r \in requests : r.number \in Nat) /\ (\A o \in overlays : o.number \in Nat)
    BY DEF IInv, TypeOK, Request, Overlay
  <2>6. Numbered'
    BY <2>1, <2>2, <2>3, <2>5 DEF IInv, Numbered
  <2>7. LatestRequestFits'
    BY <2>1, <2>2, <2>3, <2>5 DEF IInv, Numbered, LatestRequestFits
  <2>8. LatestRouteFits'
    BY <2>1, <2>2, <2>5 DEF IInv, Numbered, LatestRouteFits
  <2>9. OneRoute' /\ ControlShowsTransport' /\ VisibleIsKnown'
    BY <2>1, <1>1 DEF IInv, OneRoute, ControlShowsTransport, VisibleIsKnown
  <2> QED  BY <2>4, <2>6, <2>7, <2>8, <2>9 DEF IInv
<1>2. CASE place # "known"
  <2>1. segment' = s /\ UNCHANGED <<place, hidden, transport, requests, overlays, asked>>
    BY <1>2 DEF ShowDirection
  <2>2. TypeOK' /\ OneRoute' /\ Numbered' /\ LatestRequestFits' /\ LatestRouteFits'
    BY <2>1 DEF IInv, TypeOK, OneRoute, Numbered, LatestRequestFits, LatestRouteFits
  <2>3. ControlShowsTransport' /\ VisibleIsKnown'
    BY <2>1, <1>2 DEF IInv, ControlShowsTransport, VisibleIsKnown
  <2> QED  BY <2>2, <2>3 DEF IInv
<1> QED  BY <1>1, <1>2

\* A route arrives with the number and the transport of its request.
LEMMA RouteArrivesIInv ==
  ASSUME IInv, NEW r \in requests, RouteArrives(r)
  PROVE  IInv'
<1> DEFINE new == [by |-> r.by, number |-> r.number, colour |-> "none"]
<1>1. /\ requests' = requests \ {r} /\ overlays' = {new}
      /\ UNCHANGED <<place, hidden, segment, transport, asked>>
  BY DEF RouteArrives
<1>2. new \in Overlay /\ new.by = r.by /\ new.number = r.number /\ new.colour = "none"
  BY DEF IInv, TypeOK, Request, Overlay
<1> HIDE DEF new
<1>3. TypeOK' /\ OneRoute' /\ ControlShowsTransport' /\ VisibleIsKnown'
  BY <1>1, <1>2 DEF IInv, TypeOK, OneRoute, ControlShowsTransport, VisibleIsKnown
<1>4. Numbered' /\ LatestRequestFits'
  BY <1>1, <1>2 DEF IInv, Numbered, LatestRequestFits
<1>5. LatestRouteFits'
  BY <1>1, <1>2 DEF IInv, LatestRequestFits, LatestRouteFits
<1> QED  BY <1>3, <1>4, <1>5 DEF IInv

\* The latest route is of the transport in force when the map asks for its colour.
LEMMA RenderIInv ==
  ASSUME IInv, NEW o \in overlays, Render(o)
  PROVE  IInv'
<1> DEFINE new == [o EXCEPT !.colour = StrokeColor(transport)]
<1>1. /\ overlays' = (overlays \ {o}) \cup {new}
      /\ UNCHANGED <<place, hidden, segment, transport, requests, asked>>
  BY DEF Render
<1>2. /\ new \in Overlay /\ new.by = o.by /\ new.number = o.number
      /\ new.colour = StrokeColor(transport)
  BY DEF IInv, TypeOK, Overlay, StrokeColor, Transport
<1> HIDE DEF new
<1>3. TypeOK' /\ OneRoute' /\ ControlShowsTransport' /\ VisibleIsKnown'
  BY <1>1, <1>2 DEF IInv, TypeOK, OneRoute, ControlShowsTransport, VisibleIsKnown
<1>4. Numbered' /\ LatestRequestFits'
  BY <1>1, <1>2 DEF IInv, Numbered, LatestRequestFits
<1>5. LatestRouteFits'
  BY <1>1, <1>2 DEF IInv, LatestRouteFits
<1> QED  BY <1>3, <1>4, <1>5 DEF IInv

LEMMA NextIInv == ASSUME IInv, [Next]_vars PROVE IInv'
<1>1. CASE Geocoded
  BY <1>1 DEF IInv, Geocoded, TypeOK, OneRoute, ControlShowsTransport, VisibleIsKnown,
              Numbered, LatestRequestFits, LatestRouteFits
<1>2. CASE PressButton
  <2>1. segment \in Transport
    BY DEF IInv, TypeOK
  <2> QED  BY <1>2, <2>1, ShowDirectionIInv DEF PressButton
<1>3. CASE ChooseSegment
  BY <1>3, ShowDirectionIInv DEF ChooseSegment
<1>4. ASSUME NEW r \in requests, RouteArrives(r) PROVE IInv'
  BY <1>4, RouteArrivesIInv
<1>5. ASSUME NEW r \in requests, RouteFails(r) PROVE IInv'
  BY <1>5 DEF IInv, RouteFails, TypeOK, OneRoute, ControlShowsTransport, VisibleIsKnown,
              Numbered, LatestRequestFits, LatestRouteFits
<1>6. ASSUME NEW o \in overlays, Render(o) PROVE IInv'
  BY <1>6, RenderIInv
<1>7. CASE UNCHANGED vars
  BY <1>7 DEF vars, IInv, TypeOK, OneRoute, ControlShowsTransport, VisibleIsKnown,
              Numbered, LatestRequestFits, LatestRouteFits
<1> QED  BY <1>1, <1>2, <1>3, <1>4, <1>5, <1>6, <1>7 DEF Next

\* IInv is an inductive invariant of the map screen.
LEMMA Invariance == Spec => []IInv
BY InitIInv, NextIInv, PTL DEF Spec

\* The requests and the routes on the map keep their types, and at most one route
\* is drawn (the completion handler removes the overlays first).
THEOREM TypeCorrect == Spec => [](TypeOK /\ OneRoute)
<1>1. IInv => TypeOK /\ OneRoute
  BY DEF IInv
<1> QED  BY <1>1, Invariance, PTL

\* Once it is visible the control shows the transport that routes are requested
\* for, whatever the order of geocoder, button and segments (showDirection).
THEOREM ControlIsRight == Spec => []ControlShowsTransport
<1>1. IInv => ControlShowsTransport
  BY DEF IInv
<1> QED  BY <1>1, Invariance, PTL

\* The route of the latest request is of the transport in force and in its
\* colour, however late other answers arrive (the overlay renderer).
THEOREM MapIsRight == Spec => []LatestRouteFits
<1>1. IInv => LatestRouteFits
  BY DEF IInv
<1> QED  BY <1>1, Invariance, PTL
=============================================================================
