---------------------------- MODULE MapDirections ----------------------------
(***************************************************************************)
(* The map of MapKitDirection (MapKitDirection/MapKitDirection/            *)
(* ViewControllers/MapViewController.swift).                               *)
(*                                                                         *)
(* Everything runs on the main thread, but the answers for places and      *)
(* routes come later, those for routes in any order, and the map asks for  *)
(* the colour of a route some time after it was added.  A route is the     *)
(* transport and the number of the request it answers.                     *)
(***************************************************************************)
EXTENDS Naturals

CONSTANT MaxAsked       \* bound: requests for directions

ASSUME MaxAskedAssumption == MaxAsked \in Nat

VARIABLES place,        \* "unknown", "asked" or "known": currentPlacemark
          hidden,       \* segmentedControl.isHidden
          segment,      \* the selected segment
          transport,    \* currentTransportType
          requests,     \* requests for directions under way
          overlays,     \* routes on the map
          asked         \* number of requests made

vars == <<place, hidden, segment, transport, requests, overlays, asked>>

-----------------------------------------------------------------------------
Transport == {"automobile", "walking"}
Request == [by : Transport, number : 1 .. MaxAsked]
Overlay == [by : Transport, number : 1 .. MaxAsked, colour : {"none", "blue", "orange"}]

\* rendererFor: the colour of the transport in force.
StrokeColor(t) == IF t = "automobile" THEN "blue" ELSE "orange"

Init ==
  /\ place = "asked"
  /\ hidden = TRUE
  /\ segment = "automobile" /\ transport = "automobile"
  /\ requests = {} /\ overlays = {} /\ asked = 0

\* The geocoder answers once, with the place or an error.
Geocoded ==
  /\ place = "asked"
  /\ place' \in {"known", "unknown"}
  /\ UNCHANGED <<hidden, segment, transport, requests, overlays, asked>>

\* Faulty variant: the request is made before the transport is read.
ShowDirectionLate(s) ==
  /\ asked < MaxAsked
  /\ segment' = s
  /\ IF place = "known"
     THEN /\ transport' = s /\ hidden' = FALSE
          /\ asked' = asked + 1
          /\ requests' = requests \cup {[by |-> transport, number |-> asked']}
     ELSE UNCHANGED <<hidden, transport, requests, asked>>
  /\ UNCHANGED <<place, overlays>>

\* showDirection with segment s selected: nothing before the place is known.
ShowDirection(s) ==
  /\ asked < MaxAsked
  /\ segment' = s
  /\ IF place = "known"
     THEN /\ transport' = s /\ hidden' = FALSE
          /\ asked' = asked + 1
          /\ requests' = requests \cup {[by |-> s, number |-> asked']}
     ELSE UNCHANGED <<hidden, transport, requests, asked>>
  /\ UNCHANGED <<place, overlays>>

\* The button leaves the segments alone; the control, once visible, is changed to
\* its other segment.
PressButton == ShowDirection(segment)
ChooseSegment == ~hidden /\ \E s \in Transport \ {segment} : ShowDirection(s)

\* The answer to a request: its route replaces whatever is on the map.
RouteArrives(r) ==
  /\ requests' = requests \ {r}
  /\ overlays' = {[by |-> r.by, number |-> r.number, colour |-> "none"]}
  /\ UNCHANGED <<place, hidden, segment, transport, asked>>

\* An error is printed and the map left alone.
RouteFails(r) ==
  /\ requests' = requests \ {r}
  /\ UNCHANGED <<place, hidden, segment, transport, overlays, asked>>

\* rendererFor: the map asks for the colour of a route it is about to draw.
Render(o) ==
  /\ o.colour = "none"
  /\ overlays' = (overlays \ {o}) \cup {[o EXCEPT !.colour = StrokeColor(transport)]}
  /\ UNCHANGED <<place, hidden, segment, transport, requests, asked>>

Next ==
  \/ Geocoded
  \/ PressButton
  \/ ChooseSegment
  \/ \E r \in requests : RouteArrives(r) \/ RouteFails(r)
  \/ \E o \in overlays : Render(o)

Spec == Init /\ [][Next]_vars

-----------------------------------------------------------------------------
\* Type invariant.
TypeOK ==
  /\ place \in {"unknown", "asked", "known"}
  /\ hidden \in BOOLEAN
  /\ segment \in Transport /\ transport \in Transport
  /\ requests \in SUBSET Request
  /\ overlays \in SUBSET Overlay
  /\ asked \in 0 .. MaxAsked

\* At most one route is on the map, though answers overlap.
OneRoute == \A o, p \in overlays : o = p

\* While the control can be seen, the segment it shows is the transport in force,
\* which the guard on the place could prevent.
ControlShowsTransport == ~hidden => segment = transport

\* The route of the latest request is of the transport in force, drawn in its
\* colour, whatever the order of the answers and of drawing.  A route of an earlier
\* request, left there by a failure or by answers out of order, may be of the other
\* transport, and drawn in the wrong colour.
LatestRouteFits ==
  \A o \in overlays :
    o.number = asked => o.by = transport
                        /\ o.colour \in {"none", StrokeColor(o.by)}
=============================================================================
