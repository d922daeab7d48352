------------------------------- MODULE MapView -------------------------------
(***************************************************************************)
(* The map (MapWidget and its tile geometry): which part of the world the  *)
(* widget shows, the track it draws behind the vessel and the tiles it     *)
(* paints.                                                                 *)
(*                                                                         *)
(* A position is a point of the projected world, in pixels of the largest  *)
(* zoom: x wraps round the world, y ends at the latitudes the projection   *)
(* ends at.  A point of the widget is its distance from the middle of the  *)
(* widget in pixels.  Zoom levels are whole.                               *)
(***************************************************************************)
EXTENDS Integers, Sequences

CONSTANTS
    MinZoom, MaxZoom,         \* kMinZoom, kMaxZoom
    TileSize,                 \* kTileSize
    HalfWidth,                \* half the width and height of the widget, which has a least size
    MaxTrackPoints,           \* kMaxTrackPoints
    TrackMinPixelDistance,    \* kTrackMinPixelDistance
    MaxParentLevels           \* kMaxParentLevels

MapAssumption ==
    /\ {MinZoom, MaxZoom, MaxParentLevels} \subseteq Nat
    /\ MinZoom <= MaxZoom
    /\ {TileSize, HalfWidth, MaxTrackPoints, TrackMinPixelDistance} \subseteq Nat \ {0}

TilesAt[zoom \in 0 .. MaxZoom] == IF zoom = 0 THEN 1 ELSE 2 * TilesAt[zoom - 1]
World == TilesAt[MaxZoom] * TileSize
PixelSize(zoom) == TilesAt[MaxZoom - zoom]

IsPoint(p) == p.x \in Int /\ p.y \in Int
Between(v, low, high) == IF v < low THEN low ELSE IF v > high THEN high ELSE v
Plus(p, q, scale) == [x |-> p.x + scale * q.x, y |-> p.y + scale * q.y]

(* wrap_longitude, and the clamp of the latitude that goes with it.        *)
OnMap(p) == [x |-> p.x % World, y |-> Between(p.y, 0, World)]

Middle == [x |-> 0, y |-> 0]
NoChart(zoom) ==
    [center |-> Middle, zoom |-> zoom, follow |-> TRUE, vessel |-> {}, track |-> <<>>,
     broken |-> FALSE, route |-> <<>>, destination |-> {}, leg_origin |-> {},
     drag |-> {}]

-----------------------------------------------------------------------------
MapSetCenter(c, p) == [c EXCEPT !.center = OnMap(p)]

PositionAt(c, point) == OnMap(Plus(c.center, point, PixelSize(c.zoom)))

(* zoom_to: unless the vessel is followed, the position under the anchor   *)
(* stays under it.                                                         *)
ZoomTo(c, level, anchor) ==
    LET target == Between(level, MinZoom, MaxZoom)
    IN  IF target = c.zoom THEN c
        ELSE [c EXCEPT
                !.zoom = target,
                !.center = IF c.follow THEN @
                           ELSE OnMap(Plus(PositionAt(c, anchor), anchor, -PixelSize(target)))]

SetFollowVessel(c, follow) ==
    LET switched == [c EXCEPT !.follow = follow]
    IN  IF c.follow = follow THEN c
        ELSE IF follow /\ c.vessel # {}
        THEN MapSetCenter(switched, CHOOSE v \in c.vessel : TRUE) ELSE switched

(* Mutant of PanBy: the map is dragged past the edges of the world.        *)
PanBy_Beyond(c, delta) == [c EXCEPT !.center = Plus(@, delta, -PixelSize(c.zoom))]

PanBy(c, delta) == [c EXCEPT !.center = OnMap(Plus(@, delta, -PixelSize(c.zoom)))]

(* The track: segments of positions.                                       *)
BreakTrack(c) == [c EXCEPT !.broken = TRUE]
ClearTrack(c) == [c EXCEPT !.track = <<>>, !.broken = FALSE]

TrackLength(track) ==
    LET upTo[i \in 0 .. Len(track)] == IF i = 0 THEN 0 ELSE upTo[i - 1] + Len(track[i])
    IN  upTo[Len(track)]

FarEnough(p, q, zoom) ==
    LET dx == p.x - q.x
        dy == p.y - q.y
    IN  dx * dx + dy * dy >= (TrackMinPixelDistance * PixelSize(zoom)) ^ 2

(* One point at most is added at a time, so one at most has to go.         *)
Trimmed(track) ==
    IF TrackLength(track) <= MaxTrackPoints THEN track
    ELSE IF Len(Head(track)) = 1 THEN Tail(track)
    ELSE <<Tail(Head(track))>> \o Tail(track)

(* A point of the track is a position with a mark the caller gives it.     *)
Extended(c, point) ==
    LET n == Len(c.track)
        segment == c.track[n]
    IN  IF n = 0 \/ c.broken THEN Append(c.track, <<point>>)
        ELSE IF FarEnough(point.at, segment[Len(segment)].at, c.zoom)
        THEN [c.track EXCEPT ![n] = Append(segment, point)]
        ELSE c.track

MapSetVessel(c, p, mark) ==
    [c EXCEPT !.vessel = {p},
              !.track = Trimmed(Extended(c, [at |-> p, mark |-> mark])),
              !.broken = FALSE,
              !.center = IF c.follow THEN OnMap(p) ELSE @]

MapSetDestination(c, destination, origin) ==
    [c EXCEPT !.destination = destination,
              !.leg_origin = IF destination = {} THEN {} ELSE origin]

MapSetRoute(c, route) == [c EXCEPT !.route = route]

(* The left button without a key pressed drags the map, which lets the     *)
(* vessel go.                                                              *)
Press(c, point) == [c EXCEPT !.drag = {point}]
Release(c) == [c EXCEPT !.drag = {}]
DragTo(c, point) ==
    LET from == CHOOSE p \in c.drag : TRUE
        moved == [SetFollowVessel(c, FALSE) EXCEPT !.drag = {point}]
    IN  IF c.drag = {} \/ point = from THEN c ELSE PanBy(moved, Plus(point, from, -1))

-----------------------------------------------------------------------------
(* The tiles, counted from the north-west corner of the world.             *)
TileSpan(zoom) == TileSize * PixelSize(zoom)
Row(y, zoom) == Between(y \div TileSpan(zoom), 0, TilesAt[zoom] - 1)
Column(x, zoom) == (x \div TileSpan(zoom)) % TilesAt[zoom]

TileAt(p, zoom) == [zoom |-> zoom, x |-> Column(p.x, zoom), y |-> Row(p.y, zoom)]

ParentOf(key) ==
    IF key.zoom <= 0 THEN [zoom |-> 0, x |-> 0, y |-> 0]
    ELSE [zoom |-> key.zoom - 1, x |-> key.x \div 2, y |-> key.y \div 2]

(* draw_tiles: the rows end at the edges of the world, the columns wrap.   *)
DrawnTiles(c) ==
    LET span == TileSpan(c.zoom)
        half == HalfWidth * PixelSize(c.zoom)
        first_y == (c.center.y - half) \div span
        last_y == (c.center.y + half) \div span
        rows == {y \in first_y .. last_y : 0 <= y /\ y < TilesAt[c.zoom]}
        columns == (c.center.x - half) \div span .. (c.center.x + half) \div span
    IN  {[zoom |-> c.zoom, x |-> x % TilesAt[c.zoom], y |-> y] : x \in columns, y \in rows}

(* draw_tile: the tile itself or the nearest cached ancestor, {} for none. *)
Ancestor(key, levels) ==
    LET up[n \in 0 .. levels] == IF n = 0 THEN key ELSE ParentOf(up[n - 1])
    IN  up[levels]

Painted(key, cached) ==
    LET levels == {n \in 0 .. MaxParentLevels :
                     n <= key.zoom - MinZoom /\ Ancestor(key, n) \in cached}
    IN  IF levels = {} THEN {}
        ELSE {Ancestor(key, CHOOSE n \in levels : \A m \in levels : n <= m)}
=============================================================================
