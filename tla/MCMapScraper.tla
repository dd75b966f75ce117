---------------------------- MODULE MCMapScraper ----------------------------
EXTENDS MapScraper

CONSTANTS c1, w1, w2

Load(max, ws, cs, ks, n) ==
  [maxConnections |-> max, workers |-> ws, clients |-> cs, kinds |-> ks, steady |-> {},
   requests |-> n, old |-> [t \in Tiles |-> "none"]]

(* Two requests of every kind of which one has to wait; three of which two *)
(* may stay behind as working; one worker, which two tiles may wake for    *)
(* nothing; two workers, which one tile makes meet at the list; a client   *)
(* that asks without end while the other asks once; and a cache in which a *)
(* process that was killed has left a part of a tile.                      *)
SixLoads ==
  {Load(0, {}, Conns, AllKinds, 2), Load(1, {}, Conns, {"tile", "route"}, 3),
   Load(0, {w1}, {c1}, {"tile"}, 2), Load(0, {w1, w2}, {c1}, {"tile"}, 1),
   [Load(0, {}, Conns, {"tiles.json", "route"}, 1) EXCEPT !.steady = {c1}],
   [Load(0, {}, Conns, {"tile"}, 2) EXCEPT !.old["north"] = "torn"]}

(* Each of the two tiles is all there is around the other. *)
OneAround == [t \in Tiles |-> IF t = "north" THEN <<"south">> ELSE <<"north">>]
=============================================================================
