-------------------------- MODULE MCRouteCorridor --------------------------
(* Routes with a loop, a crossing, a hairpin and repeated points on a map of *)
(* three by three cells, and one that leaves it.                             *)
EXTENDS RouteCorridor

MCCells   == (0..2) \X (0..2)
MCOutside == {<<3, 0>>}

Loop      == << <<0, 0>>, <<2, 0>>, <<2, 2>>, <<0, 2>>, <<0, 0>> >>
Crossing  == << <<0, 1>>, <<2, 1>>, <<2, 2>>, <<1, 2>>, <<1, 0>> >>
Hairpin   == << <<0, 0>>, <<2, 0>>, <<2, 1>>, <<0, 1>> >>
Leaving   == << <<1, 0>>, <<3, 0>> >>
Repeated  == << <<0, 0>>, <<0, 0>>, <<1, 0>>, <<1, 0>>, <<1, 2>> >>
OnePoint  == << <<2, 1>> >>
OnePlace  == << <<2, 1>>, <<2, 1>> >>

MCRoutes == {Loop, Crossing, Hairpin, Leaving, Repeated, OnePoint, OnePlace}

MCObstacles == {{}, {<<1, 1>>}, {<<2, 0>>, <<0, 2>>}}

=============================================================================
