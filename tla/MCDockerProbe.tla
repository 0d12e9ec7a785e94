--------------------------- MODULE MCDockerProbe ---------------------------
(***************************************************************************)
(* Two sockets, a file and a link; /var/run is a link to /run, as usual,   *)
(* so that the first two paths lead to the same entry.                     *)
(***************************************************************************)
EXTENDS DockerProbe

MCTarget == [l \in {"L"} |-> "s2"]
MCEntryOf == <<"run", "run", "sub">>
MCSetups ==
  [entry : {[run |-> "s1", sub |-> x] : x \in {"s2", "f", "L", Nothing}},
   mode : {[s1 |-> {"user"}, s2 |-> {"world"}], [s1 |-> {"user", "world"}, s2 |-> {"user"}],
           [s1 |-> {}, s2 |-> {"user", "world"}]}]
=============================================================================
