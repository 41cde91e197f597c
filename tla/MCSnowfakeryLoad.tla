--------------------------- MODULE MCSnowfakeryLoad ---------------------------
(* Small instances of SnowfakeryLoad.                                          *)
EXTENDS SnowfakeryLoad

CONSTANTS Generators, Loaders     \* workers of every channel

MCGenerators == [c \in Channel |-> Generators]
MCLoaders == [c \in Channel |-> Loaders]
MCNone == {}
MCFirstGen == {<<<<1, 1>>, Gen>>}
MCThirdJob == {<<<<1, 3>>, Load>>}
MCFirstTwoJobs == {<<<<1, 1>>, Gen>>, <<<<1, 2>>, Load>>}
=============================================================================
