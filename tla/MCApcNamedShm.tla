---------------------------- MODULE MCApcNamedShm ----------------------------
(* Instances of the startup. *)
EXTENDS ApcNamedShm, TLC

CONSTANTS p1, p2, p3

Plain == [abi |-> 2, serializer |-> "php", ext |-> TRUE, size |-> 2, preload |-> TRUE]
Larger == [Plain EXCEPT !.size = 3]
Tiny == [Plain EXCEPT !.size = 1]
Upgraded == [Plain EXCEPT !.abi = 3]
Igbinary == [Plain EXCEPT !.serializer = "igbinary", !.preload = FALSE]
LongName == [Igbinary EXCEPT !.serializer = "a_name_of_32_characters_or_more"]

\* Workers of different builds and settings, as while a change is rolled out;
\* preload_path is set only where the serializer is PHP's.
Rollout == {Larger, Tiny, Upgraded, Igbinary, LongName}
Long == {LongName.serializer}

\* All workers alike: igbinary, and a preload_path.
Alike == {[Igbinary EXCEPT !.preload = TRUE]}

Symmetry == Permutations(Proc)
=============================================================================
