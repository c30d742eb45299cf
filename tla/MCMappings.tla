----------------------------- MODULE MCMappings -----------------------------
(* An instance of Mappings for TLC.                                        *)
EXTENDS Mappings

\* A page and a half, two pages less: they fail at either end, too.
MCDeltas   == {3, -4}
MCPrograms == {2, 4}
\* Frames 14 and 15 are the device space, the next frame is 0; 22 wraps around.
MCIoArgs   == {<<14, 4>>, <<15, 4>>, <<14, 22>>}
\* The first ends past the huge page space; 0 maps a page that the size does
\* not cover, and 20 wraps around.
MCHpArgs   == {<<10, 8>>, <<8, 0>>, <<8, 20>>}
==============================================================================
