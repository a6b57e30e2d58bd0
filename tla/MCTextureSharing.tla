--------------------------- MODULE MCTextureSharing ---------------------------
(* Instances of TextureSharing for model checking.                         *)
EXTENDS TextureSharing

CONSTANTS a, b, x, y, h1, h2, h3, h4, m

TwoUpdaters == {a, b}
TwoStreams == {x, y}
FourHandles == {h1, h2, h3, h4}

(* Updaters are interchangeable, and so are handles.                       *)
Symmetry == Permutations({a, b}) \cup Permutations(FourHandles) \cup Permutations(TwoStreams)
==============================================================================
