---------------------------- MODULE MCProxyCache ----------------------------
(* Instances of ProxyCache for TLC. *)
EXTENDS ProxyCache

CONSTANTS w1, w2, x, y, z, n1, n2, n3
OneWorker == {w1}
TwoWorkers == {w1, w2}
TwoTags == {x, y}
ThreeTags == {x, y, z}
TwoAddrs == {n1, n2}
ThreeAddrs == {n1, n2, n3}

\* Sizes that fit together, that force an eviction, and that are refused.
SomeSizes == {1, 2, 3}
=============================================================================
