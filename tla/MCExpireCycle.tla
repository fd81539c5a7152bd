--------------------------- MODULE MCExpireCycle ---------------------------
(***************************************************************************)
(* Values for the constants of ExpireCycle that TLC checks it with.        *)
(***************************************************************************)
EXTENDS ExpireCycle, TLC

CONSTANTS a, b, c

Hashed(x, y, z) == (a :> x) @@ (b :> y) @@ (c :> z)

\* Two keys apart only in the high bit, all apart, two together.
SomeHashes == {Hashed(0, 1, 2), Hashed(1, 3, 0), Hashed(2, 2, 1)}
AllHashes == [Key -> 0..(2 ^ HashBits - 1)]

\* Keys are interchangeable when every hash function is taken.
KeySymmetry == Permutations(Key)
=============================================================================
