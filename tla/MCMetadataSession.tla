-------------------------- MODULE MCMetadataSession --------------------------
\* A configuration, an object it may stop declaring and a form of that object.
EXTENDS MetadataSession, TLC

CONSTANTS r, a, b

Chain == (a :> r) @@ (b :> a)

Text(v, refs) == [version |-> v, refs |-> refs]

Choices == (r :> {Text(1, {a}), Text(1, {}), Malformed})
        @@ (a :> {Text(1, {b}), Text(2, {})})
        @@ (b :> {Text(1, {}), Missing})
=============================================================================
