--------------------------- MODULE MCSignatureCheck ---------------------------
EXTENDS SignatureCheck

CONSTANTS gateway, other, m1, m2

\* The gateway signed one receipt hash, and a shorter piece of another; the
\* other key signed that other hash.
MCSigned == {<<gateway, m1, 32>>, <<gateway, m2, 31>>, <<other, m2, 32>>}

MCHeaders ==
    [count : {0, 1, 2}, signature_index : {U16Max}, key_index : {U16Max, 0},
     message_index : {U16Max, 0}, key_offset : {1}, message_offset : {2, 3},
     message_size : {31, 32}]

MCWords == {<<k, m>> : k \in {gateway, other}, m \in {m1, m2}}
=============================================================================
