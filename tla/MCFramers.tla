----------------------------- MODULE MCFramers -----------------------------
(* Module Framers for TLC: the streams are a few short frames, whole,       *)
(* broken, or with a gap.                                                   *)
EXTENDS Framers

Gap(b, from, n) == SubSeq(b, 1, from) \o SubSeq(b, from + n + 1, Len(b))
Cut(b, places, n) == {Gap(b, k, m) : k \in places, m \in 1..n}
Five(A(_), B(_), C(_), D(_)) == A(1) \o B(2) \o C(3) \o D(4) \o D(5)

\* AC3: frame n with rate code r, length z and its code, and a false sync
\* word at place m.  The first byte of the check sum may be taken for a code.
Ac3Bytes(n, r, z, code, ok, m) ==
    [k \in 1..z |-> [f |-> n, i |-> k - 1, ok |-> ok, r |-> r, z |-> code,
        v |-> CASE k = 1 -> "0b" [] k = 2 -> "77" [] k \in {3, 5} -> "code"
                [] k = m -> "0b" [] k = m + 1 -> "77" [] OTHER -> "data"]]
Ac3Good(n) == Ac3Bytes(n, 48, 8, 8, TRUE, 99)
Ac3Long(n) == Ac3Bytes(n, 48, 10, 10, TRUE, 99)
Ac3Mimic(n) == Ac3Bytes(n, 48, 8, 8, TRUE, 7)
Ac3Bad(n) == Ac3Bytes(n, 48, 8, 8, FALSE, 99)
Ac3Other(n) == Ac3Bytes(n, 44, 9, 9, TRUE, 99)
Ac3Reserved(n) == Ac3Bytes(n, 0, 8, 8, TRUE, 99)
Ac3NoSize(n) == Ac3Bytes(n, 48, 8, 0, TRUE, 99)
Ac3Samples ==
    {Five(Ac3Good, Ac3Good, Ac3Long, Ac3Mimic), Five(Ac3Good, Ac3Other, Ac3Good, Ac3Long),
     Five(Ac3Good, Ac3Bad, Ac3Good, Ac3Other), Ac3Mimic(1) \o Ac3Mimic(2) \o Ac3Long(3),
     Five(Ac3Bad, Ac3Good, Ac3Good, Ac3Good), Five(Ac3Good, Ac3Reserved, Ac3Good, Ac3Good),
     Five(Ac3Good, Ac3NoSize, Ac3Good, Ac3Good)}
    \cup Cut(Five(Ac3Good, Ac3Good, Ac3Good, Ac3Good), 13..17, 4)
    \cup Cut(Five(Ac3Good, Ac3Good, Ac3Long, Ac3Good), 13..17, 4)

\* DTS: frame n of length z in bursts of a length, with rate code r.
DtsBytes(n, z, burst, r) ==
    [k \in 1..z |-> [f |-> n, i |-> k - 1, z |-> z, burst |-> burst, r |-> r,
                     v |-> CASE k = 1 -> "7f" [] k = 2 -> "fe" [] k = 3 -> "80"
                             [] k = 4 -> "01" [] OTHER -> "data"]]
DtsGood(n) == DtsBytes(n, 12, 1024, 48)
DtsLong(n) == DtsBytes(n, 15, 8192, 48)
DtsOther(n) == DtsBytes(n, 13, 1024, 44)
DtsTight(n) == DtsBytes(n, 12, 11, 48)
Four(A(_), B(_), C(_)) == DtsGood(1) \o A(2) \o B(3) \o C(4)
DtsSamples ==
    {Four(DtsGood, DtsLong, DtsGood), Four(DtsGood, DtsGood, DtsOther),
     Four(DtsGood, DtsLong, DtsTight), DtsLong(1) \o DtsGood(2) \o DtsLong(3),
     Four(DtsOther, DtsGood, DtsGood), Four(DtsTight, DtsGood, DtsGood)}
    \cup Cut(Four(DtsGood, DtsGood, DtsGood), 22..26, 3)
    \cup Cut(Four(DtsGood, DtsLong, DtsGood), 22..26, 3)

\* Mpeg audio: frames longer than the guard.
Mp2Bytes(n, z, size, r, ok) ==
    [k \in 1..z |-> [f |-> n, i |-> k - 1, z |-> size, r |-> r, ok |-> ok,
        v |-> CASE k = 1 -> "ff" [] k = 2 -> "e0" [] k = 3 -> "head"
                [] OTHER -> "data"]]
Mp2Good(n) == Mp2Bytes(n, 7, 7, 48, TRUE)
Mp2Long(n) == Mp2Bytes(n, 8, 8, 48, TRUE)
Mp2Bad(n) == Mp2Bytes(n, 7, 7, 48, FALSE)
Mp2Other(n) == Mp2Bytes(n, 7, 7, 44, TRUE)
Mp2Invalid(n) == Mp2Bytes(n, 7, 0, 48, TRUE)
Mp2Samples ==
    {Five(Mp2Good, Mp2Long, Mp2Good, Mp2Good), Five(Mp2Good, Mp2Other, Mp2Good, Mp2Good),
     Five(Mp2Good, Mp2Invalid, Mp2Good, Mp2Good),
     Five(Mp2Good, Mp2Good, Mp2Bad, Mp2Good) \o Mp2Good(6)}
    \cup Cut(Five(Mp2Good, Mp2Good, Mp2Good, Mp2Good), 17..20, 3)

\* The devices: one whose clock has just lost its 33rd bit, one that is about
\* to, one with all bits that may stand, and one of a build with 64 bits.
Clock(base, stands, bit33, wide) ==
    [base |-> base, stands |-> stands, bit33 |-> bit33, wide |-> wide]
Clocks == {Clock(47741858, FALSE, FALSE, FALSE), Clock(47721000, FALSE, FALSE, FALSE),
           Clock(5000, TRUE, TRUE, FALSE), Clock(5000, FALSE, TRUE, TRUE)}
EarlyLate == {-400, 150}
=============================================================================
