------------------------------- MODULE MCCore -------------------------------
(***************************************************************************)
(* The bare machine with 16-bit words, and the programs it is run with.         *)
(***************************************************************************)
EXTENDS Compressed, MCHost, TLC

-----------------------------------------------------------------------------
\* Operands.

QuietNaN     == FP_CANON_NAN + 3
SignalingNaN == ExpMax * FracCount + 1

Ordered == {Zero(0), Zero(1), 1, Half + 1, Float(0, 0, 0), Float(1, 0, 0), Float(0, 3, 7),
            Infinity(0), Infinity(1), QuietNaN, SignalingNaN}

Operands == {Float(0, 0, 0), Float(0, 0, 1), Float(0, 1, 256), Float(1, 1, 511), Float(0, 4, 85),
             Float(1, 3, 300), Float(0, -3, 1)}

Convertible ==
    {Zero(0), Zero(1), 1, Half + 1, Infinity(0), Infinity(1), QuietNaN, SignalingNaN, FP_CANON_NAN + Half}
    \cup {Float(s, e, f) : s \in {0, 1}, e \in {-3, -1, 0, 1, 2, 7, 8, 9},
                             f \in {0, 1, 127, 128, 255, 256, 257, 384, 511}}
    \cup {Float(s, e, f) : s \in {0, 1}, e \in {-12, 14, 15, 16, 20}, f \in {0, 1, 511}}

Summands == {Float(0, 0, 0), Float(0, 1, 256), Float(1, 1, 511), Zero(0), SignalingNaN}

Integers16 == {0, 1, 2, 7, 1023, 1025, 1026, 1027, 2047, 4095, 32766, 32767, 32768, 32769,
               43690, 64511, 65023, 65529, 65534, 65535}

Programs ==
    Demos({1, 3, 8}) \cup Printers({3, 6, 7, 12})
    \cup Divisions(Integers16, Integers16)
    \cup Patches({0, 4660, 35020, 65535}, 0 .. 15)
    \cup Calls \cup Delays({1, 2, 4, 5, 9, 10}, {0, 7, 60000}) \cup Touches(0 .. 8)
    \cup CsrPrograms({0, 5, 31, 99, 173, 255, 65535}) \cup Refused \cup Fences
    \cup Leasts(Ordered) \cup Conversions(Convertible) \cup Integrals(Integers16)
    \cup Brackets(Operands) \cup Sums(Summands)

MCBoots == Singles({c \in Parcels : c % 4 # 3}) \cup Programs

=============================================================================
