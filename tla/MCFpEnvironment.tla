--------------------------- MODULE MCFpEnvironment ---------------------------
(***************************************************************************)
(* Operations on words of 16 bits that raise each flag the small IEEE 754 has *)
(* and none, whose results depend on the mode or do not, in three static modes *)
(* and the dynamic one.                                                     *)
(***************************************************************************)
EXTENDS FpEnvironment, MCHost

One          == Float(0, 0, 0)
Three        == Float(0, 1, 256)
Greatest     == Infinity(0) - 1
SignalingNaN == ExpMax * FracCount + 1

Rms == {0, 1, 2, 7}

Op(f7, rs2, f3, a, b) == [f7 |-> f7, rs2 |-> rs2, f3 |-> f3, a |-> a, b |-> b, x |-> 1025]

\* 1 / 3 is inexact, 1 + 3 exact, the greatest number times 3 overflows, 1 / 0, a
\* signaling NaN + 1; the root of 3 and of -1.
Ariths ==
    {Op(12, 2, rm, One, Three) : rm \in Rms} \cup {Op(0, 2, rm, One, Three) : rm \in {0, 7}}
    \cup {Op(8, 2, rm, Greatest, Three) : rm \in Rms} \cup {Op(4, 2, 7, Three, Three)}
    \cup {Op(12, 2, 7, One, 0), Op(0, 2, 0, SignalingNaN, One),
          Op(44, 0, 7, Three, 0), Op(44, 0, 0, One + Half, 0)}

\* 1.5, -1.5, 2^15, 2^16 and a signaling NaN to integers; 1025 and 1 from one.
Conversions ==
    {Op(96, u, rm, v, 0) : u \in {0, 1}, rm \in {2, 7},
                           v \in {Float(0, 0, 256), Float(1, 0, 256), Power(15), Power(16), SignalingNaN}}
    \cup {Op(104, 0, rm, 0, 0) : rm \in Rms} \cup {[Op(104, 1, 7, 0, 0) EXCEPT !.x = 1]}

Exacts == {Op(20, 2, 0, One, SignalingNaN), Op(80, 2, 1, One, Three), Op(16, 2, 1, One, Three),
           Op(112, 0, 1, One, 0), Op(120, 0, 0, 0, 0)}

MCInstructions == Ariths \cup Conversions \cup Exacts
MCFrmWrites    == {0, 2, 5, 11}
MCFlagWrites   == {{}, {FP_NX, FP_DZ}}

=============================================================================
