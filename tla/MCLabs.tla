------------------------------- MODULE MCLabs -------------------------------
(***************************************************************************)
(* Instances of CacheLab and Bits for TLC.  The two are separate programs  *)
(* that share nothing: a behaviour is of one of them, and the other stays  *)
(* where it begins.                                                        *)
(***************************************************************************)
EXTENDS CacheLab, Bits

VARIABLE program           \* the one that runs

labsVars == <<vars, bitsVars, program>>

\* Sets of two and three lines, one set and two; the cache of the lab.
SomeArgs == {[s |-> 1, E |-> 2, b |-> 1], [s |-> 0, E |-> 3, b |-> 1], Lab}

\* transpose_submit's three special cases, and one for trans.
LabShapes == {<<32, 32>>, <<64, 64>>, <<61, 67>>, <<5, 3>>}

\* Runs of ones and of zeroes that begin and end at the ends and the middle
\* of a word and next to them: 0, 1, -1, the largest and the smallest number,
\* their neighbours, and numbers about 2^15 and 2^16 among them; bytes; and
\* two words without such a pattern.
Corners == {0, 1, 15, 16, 30, 31}
Runs == {lo .. hi : lo \in Corners, hi \in Corners} \cup {0 .. 7, 8 .. 15, 8 .. 23, 24 .. 31}
SomeWords == Runs \cup {Positions \ run : run \in Runs} \cup {{0, 3, 8, 10, 21, 22, 28}, {2, 3}}

\* Both signs; the exponents at which a case begins or ends; fractions whose
\* last bits decide the rounding.
Exponents == {0, 1, 2, 3, 125, 126, 127, 128, 149, 150, 151, 157, 158, 159, 254, 255}
Fractions == {{}, {0}, {1}, {0, 1}, {2}, {0, 2}, {1, 2}, {0, 1, 2}, {22}, {0, 22}, {21, 22},
              0 .. 22, 1 .. 22, 0 .. 21, {0} \cup 2 .. 22}
SomeFloats == {signs \cup Shl(Lit(e), 23) \cup fraction :
                  signs \in {{}, {31}}, e \in Exponents, fraction \in Fractions}

LabsInit == /\ program \in {"cachelab", "bits"}
            /\ Init /\ BitsInit
            /\ program = "bits" => Tracing

CacheLabRuns == program = "cachelab" /\ Next /\ UNCHANGED <<bitsVars, program>>

\* BitsNext, whose calls are not tried again when one has been made.
BitsRuns == /\ program = "bits"
            /\ IF call = NoCall THEN BitsNext ELSE Done
            /\ UNCHANGED <<vars, program>>

\* Restricted to either program this is its own FairSpec or BitsSpec.
LabsSpec == /\ LabsInit /\ [][CacheLabRuns \/ BitsRuns]_labsVars
            /\ WF_vars(program = "cachelab" /\ AccessOne)
=============================================================================
