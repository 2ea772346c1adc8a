----------------------------- MODULE MCLibsmp -----------------------------
(* The library on small instances: the critical section, the list of threads and  *)
(* the generator of its exports.  They share no variable: a behaviour is one of a *)
(* part, while the others rest in one of their initial states.                    *)
EXTENDS CritSect, ThreadList, Generator

CONSTANTS t1, t2, t3, k1, k2, c1, c2, r1, r2

ThreeThreads == {t1, t2, t3}
OnlyManual   == {t1, t2}
OnlyT3       == {t3}
Creators     == {k1, k2}
Children     == {c1, c2}
Records      == {r1, r2}

\* The sets of ThreadList whose members are alike.
Alike == Permutations(Creators) \cup Permutations(Children) \cup Permutations(Records)

\* Two words, each of which can stand for a library, a function or a flag.
DataWord == "DATA.dll"
StubWord == "STUB@4"
TwoWords == {DataWord, StubWord}
WordArgs  == [w \in TwoWords |-> IF w = StubWord THEN 4 ELSE 0]
WordFlags == [w \in TwoWords |-> IF w = StubWord THEN {"STUB"} ELSE {"DATA"}]
WordDots  == [w \in TwoWords |-> w = DataWord]
\* A bound: the longer lists start with a line that names a library.
LongListsNamed == Len(text') > 6 => text'[1] = DataWord /\ text'[2] = NewLine

\* The types of all three.
LibsmpTypeOK == CritTypeOK /\ ListTypeOK /\ GenTypeOK

CritRests == CritInit /\ known /\ ready
PartInit  == CritInit /\ ListInit /\ GenInit
LibsmpSpec ==
    /\ PartInit
    /\ [][ \/ CritNext /\ ListInit /\ GenInit /\ UNCHANGED <<tlVars, genVars>>
           \/ ListNext /\ CritRests /\ GenInit /\ UNCHANGED <<csVars, genVars>>
           \/ GenNext /\ LongListsNamed /\ CritRests /\ ListInit /\ UNCHANGED <<csVars, tlVars>>
         ]_<<csVars, tlVars, genVars>>

=============================================================================
