----------------------------- MODULE MCAdmission -----------------------------
(* A small daily and a large rolling ciphertext.                               *)
EXTENDS Admission

MCClassOf == [i \in Item |-> IF i = "d1" THEN "daily" ELSE "rolling"]
MCSizeOf == [i \in Item |-> IF i = "r2" THEN 2 ELSE 1]
MCMinInterval == [c \in {MCClassOf[i] : i \in Item} |-> IF c = "daily" THEN 3 ELSE 0]
==============================================================================
