--------------------------- MODULE MCVoiceSession ---------------------------
(* Small instances of VoiceSession for TLC.                                *)
EXTENDS VoiceSession, TLC

RequestSymmetry == Permutations(Continues)

(* Two categories share a filter key; only milk has required filters; a    *)
(* boolean is 0 or 1.                                                      *)
MCDeclared ==
  [milk |-> [volumeMl |-> {500, 1000}, fatPercent |-> {32}],
   oil  |-> [volumeMl |-> {1000}, organic |-> {0, 1}]]
MCBooleans == {"organic"}

(* Milk and organic oil; one volume of milk, no oil; oil of no known kind, *)
(* no milk.                                                                *)
MCCatalogs ==
  {[milk |-> [volumeMl |-> {500, 1000}, fatPercent |-> {32}], oil |-> [volumeMl |-> {}, organic |-> {1}]],
   [milk |-> [volumeMl |-> {500}, fatPercent |-> {32}]],
   [oil |-> [volumeMl |-> {1000}, organic |-> {}]]}
=============================================================================
