-------------------------- MODULE MCCharacterSaves --------------------------
(* Instances of CharacterSaves for TLC. *)
EXTENDS CharacterSaves

CONSTANTS psms, standing, cman, feat, society, resource

GroupOfParts ==
    [p \in Parts |-> IF p \in {cman, feat} THEN psms ELSE standing]
=============================================================================
