------------------------------ MODULE MCConfig ------------------------------
(* Small instances of Config for TLC: an int has 2 bits, a long long 4.    *)
EXTENDS Config

CONSTANTS cpp, pas, other

(* Columns, beyond an int, a size_t and a long long.                       *)
AllLimits == {-9, -1, 0, 2, 3, 4, 7}
AllIds == {-1, 1, 5, 8}
AllScores == {-3, 8}

(* Entries of contester.cfg; a command may lack its second place, or both. *)
Entries == [id : Languages, compiler : {{}, {"$1"}, {"$1", "$2"}}, ext : {".x", ""}]

(* The regular ones: a language that needs both places, one that needs one.*)
Regular == {[id |-> cpp, compiler |-> {"$1", "$2"}, ext |-> ".x"],
            [id |-> pas, compiler |-> {"$1"}, ext |-> ".x"]}

(* None, one, or one before a regular one, perhaps of the same language.   *)
UpToTwo == {<<>>} \union {<<a>> : a \in Entries}
                  \union {<<a, b>> : a \in Entries, b \in Regular}
=============================================================================
