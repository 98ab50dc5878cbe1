------------------------------ MODULE MCMain ------------------------------
(* Small instances of Main for TLC. *)
EXTENDS Main

CONSTANT MaxVar   \* the variables a file may name

MCPoints == SUBSET (1..MaxVar)

FilesOf(lines, length) == UNION {[1..n -> lines] : n \in 0..length}

\* Soft clauses of different weights, one of them followed by a variable it
\* does not name, and hard clauses that oppose them and each other.
Core ==
    {ClauseLine(1, <<1>>), ClauseLine(2, <<2>>), ClauseLine(1, <<-1, -2>>),
     ClauseLine(MaxWeight, <<3, -2>>), TopLine(2)}

\* Weights 0 and MaxWeight + 3, which wraps to 2, an empty clause, opposite
\* units, and lines that cannot be read.
Edges ==
    {ClauseLine(0, <<-1>>), ClauseLine(MaxWeight + 3, <<-1>>), ClauseLine(2, <<>>),
     ClauseLine(MaxWeight, <<2>>), ClauseLine(MaxWeight, <<-2>>), BadLine, JunkLine}

MCFiles == FilesOf(Core, 3) \cup FilesOf(Core \cup Edges, 2)
=============================================================================
